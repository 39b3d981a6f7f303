------------------------------- MODULE Search -------------------------------
(***************************************************************************)
(* query/search.search_symbols: matches from the index first, then a scan  *)
(* of the pinned nodes that is bounded by max_nodes, then a ranked list    *)
(* that is bounded by the limit.                                           *)
(*                                                                         *)
(* Nodes are numbered in the index's scan order, which is also the order   *)
(* among candidates of one rank.  How a query matches a node is a rank:    *)
(* 0 to 4 come from the index, 5 (prefix) and 6 (substring) only from the  *)
(* scan.                                                                   *)
(***************************************************************************)
EXTENDS Naturals, FiniteSets

CONSTANTS Symbols, Scopes, Searches

Indexed == 0..4
Weaker == {5, 6}
NoMatch == 7

\* How the query matches each node, and the nodes of the kinds asked for.
ScopeType == [match : [Symbols -> Indexed \cup Weaker \cup {NoMatch}], kind : SUBSET Symbols]
AskType == [max_nodes : Nat \ {0}, limit : Nat \ {0}]

Parameters ==
    /\ Symbols \subseteq Nat /\ IsFiniteSet(Symbols)
    /\ Scopes \subseteq ScopeType /\ Searches \subseteq AskType

VARIABLES scope, ask, pc, ranked, scanned, unscanned

vars == <<scope, ask, pc, ranked, scanned, unscanned>>

allowance == IF ask.limit < ask.max_nodes THEN ask.limit ELSE ask.max_nodes

Init ==
    /\ scope \in Scopes /\ ask \in Searches
    /\ pc = "index"
    /\ ranked = {} /\ scanned = 0 /\ unscanned = Symbols

\* The index answers; its matches alone may fill the answer, whatever their kind.
LookUp ==
    /\ pc = "index"
    /\ ranked' = {n \in Symbols : scope.match[n] \in Indexed}
    /\ pc' = IF Cardinality(ranked') < allowance THEN "scan" ELSE "listed"
    /\ UNCHANGED <<scope, ask, scanned, unscanned>>

Ceiling == scanned >= ask.max_nodes

\* One turn of the scan.
Scan(n) ==
    /\ pc = "scan" /\ n \in unscanned /\ ~Ceiling
    /\ \A m \in unscanned : n <= m
    /\ unscanned' = unscanned \ {n}
    /\ \/ /\ n \notin scope.kind
          /\ UNCHANGED <<scanned, ranked>>
       \/ /\ n \in scope.kind
          /\ scanned' = scanned + 1
          /\ ranked' = IF scope.match[n] # NoMatch THEN ranked \cup {n} ELSE ranked
    /\ UNCHANGED <<scope, ask, pc>>

ScanEnds ==
    /\ pc = "scan" /\ (Ceiling \/ unscanned = {})
    /\ pc' = "listed"
    /\ UNCHANGED <<scope, ask, ranked, scanned, unscanned>>

Next == LookUp \/ (\E n \in Symbols : Scan(n)) \/ ScanEnds
Spec == Init /\ [][Next]_vars

----------------------------------------------------------------------------
(* The answer. *)

candidates == ranked \cap scope.kind

Before(m, n) ==
    \/ scope.match[m] < scope.match[n]
    \/ scope.match[m] = scope.match[n] /\ m < n

\* candidates[:allowance] of the sorted list.
Answer == {n \in candidates : Cardinality({m \in candidates : Before(m, n)}) < allowance}

truncated == Cardinality(candidates) > allowance

Best(S) == {n \in S : \A m \in S : scope.match[n] <= scope.match[m]}
ambiguous == Cardinality(Best(Answer)) > 1

\* Every match there is, of the kinds asked for.
Matching == {n \in scope.kind : scope.match[n] # NoMatch}
=============================================================================
