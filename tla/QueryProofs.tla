---------------------------- MODULE QueryProofs ----------------------------
(***************************************************************************)
(* Proofs about BoundedWalk and Impact, for every finite scope and every   *)
(* call, and about QueryAnswer, for every envelope and every cap.          *)
(*                                                                         *)
(* The walk's properties need to know where the walk is: what the          *)
(* node being expanded has left to look at (Shape, HereDone), and that a   *)
(* budget, once used up, stays used up (FrontierFull), so what it refused  *)
(* is refused for good.  Against the reference Ball it is followed level   *)
(* by level (BallInv), and the answers of an impact call are compared by   *)
(* what its three walks returned (WideInv, ExactInv, DeeperInv).           *)
(*                                                                         *)
(* In the packing, documents are compared by what is inside what (Inside,  *)
(* SizeGrows), and PackInv says what is known between two probes.  path    *)
(* keeps a tree whose levels are those of Ball (Tree, Sweeping), or has    *)
(* left nothing out (Missed), and walks back along it (Retraced).  search  *)
(* knows what its scan has passed (SearchInv).                             *)
(***************************************************************************)
EXTENDS MCAnswer, FiniteSetTheorems, WellFoundedInduction, NaturalsInduction, TLAPS

\* The node being expanded was visited, and what is left to look at is part of its edges.
Shape ==
    /\ current \subseteq visited
    /\ pc = "edges" => here \in visited /\ todo \subseteq Incident(here)
    /\ pc # "edges" => here = NoNode

Covered(e, n) == e \in Seen /\ (Resolved(e) => OtherEnd(e, n) \in Known)

\* What UncutIsWhole says of an expanded node holds of the looked-at edges of this one.
HereDone ==
    pc = "edges" /\ reasons = {} => \A e \in Incident(here) \ todo : Covered(e, here)

\* FrontierIsReal, with the budget that was used up.
FrontierFull ==
    /\ reasons = {} <=> blocked_at = {}
    /\ \A n \in blocked_at : \E e \in Incident(n) :
        \/ e \notin Seen /\ Cardinality(Seen) >= ask.max_edges
        \/ Resolved(e) /\ OtherEnd(e, n) \notin Known /\ Cardinality(Known) >= ask.max_nodes

IInv ==
    /\ TypeOK /\ Shape /\ BudgetsHold /\ VisitedIsReachable
    /\ UncutIsWhole /\ HereDone /\ FrontierFull

----------------------------------------------------------------------------
\* Lemma: the scope and the call do not change, so neither does what is read off them.
LEMMA Frame ==
  ASSUME graph' = graph, ask' = ask
  PROVE  /\ \A e : Resolved(e)' <=> Resolved(e)
         /\ \A n : Incident(n)' = Incident(n)
         /\ \A e, n : OtherEnd(e, n)' = OtherEnd(e, n)
BY DEF Resolved, Incident, OtherEnd

\* What the lemmas about a scope and a call rest on.
Typed == graph \in GraphType /\ ask \in AskType

LEMMA TypedIs == TypeOK => Typed
BY DEF TypeOK, Typed

\* Lemma: an edge that is incident on a node has its other end among the nodes.
LEMMA EndType ==
  ASSUME Typed, NEW n \in Nodes, NEW e \in Incident(n), Resolved(e)
  PROVE  OtherEnd(e, n) \in Nodes
<1>1. e \in Edges
  BY DEF Typed, AskType, Incident
<1>2. graph.src[e] \in Nodes /\ graph.tgt[e] \in Nodes
  BY <1>1 DEF Typed, GraphType, Resolved
<1> QED BY <1>2 DEF OtherEnd

\* Lemma: the counted sets are finite, and an element that is new raises a count by one.
LEMMA Counts ==
  ASSUME TypeOK
  PROVE  /\ IsFiniteSet(Known) /\ Cardinality(Known) \in Nat
         /\ IsFiniteSet(Seen) /\ Cardinality(Seen) \in Nat
         /\ \A x : Cardinality(Known \cup {x})
                     = IF x \in Known THEN Cardinality(Known) ELSE Cardinality(Known) + 1
         /\ \A x : Cardinality(Seen \cup {x})
                     = IF x \in Seen THEN Cardinality(Seen) ELSE Cardinality(Seen) + 1
<1>1. IsFiniteSet(Known) /\ IsFiniteSet(Seen)
  BY WalkAssumption, FS_Subset, FS_Union DEF WalkParameters, TypeOK, Known, Seen
<1> QED BY <1>1, FS_CardinalityType, FS_AddElement

----------------------------------------------------------------------------
\* A walk that begins, as Init and Begin leave it.
Fresh ==
    /\ graph \in GraphType /\ ask \in AskType
    /\ pc = IF ask.depth = 0 THEN "done" ELSE "level"
    /\ level = 1 /\ depth_reached = 0
    /\ visited = {ask.root} /\ current = {ask.root}
    /\ walked = {} /\ unresolved = {} /\ reasons = {} /\ blocked_at = {}
    /\ here = NoNode /\ todo = {} /\ discovered = {}
    /\ found = [n \in Nodes |-> 0]

\* Lemma: a walk that begins satisfies the inductive invariant.
LEMMA FreshInv == Fresh => IInv
<1> SUFFICES ASSUME Fresh PROVE IInv
  OBVIOUS
<1> USE DEF Fresh
<1>1. ask.root \in Nodes /\ ask.max_nodes \in Nat \ {0} /\ ask.max_edges \in Nat
  BY DEF AskType
<1>2. TypeOK
  BY <1>1, WalkAssumption DEF WalkParameters, TypeOK
<1>3. Shape
  BY DEF Shape
<1>4. BudgetsHold
  <2>1. Known = {ask.root} /\ Seen = {}
    BY DEF Known, Seen
  <2>2. Cardinality({ask.root}) = 1 /\ Cardinality({}) = 0
    BY FS_Singleton, FS_EmptySet
  <2> QED BY <2>1, <2>2, <1>1 DEF BudgetsHold
<1>5. VisitedIsReachable
  BY DEF VisitedIsReachable, Known
<1>6. UncutIsWhole /\ HereDone /\ FrontierFull
  BY DEF UncutIsWhole, HereDone, FrontierFull
<1> QED BY <1>2, <1>3, <1>4, <1>5, <1>6 DEF IInv

\* Lemma: so does the initial state.
LEMMA InitInv == Init => Fresh /\ IInv
BY WalkAssumption, FreshInv DEF WalkParameters, Init, Fresh

----------------------------------------------------------------------------
\* Lemma: taking the next node of the level keeps the invariant.
LEMMA ExpandInv == IInv /\ Expand => IInv'
<1> SUFFICES ASSUME IInv, Expand PROVE IInv'
  OBVIOUS
<1> USE DEF IInv
<1>1. Known' = Known /\ Seen' = Seen /\ graph' = graph /\ ask' = ask
  BY DEF Expand, Known, Seen
<1>2. PICK n \in current : here' = n /\ todo' = Incident(n) /\ current' = current \ {n}
  BY DEF Expand
<1>3. n \in visited /\ n \in Nodes /\ here = NoNode /\ n # NoNode
  BY <1>2, WalkAssumption DEF WalkParameters, Shape, Expand, TypeOK
<1>4. Incident(n) \subseteq Edges
  BY DEF Incident, TypeOK, AskType
<1>5. TypeOK'
  BY <1>2, <1>3, <1>4 DEF TypeOK, Expand
<1>6. Shape'
  BY <1>1, <1>2, <1>3, Frame DEF Shape, Expand
<1>7. BudgetsHold'
  BY <1>1 DEF BudgetsHold
<1>8. VisitedIsReachable'
  BY <1>1, Frame DEF VisitedIsReachable, Closed
<1>9. UncutIsWhole'
  <2>1. visited' \ (current' \cup {here'}) \subseteq visited \ (current \cup {here})
    BY <1>2, <1>3, WalkAssumption DEF WalkParameters, Expand, TypeOK
  <2> QED BY <2>1, <1>1, Frame DEF UncutIsWhole, Expand
<1>10. HereDone'
  BY <1>1, <1>2, Frame DEF HereDone
<1>11. FrontierFull'
  BY <1>1, Frame DEF FrontierFull, Expand
<1> QED BY <1>5, <1>6, <1>7, <1>8, <1>9, <1>10, <1>11

\* Lemma: leaving a node whose edges have all been looked at keeps the invariant.
LEMMA ExpandedInv == IInv /\ Expanded => IInv'
<1> SUFFICES ASSUME IInv, Expanded PROVE IInv'
  OBVIOUS
<1> USE DEF IInv
<1>1. Known' = Known /\ Seen' = Seen /\ graph' = graph /\ ask' = ask
  BY DEF Expanded, Known, Seen
<1>2. TypeOK' /\ Shape'
  BY <1>1, Frame DEF TypeOK, Shape, Expanded
<1>3. BudgetsHold' /\ VisitedIsReachable'
  BY <1>1, Frame DEF BudgetsHold, VisitedIsReachable, Closed
<1>4. UncutIsWhole'
  BY <1>1, Frame DEF UncutIsWhole, HereDone, Covered, Expanded
<1>5. HereDone' /\ FrontierFull'
  BY <1>1, Frame DEF HereDone, FrontierFull, Expanded
<1> QED BY <1>2, <1>3, <1>4, <1>5

\* Lemma: closing a level keeps the invariant.
LEMMA NextLevelInv == IInv /\ NextLevel => IInv'
<1> SUFFICES ASSUME IInv, NextLevel PROVE IInv'
  OBVIOUS
<1> USE DEF IInv
<1>1. Known' = Known /\ Seen' = Seen /\ graph' = graph /\ ask' = ask
  BY DEF NextLevel, Known, Seen
<1>2. TypeOK'
  BY DEF TypeOK, NextLevel, Known
<1>3. Shape'
  BY <1>1, Frame DEF Shape, NextLevel, Known
<1>4. BudgetsHold' /\ VisitedIsReachable'
  BY <1>1, Frame DEF BudgetsHold, VisitedIsReachable, Closed
<1>5. UncutIsWhole'
  <2>1. visited' \ (current' \cup {here'}) \subseteq visited \ (current \cup {here})
    BY <1>3, WalkAssumption DEF WalkParameters, NextLevel, Known, Shape, TypeOK
  <2> QED BY <2>1, <1>1, Frame DEF UncutIsWhole, NextLevel
<1>6. HereDone' /\ FrontierFull'
  BY <1>1, Frame DEF HereDone, FrontierFull, NextLevel
<1> QED BY <1>2, <1>3, <1>4, <1>5, <1>6

\* Lemma: looking at one edge keeps the invariant.
LEMMA LookAtInv == ASSUME IInv, NEW e \in Edges, LookAt(e) PROVE IInv'
<1> USE DEF IInv
<1> DEFINE x == OtherEnd(e, here)
<1>1. graph' = graph /\ ask' = ask /\ visited' = visited /\ here' = here /\ current' = current
      /\ pc' = pc /\ pc = "edges" /\ todo' = todo \ {e} /\ e \in todo
  BY DEF LookAt
<1>2. here \in visited /\ here \in Nodes /\ e \in Incident(here)
  BY <1>1 DEF Shape, TypeOK
<1>3. ask.max_nodes \in Nat /\ ask.max_edges \in Nat
  BY DEF TypeOK, AskType
<1>4. CASE EdgeRefused(e)
  <2>1. Known' = Known /\ Seen' = Seen /\ Block("max_edges") /\ discovered' = discovered
        /\ found' = found /\ walked' = walked /\ unresolved' = unresolved
    BY <1>1, <1>4 DEF LookAt, Known, Seen
  <2>2. reasons' = reasons \cup {"max_edges"} /\ blocked_at' = blocked_at \cup {here}
    BY <2>1 DEF Block
  <2>3. TypeOK' /\ Shape'
    BY <1>1, <1>2, <2>1, <2>2, Frame DEF TypeOK, Shape, LookAt
  <2>4. BudgetsHold' /\ VisitedIsReachable'
    BY <1>1, <2>1, Frame DEF BudgetsHold, VisitedIsReachable, Closed
  <2>5. UncutIsWhole' /\ HereDone'
    BY <2>2 DEF UncutIsWhole, HereDone
  <2>6. FrontierFull'
    BY <1>1, <1>2, <1>4, <2>1, <2>2, Frame DEF FrontierFull, EdgeRefused
  <2> QED BY <2>3, <2>4, <2>5, <2>6
<1>5. CASE ~EdgeRefused(e)
  <2>1. Seen' = Seen \cup {e} /\ walked' \subseteq Edges /\ unresolved' \subseteq Edges
    BY <1>5 DEF LookAt, Seen, TypeOK
  <2>2. Cardinality(Seen') \in Nat /\ Cardinality(Seen') <= ask.max_edges
        /\ Cardinality(Seen) <= Cardinality(Seen')
    BY <1>3, <1>5, <2>1, Counts DEF EdgeRefused, BudgetsHold
  <2>3. \A f : f \notin Seen /\ Cardinality(Seen) >= ask.max_edges => f \notin Seen'
    BY <1>5, <2>1 DEF EdgeRefused
  <2>4. CASE ~LeadsOn(e)
    <3>1. Known' = Known /\ discovered' = discovered /\ found' = found
          /\ reasons' = reasons /\ blocked_at' = blocked_at
      BY <1>5, <2>4 DEF LookAt, Known, NodeRefused
    <3>2. TypeOK' /\ Shape'
      BY <1>1, <1>2, <2>1, <3>1, Frame DEF TypeOK, Shape, LookAt
    <3>3. BudgetsHold' /\ VisitedIsReachable'
      BY <1>1, <2>2, <3>1, Frame DEF BudgetsHold, VisitedIsReachable, Closed
    <3>4. UncutIsWhole' /\ HereDone'
      BY <1>1, <2>1, <2>4, <3>1, Frame DEF UncutIsWhole, HereDone, Covered, LeadsOn
    <3>5. FrontierFull'
      BY <1>1, <1>3, <2>2, <2>3, <3>1, Counts, Frame DEF FrontierFull
    <3> QED BY <3>2, <3>3, <3>4, <3>5
  <2>5. CASE NodeRefused(e)
    <3>1. Known' = Known /\ discovered' = discovered /\ found' = found /\ Block("max_nodes")
      BY <1>5, <2>5 DEF LookAt, Known, NodeRefused
    <3>2. reasons' = reasons \cup {"max_nodes"} /\ blocked_at' = blocked_at \cup {here}
      BY <3>1 DEF Block
    <3>3. TypeOK' /\ Shape'
      BY <1>1, <1>2, <2>1, <3>1, <3>2, Frame DEF TypeOK, Shape, LookAt
    <3>4. BudgetsHold' /\ VisitedIsReachable'
      BY <1>1, <2>2, <3>1, Frame DEF BudgetsHold, VisitedIsReachable, Closed
    <3>5. UncutIsWhole' /\ HereDone'
      BY <3>2 DEF UncutIsWhole, HereDone
    <3>6. FrontierFull'
      BY <1>1, <1>2, <1>3, <2>2, <2>3, <2>5, <3>1, <3>2, Counts, Frame
         DEF FrontierFull, NodeRefused, LeadsOn
    <3> QED BY <3>3, <3>4, <3>5, <3>6
  <2>6. CASE LeadsOn(e) /\ ~NodeRefused(e)
    <3>1. /\ discovered' = discovered \cup {x} /\ Known' = Known \cup {x}
          /\ found' = [found EXCEPT ![x] = Cardinality(Known)]
          /\ reasons' = reasons /\ blocked_at' = blocked_at
      BY <1>1, <1>5, <2>6 DEF LookAt, Known
    <3>2. x \in Nodes /\ x \notin Known
      BY <1>2, <2>6, EndType, TypedIs DEF LeadsOn
    <3>3. Cardinality(Known) < ask.max_nodes /\ Cardinality(Known') = Cardinality(Known) + 1
      BY <1>3, <2>6, <3>1, <3>2, Counts DEF NodeRefused
    <3>4. TypeOK' /\ Shape'
      <4>1. found' \in [Nodes -> Nat]
        BY <3>1, <3>2, Counts DEF TypeOK
      <4> QED BY <1>1, <1>2, <2>1, <3>1, <3>2, <4>1, Frame DEF TypeOK, Shape, LookAt
    <3>5. BudgetsHold'
      BY <1>1, <1>3, <2>2, <3>3, Counts DEF BudgetsHold
    <3>6. VisitedIsReachable'
      <4> SUFFICES ASSUME NEW S \in SUBSET Nodes, ask.root \in S, Closed(S)
                   PROVE  Known' \subseteq S
        BY <1>1, Frame DEF VisitedIsReachable, Closed
      <4>1. Known \subseteq S
        BY DEF VisitedIsReachable
      <4>2. here \in S
        BY <4>1, <1>2 DEF Known
      <4> QED BY <4>1, <4>2, <1>2, <2>6, <3>1 DEF Closed, LeadsOn
    <3>7. UncutIsWhole' /\ HereDone'
      BY <1>1, <2>1, <3>1, Frame DEF UncutIsWhole, HereDone, Covered
    <3>8. FrontierFull'
      <4>1. blocked_at # {} => \A n \in blocked_at : \E f \in Incident(n) :
              f \notin Seen /\ Cardinality(Seen) >= ask.max_edges
        BY <1>3, <3>3, Counts DEF FrontierFull
      <4> QED BY <4>1, <1>1, <1>3, <2>2, <2>3, <3>1, Counts, Frame DEF FrontierFull
    <3> QED BY <3>4, <3>5, <3>6, <3>7, <3>8
  <2> QED BY <2>4, <2>5, <2>6 DEF NodeRefused
<1> QED BY <1>4, <1>5

----------------------------------------------------------------------------
\* The inductive invariant holds throughout the walk.
THEOREM Invariance == Spec => []IInv
<1>1. IInv /\ UNCHANGED vars => IInv'
  <2> SUFFICES ASSUME IInv, UNCHANGED vars PROVE IInv'
    OBVIOUS
  <2>1. Known' = Known /\ Seen' = Seen /\ graph' = graph /\ ask' = ask
    BY DEF vars, walkVars, Known, Seen
  <2> QED BY <2>1, Frame DEF vars, walkVars, IInv, TypeOK, Shape, BudgetsHold,
             VisitedIsReachable, Closed, UncutIsWhole, HereDone, Covered, FrontierFull
<1>2. IInv /\ [Step]_vars => IInv'
  BY <1>1, ExpandInv, ExpandedInv, NextLevelInv, LookAtInv DEF Step
<1> QED BY <1>2, InitInv, PTL DEF Spec

\* The variables of the walk keep their types on every scope and for every call.
THEOREM TypeCorrect == Spec => []TypeOK
BY Invariance, PTL DEF IInv

\* The walk stays inside its node and edge budgets at every moment, however large the
\* scope is.
THEOREM BudgetsKept == Spec => []BudgetsHold
BY Invariance, PTL DEF IInv

\* Nothing is visited that the filters do not lead to from the root.
THEOREM Reachable == Spec => []VisitedIsReachable
BY Invariance, PTL DEF IInv

\* An answer that no budget is recorded as having stopped has left nothing out behind it.
THEOREM Whole == Spec => []UncutIsWhole
BY Invariance, PTL DEF IInv

\* A node named in the frontier is one at which something is missing, at every later moment
\* too.
THEOREM RealFrontier == Spec => []FrontierIsReal
<1>1. IInv => FrontierIsReal
  BY DEF IInv, FrontierFull, FrontierIsReal
<1> QED BY <1>1, Invariance, PTL

\* On every scope and for every call the walk keeps its budgets, misses nothing that it does
\* not mark, and marks nothing that is not missing.
THEOREM Honest == Spec => []WalkIsHonest
BY BudgetsKept, Whole, RealFrontier, PTL DEF WalkIsHonest

----------------------------------------------------------------------------
(* The reference answer: a function defined by recursion over the hops. *)

\* A set of numbers has a least member.
LEMMA LeastIsMember ==
  ASSUME NEW S, S \subseteq Nat, S # {}
  PROVE  \E i \in S : \A j \in S : i <= j
<1> DEFINE R == OpToRel(<, Nat)
<1>1. \E x \in S : \A y \in S : ~ (<<y, x>> \in R)
  <2>1. IsWellFoundedOn(R, Nat)
    BY NatLessThanWellFounded
  <2> HIDE DEF R
  <2> QED BY <2>1, WFMin
<1>2. \A x, y \in S : <<y, x>> \in R <=> y < x
  BY DEF OpToRel
<1> HIDE DEF R
<1>3. PICK x \in S : \A y \in S : ~ (y < x)
  BY <1>1, <1>2, Zenon
<1> QED BY <1>3

\* A set that has 0 and, with a number, the next one, has every number.
LEMMA Counting ==
  ASSUME NEW D, 0 \in D, \A k \in Nat : k \in D => k + 1 \in D
  PROVE  \A k \in Nat : k \in D
<1> DEFINE M == Nat \ D
<1>1. ASSUME M # {} PROVE FALSE
  <2>1. PICK l \in M : \A j \in M : l <= j
    <3>1. M \subseteq Nat
      OBVIOUS
    <3> HIDE DEF M
    <3> QED BY <1>1, <3>1, LeastIsMember
  <2>2. l \in Nat /\ l # 0
    BY <2>1
  <2>3. l - 1 \in Nat /\ (l - 1) + 1 = l /\ ~(l <= l - 1)
    BY <2>2
  <2>4. l - 1 \in D
    BY <2>1, <2>3
  <2>5. (l - 1) + 1 \in D
    BY <2>3, <2>4
  <2> QED BY <2>1, <2>3, <2>5
<1> QED BY <1>1

\* f starts with r and goes from each value to the next by H, n times.
Layers(f, r, H, n) == f[0] = r /\ \A k \in 1..n : f[k] = H[f[k - 1]]

\* Two such functions agree as far as both go.
LEMMA LayersAgree ==
  ASSUME NEW r, NEW H, NEW n \in Nat, NEW m \in Nat, n <= m,
         NEW f, NEW g, Layers(f, r, H, n), Layers(g, r, H, m)
  PROVE  \A k \in 0..n : f[k] = g[k]
<1> DEFINE D == {k \in Nat : k <= n => f[k] = g[k]}
<1>1. 0 \in D
  BY DEF Layers
<1>2. ASSUME NEW k \in Nat, k \in D PROVE k + 1 \in D
  <2> SUFFICES ASSUME k + 1 <= n PROVE f[k + 1] = g[k + 1]
    OBVIOUS
  <2>1. f[k] = g[k]
    BY <1>2
  <2>2. k + 1 \in 1..n /\ k + 1 \in 1..m /\ (k + 1) - 1 = k
    OBVIOUS
  <2>3. f[k + 1] = H[f[(k + 1) - 1]] /\ g[k + 1] = H[g[(k + 1) - 1]]
    BY <2>2 DEF Layers
  <2> QED BY <2>1, <2>2, <2>3
<1>3. \A k \in Nat : k \in D
  <2> HIDE DEF D
  <2> QED BY <1>1, <1>2, Counting
<1> QED BY <1>3

\* There is such a function over all numbers.
LEMMA LayersExist ==
  ASSUME NEW U, NEW r \in U, NEW H \in [U -> U]
  PROVE  \E f \in [Nat -> U] : f[0] = r /\ \A k \in Nat : f[k + 1] = H[f[k]]
<1> DEFINE Part(n) == \E f \in [0..n -> U] : Layers(f, r, H, n)
           D == {n \in Nat : Part(n)}
<1>1. Part(0)
  <2>1. [k \in 0..0 |-> r] \in [0..0 -> U] /\ Layers([k \in 0..0 |-> r], r, H, 0)
    BY DEF Layers
  <2> QED BY <2>1
<1>2. ASSUME NEW n \in Nat, Part(n) PROVE Part(n + 1)
  <2>1. PICK f \in [0..n -> U] : Layers(f, r, H, n)
    BY <1>2
  <2> DEFINE g == [k \in 0..(n + 1) |-> IF k = n + 1 THEN H[f[n]] ELSE f[k]]
  <2>2. g \in [0..(n + 1) -> U]
    OBVIOUS
  <2>3. Layers(g, r, H, n + 1)
    BY <2>1 DEF Layers
  <2> QED BY <2>2, <2>3
<1>3. \A n \in Nat : n \in D
  <2>1. 0 \in D /\ \A n \in Nat : n \in D => n + 1 \in D
    <3> HIDE DEF Part
    <3> QED BY <1>1, <1>2
  <2> HIDE DEF D
  <2> QED BY <2>1, Counting
<1> DEFINE a(n) == CHOOSE f \in [0..n -> U] : Layers(f, r, H, n)
           F == [n \in Nat |-> a(n)[n]]
<1>4. \A n \in Nat : a(n) \in [0..n -> U] /\ Layers(a(n), r, H, n)
  BY <1>3
<1> HIDE DEF a
<1>5. F \in [Nat -> U] /\ F[0] = r
  BY <1>4 DEF Layers
<1>6. ASSUME NEW k \in Nat PROVE F[k + 1] = H[F[k]]
  <2>1. k + 1 \in 1..(k + 1) /\ (k + 1) - 1 = k /\ k \in 0..k /\ k <= k + 1 /\ k + 1 \in Nat
    OBVIOUS
  <2>2. a(k + 1)[k + 1] = H[a(k + 1)[(k + 1) - 1]]
    BY <1>4, <2>1 DEF Layers
  <2>3. a(k)[k] = a(k + 1)[k]
    BY <1>4, <2>1, LayersAgree
  <2> QED BY <2>1, <2>2, <2>3
<1> HIDE DEF F
<1> QED BY <1>5, <1>6

\* Functions whose values grow from each number to the next grow between any two numbers.
LEMMA LayersGrow ==
  ASSUME NEW U, NEW f \in [Nat -> SUBSET U], \A k \in Nat : f[k] \subseteq f[k + 1],
         NEW k \in Nat, NEW m \in Nat, k <= m
  PROVE  f[k] \subseteq f[m]
<1> DEFINE D == {j \in Nat : f[k] \subseteq f[k + j]}
<1>1. 0 \in D
  OBVIOUS
<1>2. ASSUME NEW j \in Nat, j \in D PROVE j + 1 \in D
  <2>1. k + j \in Nat /\ (k + j) + 1 = k + (j + 1) /\ j + 1 \in Nat
    OBVIOUS
  <2>2. f[k + j] \subseteq f[(k + j) + 1]
    BY <2>1
  <2> QED BY <1>2, <2>1, <2>2
<1>3. \A j \in Nat : j \in D
  <2> HIDE DEF D
  <2> QED BY <1>1, <1>2, Counting
<1>4. m - k \in Nat /\ k + (m - k) = m
  OBVIOUS
<1> QED BY <1>3, <1>4

\* Once such a step adds nothing, no later one does.
LEMMA LayersStop ==
  ASSUME NEW f, NEW H, \A k \in Nat : f[k + 1] = H[f[k]],
         NEW k \in Nat, NEW m \in Nat, k <= m, H[f[k]] = f[k]
  PROVE  f[m] = f[k]
<1> DEFINE D == {j \in Nat : f[k + j] = f[k]}
<1>1. 0 \in D
  OBVIOUS
<1>2. ASSUME NEW j \in Nat, j \in D PROVE j + 1 \in D
  <2>1. k + j \in Nat /\ (k + j) + 1 = k + (j + 1) /\ j + 1 \in Nat
    OBVIOUS
  <2>2. f[(k + j) + 1] = H[f[k + j]]
    BY <2>1
  <2> QED BY <1>2, <2>1, <2>2
<1>3. \A j \in Nat : j \in D
  <2> HIDE DEF D
  <2> QED BY <1>1, <1>2, Counting
<1>4. m - k \in Nat /\ k + (m - k) = m
  OBVIOUS
<1> QED BY <1>3, <1>4

\* One hop from a set of nodes leads to nodes.
LEMMA HopType ==
  ASSUME Typed, NEW S \in SUBSET Nodes
  PROVE  Hop(S) \in SUBSET Nodes /\ S \subseteq Hop(S)
BY EndType DEF Hop

HopFunction == [S \in SUBSET Nodes |-> Hop(S)]

\* The reference function is what its recursion says.
LEMMA BallIs ==
  ASSUME Typed
  PROVE  /\ Ball \in [Nat -> SUBSET Nodes] /\ Ball[0] = {ask.root}
         /\ \A k \in Nat : Ball[k + 1] = Hop(Ball[k]) /\ Ball[k + 1] = HopFunction[Ball[k]]
<1>1. HopFunction \in [SUBSET Nodes -> SUBSET Nodes] /\ {ask.root} \in SUBSET Nodes
  BY HopType DEF HopFunction, Typed, AskType
<1>2. PICK f \in [Nat -> SUBSET Nodes] :
        f[0] = {ask.root} /\ \A k \in Nat : f[k + 1] = HopFunction[f[k]]
  <2> DEFINE U == SUBSET Nodes
             r == {ask.root}
  <2>1. r \in U /\ HopFunction \in [U -> U]
    BY <1>1
  <2> HIDE DEF U, r
  <2>2. \E f \in [Nat -> U] : f[0] = r /\ \A k \in Nat : f[k + 1] = HopFunction[f[k]]
    BY <2>1, LayersExist
  <2> QED BY <2>2 DEF U, r
<1>3. \A k \in Nat : f[k] = IF k = 0 THEN {ask.root} ELSE Hop(f[k - 1])
  <2> SUFFICES ASSUME NEW k \in Nat PROVE f[k] = IF k = 0 THEN {ask.root} ELSE Hop(f[k - 1])
    OBVIOUS
  <2>1. CASE k = 0
    BY <1>2, <2>1
  <2>2. CASE k # 0
    <3>1. k - 1 \in Nat /\ (k - 1) + 1 = k
      BY <2>2
    <3>2. f[(k - 1) + 1] = HopFunction[f[k - 1]]
      BY <1>2, <3>1
    <3> QED BY <2>2, <3>1, <3>2 DEF HopFunction
  <2> QED BY <2>1, <2>2
<1>4. f = [k \in Nat |-> IF k = 0 THEN {ask.root} ELSE Hop(f[k - 1])]
  BY <1>3
<1>5. Ball = [k \in Nat |-> IF k = 0 THEN {ask.root} ELSE Hop(Ball[k - 1])]
  BY <1>4, Zenon DEF Ball
<1>6. Ball[0] = {ask.root}
  BY <1>5
<1>7. \A k \in Nat : Ball[k + 1] = Hop(Ball[k])
  <2> SUFFICES ASSUME NEW k \in Nat PROVE Ball[k + 1] = Hop(Ball[k])
    OBVIOUS
  <2>1. k + 1 \in Nat /\ k + 1 # 0 /\ (k + 1) - 1 = k
    OBVIOUS
  <2>2. Ball[k + 1] = IF k + 1 = 0 THEN {ask.root} ELSE Hop(Ball[(k + 1) - 1])
    BY <1>5, <2>1
  <2> QED BY <2>1, <2>2
<1>8. \A k \in Nat : Ball[k] \in SUBSET Nodes
  <2> DEFINE D == {k \in Nat : Ball[k] \in SUBSET Nodes}
  <2>1. 0 \in D /\ \A k \in Nat : k \in D => k + 1 \in D
    BY <1>1, <1>6, <1>7, HopType
  <2>2. \A k \in Nat : k \in D
    <3> HIDE DEF D
    <3> QED BY <2>1, Counting
  <2> QED BY <2>2
<1>9. Ball \in [Nat -> SUBSET Nodes]
  <2>1. Ball = [k \in Nat |-> Ball[k]]
    BY <1>5
  <2> QED BY <1>8, <2>1
<1> QED BY <1>6, <1>7, <1>8, <1>9 DEF HopFunction

\* More hops lead to no fewer nodes, and when one hop adds nothing no further hop does.
LEMMA BallGrows ==
  ASSUME Typed, NEW k \in Nat, NEW m \in Nat, k <= m
  PROVE  Ball[k] \subseteq Ball[m] /\ (Hop(Ball[k]) = Ball[k] => Ball[m] = Ball[k])
<1>1. \A j \in Nat : Ball[j] \subseteq Ball[j + 1]
  BY BallIs, HopType
<1>2. Ball[k] \subseteq Ball[m]
  BY <1>1, BallIs, LayersGrow
<1>3. ASSUME Hop(Ball[k]) = Ball[k] PROVE Ball[m] = Ball[k]
  <2>1. HopFunction[Ball[k]] = Ball[k]
    BY <1>3, BallIs DEF HopFunction
  <2>2. \A j \in Nat : Ball[j + 1] = HopFunction[Ball[j]]
    BY BallIs
  <2> DEFINE f == Ball
             H == HopFunction
  <2>3. H[f[k]] = f[k] /\ \A j \in Nat : f[j + 1] = H[f[j]]
    BY <2>1, <2>2
  <2> HIDE DEF f, H
  <2>4. f[m] = f[k]
    BY <2>3, LayersStop
  <2> QED BY <2>4 DEF f
<1> QED BY <1>2, <1>3

\* The reference does not change while the scope and the call do not.
LEMMA BallFrame ==
  ASSUME graph' = graph, ask' = ask
  PROVE  Ball' = Ball
BY DEF Ball, Hop, OtherEnd, Incident, Resolved

----------------------------------------------------------------------------
(* The walk against the reference. *)

\* What was reached lies within as many hops as there were levels, and is all of it unless a
\* budget stopped something; the edges in the answer leave what was reached.
BallInv ==
    /\ pc \in {"level", "edges"} =>
        /\ level \in 1..ask.depth
        /\ visited \subseteq Ball[level - 1] /\ Known \subseteq Ball[level]
        /\ Seen \subseteq UNION {Incident(n) : n \in visited}
        /\ reasons = {} => visited = Ball[level - 1]
    /\ pc = "done" => visited \subseteq Ball[ask.depth]
    /\ AnswerIsBall

\* Lemma: a walk that begins has reached the root.
LEMMA FreshBall == Fresh => IInv /\ BallInv
<1> SUFFICES ASSUME Fresh PROVE IInv /\ BallInv
  OBVIOUS
<1>1. IInv /\ TypeOK
  BY FreshInv DEF IInv
<1>2. Ball[0] = {ask.root} /\ ask.depth \in Nat
  BY <1>1, BallIs, TypedIs DEF TypeOK, AskType
<1>3. Known = {ask.root} /\ Seen = {}
  BY DEF Fresh, Known, Seen
<1>4. CASE ask.depth = 0
  <2>1. pc = "done"
    BY <1>4 DEF Fresh
  <2> QED BY <1>1, <1>2, <1>3, <1>4, <2>1 DEF Fresh, BallInv, AnswerIsBall
<1>5. CASE ask.depth # 0
  <2>1. pc = "level" /\ level = 1 /\ visited = {ask.root}
    BY <1>5 DEF Fresh
  <2>2. Ball[0] \subseteq Ball[1]
    BY <1>1, BallGrows, TypedIs
  <2> QED BY <1>1, <1>2, <1>3, <1>5, <2>1, <2>2 DEF BallInv, AnswerIsBall
<1> QED BY <1>4, <1>5

\* Lemma: the same of the state after a step that begins a walk.
LEMMA FreshNext == Fresh' => IInv' /\ BallInv'
BY FreshBall, PTL

\* Lemma: what the steps inside a level leave alone.
LEMMA InsideBall ==
  ASSUME IInv, BallInv, pc \in {"level", "edges"}, pc' \in {"level", "edges"},
         graph' = graph, ask' = ask, level' = level, visited' = visited,
         reasons \subseteq reasons',
         Known' \subseteq Ball[level], Seen' \subseteq UNION {Incident(n) : n \in visited}
  PROVE  BallInv'
<1>1. Ball' = Ball
  BY BallFrame
<1> QED BY <1>1, Frame DEF BallInv, AnswerIsBall

\* Lemma: looking at an edge of a node reached in level - 1 hops leads one hop further.
LEMMA LookAtBall ==
  ASSUME IInv, BallInv, NEW e \in Edges, LookAt(e) PROVE BallInv'
<1> DEFINE x == OtherEnd(e, here)
<1>1. /\ graph' = graph /\ ask' = ask /\ visited' = visited /\ level' = level
      /\ pc' = pc /\ pc = "edges" /\ e \in todo /\ reasons \subseteq reasons'
  BY DEF LookAt, Block
<1>2. here \in visited /\ here \in Nodes /\ e \in Incident(here) /\ TypeOK
  BY <1>1 DEF IInv, Shape, TypeOK
<1>3. Seen' \subseteq Seen \cup {e}
  BY DEF LookAt, Seen
<1>4. Seen' \subseteq UNION {Incident(n) : n \in visited}
  BY <1>1, <1>2, <1>3 DEF BallInv
<1>5. Known' = Known \/ (Resolved(e) /\ Known' = Known \cup {x})
  BY DEF LookAt, Known, LeadsOn
<1>6. Known' \subseteq Ball[level]
  <2>1. level - 1 \in Nat /\ (level - 1) + 1 = level /\ here \in Ball[level - 1]
    BY <1>1, <1>2 DEF BallInv, TypeOK, AskType
  <2>2. Resolved(e) => x \in Hop(Ball[level - 1])
    BY <1>2, <2>1 DEF Hop
  <2>3. Ball[level] = Hop(Ball[level - 1])
    <3>1. Ball[(level - 1) + 1] = Hop(Ball[level - 1])
      BY <1>2, <2>1, BallIs, TypedIs
    <3> QED BY <2>1, <3>1
  <2> QED BY <1>1, <1>5, <2>2, <2>3 DEF BallInv
<1> QED BY <1>1, <1>4, <1>6, InsideBall

\* Lemma: taking up a node and leaving it change nothing that was reached.
LEMMA NodeBall == IInv /\ BallInv /\ (Expand \/ Expanded) => BallInv'
<1> SUFFICES ASSUME IInv, BallInv, Expand \/ Expanded PROVE BallInv'
  OBVIOUS
<1>1. /\ pc \in {"level", "edges"} /\ pc' \in {"level", "edges"} /\ level' = level
      /\ graph' = graph /\ ask' = ask /\ visited' = visited /\ reasons' = reasons
      /\ Known' = Known /\ Seen' = Seen
  BY DEF Expand, Expanded, Known, Seen
<1> QED BY <1>1, InsideBall DEF BallInv

\* Lemma: an uncut level that is over has found everything one hop further.
LEMMA LevelIsWhole ==
  ASSUME IInv, BallInv, pc = "level", current = {}, reasons = {}
  PROVE  Known = Ball[level] /\ Seen = UNION {Incident(n) : n \in Ball[level - 1]}
<1>1. level - 1 \in Nat /\ (level - 1) + 1 = level /\ visited = Ball[level - 1] /\ TypeOK
  BY DEF BallInv, IInv, TypeOK, AskType
<1>2. \A n \in visited : \A e \in Incident(n) : Covered(e, n)
  <2>1. here = NoNode /\ NoNode \notin visited
    BY WalkAssumption DEF WalkParameters, IInv, Shape, TypeOK
  <2> QED BY <2>1 DEF IInv, UncutIsWhole, Covered
<1>3. Hop(visited) \subseteq Known
  BY <1>2 DEF Hop, Known, Covered
<1>4. Ball[level] = Hop(visited)
  <2>1. Ball[(level - 1) + 1] = Hop(Ball[level - 1])
    BY <1>1, BallIs, TypedIs
  <2> QED BY <1>1, <2>1
<1>5. Known = Ball[level]
  BY <1>3, <1>4 DEF BallInv
<1>6. Seen = UNION {Incident(n) : n \in visited}
  BY <1>2 DEF BallInv, Covered
<1> QED BY <1>1, <1>5, <1>6

\* Lemma: closing a level takes the walk one hop further, or to its end.
LEMMA NextLevelBall == IInv /\ BallInv /\ NextLevel => BallInv'
<1> SUFFICES ASSUME IInv, BallInv, NextLevel PROVE BallInv'
  OBVIOUS
<1>1. /\ graph' = graph /\ ask' = ask /\ Seen' = Seen /\ reasons' = reasons
      /\ pc = "level" /\ current = {} /\ Ball' = Ball
  BY BallFrame DEF NextLevel, Seen
<1>2. /\ TypeOK /\ ask.depth \in Nat /\ level \in Nat /\ level - 1 \in Nat /\ ask.depth - 1 \in Nat
      /\ level <= ask.depth /\ level - 1 <= ask.depth - 1 /\ (level - 1) + 1 = level
      /\ ask.depth # 0
  BY <1>1 DEF BallInv, IInv, TypeOK, AskType
<1>3. reasons = {} => Known = Ball[level] /\ Seen = UNION {Incident(n) : n \in Ball[level - 1]}
  BY <1>1, LevelIsWhole
<1>4. /\ Known \subseteq Ball[level] /\ visited \subseteq Known
      /\ reasons = {} => visited = Ball[level - 1]
  BY <1>1 DEF BallInv, Known
<1>5. CASE ~(discovered \subseteq graph.pinned)
  <2>1. pc' = "not_found"
    BY <1>5 DEF NextLevel
  <2> QED BY <2>1 DEF BallInv, AnswerIsBall
<1>6. CASE discovered \subseteq graph.pinned
  <2>1. /\ visited' = Known /\ Known' = Known /\ level' = level + 1
        /\ pc' = IF discovered = {} \/ level = ask.depth THEN "done" ELSE "level"
    BY <1>6 DEF NextLevel, Known, LastLevel
  <2>2. CASE pc' = "level"
    <3>1. level' \in 1..ask.depth /\ level' - 1 = level
      BY <1>2, <2>1, <2>2
    <3>2. Ball[level] \subseteq Ball[level + 1]
      BY <1>2, BallGrows, TypedIs
    <3>3. Seen' \subseteq UNION {Incident(n) : n \in visited'}
      BY <1>1, <1>4, <2>1 DEF BallInv
    <3> QED BY <1>1, <1>3, <1>4, <2>1, <2>2, <3>1, <3>2, <3>3, Frame DEF BallInv, AnswerIsBall
  <2>3. CASE pc' = "done"
    <3>1. Ball[level] \subseteq Ball[ask.depth]
      BY <1>2, BallGrows, TypedIs
    <3>2. ASSUME reasons = {}
          PROVE  Known = Ball[ask.depth] /\ Ball[level - 1] = Ball[ask.depth - 1]
      <4>1. CASE level = ask.depth
        BY <1>3, <3>2, <4>1
      <4>2. CASE discovered = {}
        <5>1. Hop(Ball[level - 1]) = Ball[level - 1]
          <6>1. Ball[(level - 1) + 1] = Hop(Ball[level - 1])
            BY <1>2, BallIs, TypedIs
          <6>2. Known = visited
            BY <4>2 DEF Known
          <6> QED BY <1>2, <1>3, <1>4, <3>2, <6>1, <6>2
        <5>2. Ball[ask.depth] = Ball[level - 1] /\ Ball[ask.depth - 1] = Ball[level - 1]
          BY <1>2, <5>1, BallGrows, TypedIs
        <5>3. Known = visited
          BY <4>2 DEF Known
        <5> QED BY <1>4, <3>2, <5>2, <5>3
      <4> QED BY <2>1, <2>3, <4>1, <4>2
    <3> QED BY <1>1, <1>2, <1>3, <1>4, <2>1, <2>3, <3>1, <3>2, Frame DEF BallInv, AnswerIsBall
  <2> QED BY <2>1, <2>2, <2>3
<1> QED BY <1>5, <1>6

\* Lemma: every step of the walk, and every step that leaves it alone, keeps both invariants.
LEMMA StepBall == IInv /\ BallInv /\ [Step]_vars => IInv' /\ BallInv'
<1> SUFFICES ASSUME IInv, BallInv, [Step]_vars PROVE IInv' /\ BallInv'
  OBVIOUS
<1>1. CASE Step
  BY <1>1, ExpandInv, ExpandedInv, NextLevelInv, LookAtInv, LookAtBall, NodeBall, NextLevelBall
     DEF Step
<1>2. CASE UNCHANGED vars
  <2>1. Known' = Known /\ Seen' = Seen /\ graph' = graph /\ ask' = ask
    BY <1>2 DEF vars, walkVars, Known, Seen
  <2>2. IInv'
    BY <1>2, <2>1, Frame DEF vars, walkVars, IInv, TypeOK, Shape, BudgetsHold,
       VisitedIsReachable, Closed, UncutIsWhole, HereDone, Covered, FrontierFull
  <2>3. Ball' = Ball
    BY <2>1, BallFrame
  <2>4. BallInv'
    BY <1>2, <2>1, <2>3, Frame DEF vars, walkVars, BallInv, AnswerIsBall
  <2> QED BY <2>2, <2>4
<1> QED BY <1>1, <1>2

----------------------------------------------------------------------------
(* The three walks of an impact call.  What a walk returned is kept when the next begins, so
   it is compared with a reference that does not speak of the walk under way. *)

\* The sets within k hops of r against the edges o of a scope g.
Up(g, o) == [S \in SUBSET Nodes |-> S \cup {g.src[e] : e \in {f \in o : g.tgt[f] \in S}}]
Reach(g, o, r) ==
    CHOOSE f \in [Nat -> SUBSET Nodes] :
        f[0] = {r} /\ \A k \in Nat : f[k + 1] = Up(g, o)[f[k]]

\* Lemma: the reference exists, and grows with the hops.
LEMMA ReachIs ==
  ASSUME NEW g \in GraphType, NEW o \in SUBSET Edges, NEW r \in Nodes
  PROVE  /\ Reach(g, o, r) \in [Nat -> SUBSET Nodes] /\ Reach(g, o, r)[0] = {r}
         /\ \A k \in Nat : /\ Reach(g, o, r)[k + 1] = Up(g, o)[Reach(g, o, r)[k]]
                           /\ Reach(g, o, r)[k] \subseteq Reach(g, o, r)[k + 1]
         /\ \A k, m \in Nat : k <= m => Reach(g, o, r)[k] \subseteq Reach(g, o, r)[m]
<1> DEFINE U == SUBSET Nodes
           R == Reach(g, o, r)
           z == {r}
           H == Up(g, o)
<1>1. \A S \in U : H[S] \in U /\ S \subseteq H[S]
  <2> SUFFICES ASSUME NEW S \in SUBSET Nodes PROVE H[S] \in SUBSET Nodes /\ S \subseteq H[S]
    OBVIOUS
  <2>1. \A e \in o : g.src[e] \in Nodes
    BY DEF GraphType
  <2> QED BY <2>1 DEF Up
<1>2. H \in [U -> U] /\ z \in U
  BY <1>1 DEF Up
<1>3. \E f \in [Nat -> U] : f[0] = z /\ \A k \in Nat : f[k + 1] = H[f[k]]
  <2> HIDE DEF U, z, H
  <2> QED BY <1>2, LayersExist
<1>4. R \in [Nat -> U] /\ R[0] = z /\ \A k \in Nat : R[k + 1] = H[R[k]]
  BY <1>3, Zenon DEF Reach
<1>5. \A k \in Nat : R[k] \subseteq R[k + 1]
  <2> HIDE DEF R, H, U
  <2> QED BY <1>1, <1>4
<1>6. \A k, m \in Nat : k <= m => R[k] \subseteq R[m]
  <2> HIDE DEF R
  <2> QED BY <1>4, <1>5, LayersGrow
<1> QED BY <1>4, <1>5, <1>6

\* Lemma: with fewer edges it has fewer nodes.
LEMMA ReachOnly ==
  ASSUME NEW g \in GraphType, NEW o \in SUBSET Edges, NEW p \in SUBSET o, NEW r \in Nodes
  PROVE  \A k \in Nat : Reach(g, p, r)[k] \subseteq Reach(g, o, r)[k]
<1> DEFINE P == Reach(g, p, r)
           R == Reach(g, o, r)
           D == {k \in Nat : P[k] \subseteq R[k]}
<1>1. p \in SUBSET Edges
  OBVIOUS
<1>2. /\ P \in [Nat -> SUBSET Nodes] /\ P[0] = {r} /\ \A k \in Nat : P[k + 1] = Up(g, p)[P[k]]
      /\ R \in [Nat -> SUBSET Nodes] /\ R[0] = {r} /\ \A k \in Nat : R[k + 1] = Up(g, o)[R[k]]
  BY <1>1, ReachIs
<1> HIDE DEF P, R
<1>3. 0 \in D
  BY <1>2
<1>4. ASSUME NEW k \in Nat, k \in D PROVE k + 1 \in D
  <2>1. P[k] \in SUBSET Nodes /\ R[k] \in SUBSET Nodes /\ P[k] \subseteq R[k]
    BY <1>2, <1>4
  <2>2. Up(g, p)[P[k]] \subseteq Up(g, o)[R[k]]
    BY <2>1 DEF Up
  <2>3. P[k + 1] = Up(g, p)[P[k]] /\ R[k + 1] = Up(g, o)[R[k]] /\ k + 1 \in Nat
    BY <1>2
  <2> QED BY <2>2, <2>3
<1>5. \A k \in Nat : k \in D
  <2> HIDE DEF D
  <2> QED BY <1>3, <1>4, Counting
<1> QED BY <1>5 DEF P, R

\* Lemma: a walk against the edges has this reference.
LEMMA BallIsReach ==
  ASSUME TypeOK, ask.heading = "incoming"
  PROVE  \A k \in Nat : Ball[k] = Reach(graph, ask.only, ask.root)[k]
<1> DEFINE R == Reach(graph, ask.only, ask.root)
           D == {k \in Nat : Ball[k] = R[k]}
<1>1. graph \in GraphType /\ ask.only \in SUBSET Edges /\ ask.root \in Nodes
  BY DEF TypeOK, AskType
<1>2. R \in [Nat -> SUBSET Nodes] /\ R[0] = {ask.root}
      /\ \A k \in Nat : R[k + 1] = Up(graph, ask.only)[R[k]]
  BY <1>1, ReachIs
<1>3. \A S \in SUBSET Nodes : Hop(S) = Up(graph, ask.only)[S]
  <2> SUFFICES ASSUME NEW S \in SUBSET Nodes PROVE Hop(S) = Up(graph, ask.only)[S]
    OBVIOUS
  <2>1. Up(graph, ask.only)[S] = S \cup {graph.src[e] : e \in {f \in ask.only : graph.tgt[f] \in S}}
    BY DEF Up
  <2>2. \A e, n : OtherEnd(e, n) = graph.src[e]
    BY DEF OtherEnd
  <2>3. \A n : Incident(n) = {f \in ask.only : graph.tgt[f] = n}
    BY DEF Incident
  <2>4. \A f : graph.tgt[f] \in S => Resolved(f)
    BY WalkAssumption DEF WalkParameters, Resolved
  <2>5. ASSUME NEW m, m \in Hop(S) PROVE m \in Up(graph, ask.only)[S]
    BY <2>1, <2>2, <2>3, <2>5 DEF Hop
  <2>6. ASSUME NEW m, m \in Up(graph, ask.only)[S] PROVE m \in Hop(S)
    <3>1. CASE m \in S
      BY <3>1 DEF Hop
    <3>2. ASSUME NEW e \in ask.only, graph.tgt[e] \in S, m = graph.src[e] PROVE m \in Hop(S)
      <4>1. e \in Incident(graph.tgt[e]) /\ Resolved(e) /\ m = OtherEnd(e, graph.tgt[e])
        BY <2>2, <2>3, <2>4, <3>2
      <4> QED BY <3>2, <4>1 DEF Hop
    <3> QED BY <2>1, <2>6, <3>1, <3>2
  <2> QED BY <2>5, <2>6
<1> HIDE DEF R
<1>4. 0 \in D
  BY <1>2, BallIs, TypedIs
<1>5. ASSUME NEW k \in Nat, k \in D PROVE k + 1 \in D
  <2>1. Ball[k] \in SUBSET Nodes /\ Ball[k] = R[k] /\ Ball[k + 1] = Hop(Ball[k])
    BY <1>5, BallIs, TypedIs
  <2> QED BY <1>2, <1>3, <2>1
<1>6. \A k \in Nat : k \in D
  <2> HIDE DEF D
  <2> QED BY <1>4, <1>5, Counting
<1> QED BY <1>6 DEF R

----------------------------------------------------------------------------
\* The nodes that reach the target of the call within k hops over the edges o.
Dependents(o, k) == Reach(graph, o, call.root)[k]

DeeperAsk == [call EXCEPT !.depth = @ + 1]

\* The walk under way is the one the phase says.
CallInv ==
    /\ call \in AskType /\ facts \in FactsType
    /\ phase \in {"plain", "wide", "exact", "deeper", "answered"}
    /\ phase # "plain" => call.heading = "incoming"
    /\ phase \in {"plain", "wide"} => ask = call
    /\ phase = "exact" => ask = ExactAsk
    /\ phase = "deeper" => ask = DeeperAsk

\* What the walks returned, once they have.
WideInv ==
    phase \in {"exact", "deeper", "answered"} =>
        /\ wide.nodes \subseteq Dependents(call.only, call.depth)
        /\ ~wide.truncated => wide.nodes = Dependents(call.only, call.depth)

ExactInv ==
    phase \in {"deeper", "answered"} =>
        /\ exact.nodes \subseteq Dependents(call.only \cap facts.static, call.depth)
        /\ \A S \in SUBSET Nodes :
            call.root \in S /\ DependentsIn(S, call.only \cap facts.static)
                => exact.nodes \subseteq S

DeeperInv ==
    phase = "answered" /\ call.depth < MaxDepth /\ ~deeper.truncated =>
        deeper.nodes = Dependents(call.only, call.depth + 1)

ImpactInv == IInv /\ BallInv /\ CallInv /\ WideInv /\ ExactInv /\ DeeperInv

\* Lemma: the calls that impact makes of its own call are calls.
LEMMA AskTypes ==
  ASSUME call \in AskType, facts \in FactsType
  PROVE  /\ ExactAsk \in AskType /\ DeeperAsk \in AskType
         /\ ExactAsk.root = call.root /\ ExactAsk.depth = call.depth
         /\ ExactAsk.heading = call.heading /\ ExactAsk.only = call.only \cap facts.static
         /\ DeeperAsk.root = call.root /\ DeeperAsk.depth = call.depth + 1
         /\ DeeperAsk.heading = call.heading /\ DeeperAsk.only = call.only
BY DEF AskType, ExactAsk, DeeperAsk

\* Lemma: a call begins with the invariant.
LEMMA ImpactInitInv == ImpactInit => ImpactInv
<1> SUFFICES ASSUME ImpactInit PROVE ImpactInv
  OBVIOUS
<1>1. IInv /\ BallInv
  BY InitInv, FreshBall DEF ImpactInit
<1>2. facts \in FactsType
  <2>1. NoFacts \in FactsType
    BY DEF NoFacts, FactsType
  <2> QED BY <2>1, ImpactAssumption DEF ImpactInit
<1>3. CallInv
  BY <1>1, <1>2 DEF ImpactInit, CallInv, IInv, TypeOK
<1> QED BY <1>1, <1>3 DEF ImpactInit, ImpactInv, WideInv, ExactInv, DeeperInv

\* Lemma: while the scope, the call and its facts stand, so do the references.
LEMMA DependentsFrame ==
  ASSUME graph' = graph, call' = call, facts' = facts
  PROVE  /\ \A o, k : Dependents(o, k)' = Dependents(o, k)
         /\ \A S, o : DependentsIn(S, o)' <=> DependentsIn(S, o)
         /\ ExactAsk' = ExactAsk /\ DeeperAsk' = DeeperAsk
BY DEF Dependents, DependentsIn, Resolved, ExactAsk, DeeperAsk

\* Lemma: a walk against the edges that ended with a result is what the references say.
LEMMA DoneIs ==
  ASSUME ImpactInv, pc = "done", ask.heading = "incoming", ask.root = call.root
  PROVE  /\ Result.nodes \subseteq Dependents(ask.only, ask.depth)
         /\ ~Result.truncated => Result.nodes = Dependents(ask.only, ask.depth)
         /\ \A S \in SUBSET Nodes :
             call.root \in S /\ DependentsIn(S, ask.only) => Result.nodes \subseteq S
<1>1. TypeOK /\ ask.depth \in Nat
  BY DEF ImpactInv, IInv, TypeOK, AskType
<1>2. Ball[ask.depth] = Dependents(ask.only, ask.depth)
  BY <1>1, BallIsReach DEF Dependents
<1>3. Result.nodes = visited /\ (~Result.truncated => reasons = {})
  BY DEF Result
<1>4. visited \subseteq Ball[ask.depth] /\ (reasons = {} => visited = Ball[ask.depth])
  BY DEF ImpactInv, BallInv, AnswerIsBall
<1>5. ASSUME NEW S \in SUBSET Nodes, call.root \in S, DependentsIn(S, ask.only)
      PROVE  visited \subseteq S
  <2>1. Closed(S)
    BY <1>5 DEF Closed, DependentsIn, Incident, OtherEnd
  <2> QED BY <1>5, <2>1 DEF ImpactInv, IInv, VisitedIsReachable, Known
<1> QED BY <1>2, <1>3, <1>4, <1>5

\* Lemma: beginning a walk establishes what holds of a walk.
LEMMA BeginInv ==
  ASSUME TypeOK, graph' = graph, NEW a \in AskType, Begin(a)
  PROVE  IInv' /\ BallInv' /\ ask' = a
<1>1. Fresh'
  BY DEF Begin, Fresh, TypeOK
<1> QED BY <1>1, FreshNext DEF Begin

\* Lemma: every step of a call keeps the invariant.
LEMMA ImpactStepInv == ImpactInv /\ [ImpactNext]_impactVars => ImpactInv'
<1> SUFFICES ASSUME ImpactInv, [ImpactNext]_impactVars PROVE ImpactInv'
  OBVIOUS
<1>1. TypeOK /\ CallInv /\ call \in AskType /\ facts \in FactsType
  BY DEF ImpactInv, IInv, CallInv
<1>2. graph' = graph /\ call' = call /\ facts' = facts
  BY DEF ImpactNext, Walking, Step, Expand, LookAt, Expanded, NextLevel, WideDone, ExactDone,
         DeeperDone, impactVars, vars
<1>3. /\ \A o, k : Dependents(o, k)' = Dependents(o, k)
      /\ \A S, o : DependentsIn(S, o)' <=> DependentsIn(S, o)
      /\ ExactAsk' = ExactAsk /\ DeeperAsk' = DeeperAsk
  BY <1>2, DependentsFrame
<1>4. CASE Walking \/ UNCHANGED impactVars
  <2>1. /\ phase' = phase /\ wide' = wide /\ exact' = exact /\ deeper' = deeper
        /\ ask' = ask /\ [Step]_vars
    BY <1>4 DEF Walking, Step, Expand, LookAt, Expanded, NextLevel, impactVars, vars
  <2>2. IInv' /\ BallInv'
    BY <2>1, StepBall DEF ImpactInv
  <2>3. CallInv' /\ WideInv' /\ ExactInv' /\ DeeperInv'
    BY <1>2, <1>3, <2>1 DEF ImpactInv, CallInv, WideInv, ExactInv, DeeperInv
  <2> QED BY <2>2, <2>3 DEF ImpactInv
<1>5. CASE WideDone
  <2>1. /\ phase = "wide" /\ phase' = "exact" /\ pc = "done" /\ wide' = Result
        /\ Begin(ExactAsk)
    BY <1>5 DEF WideDone
  <2>2. IInv' /\ BallInv' /\ ask' = ExactAsk
    BY <1>1, <1>2, <2>1, AskTypes, BeginInv
  <2>3. CallInv'
    BY <1>1, <1>2, <1>3, <2>1, <2>2 DEF CallInv
  <2>4. WideInv'
    <3>1. ask = call /\ call.heading = "incoming"
      BY <1>1, <2>1 DEF CallInv
    <3> QED BY <1>2, <1>3, <2>1, <3>1, DoneIs DEF WideInv
  <2>5. ExactInv' /\ DeeperInv'
    BY <2>1 DEF ExactInv, DeeperInv
  <2> QED BY <2>2, <2>3, <2>4, <2>5 DEF ImpactInv
<1>6. CASE ExactDone
  <2>1. /\ phase = "exact" /\ phase' \in {"deeper", "answered"} /\ pc = "done" /\ exact' = Result
        /\ wide' = wide /\ deeper' = deeper
    BY <1>6 DEF ExactDone
  <2>2. ask = ExactAsk /\ call.heading = "incoming"
    BY <1>1, <2>1 DEF CallInv
  <2>3. WideInv'
    BY <1>2, <1>3, <2>1 DEF ImpactInv, WideInv
  <2>4. ExactInv'
    <3>1. /\ ask.heading = "incoming" /\ ask.root = call.root /\ ask.depth = call.depth
          /\ ask.only = call.only \cap facts.static
      BY <1>1, <2>2, AskTypes
    <3> QED BY <1>2, <1>3, <2>1, <3>1, DoneIs DEF ExactInv
  <2>5. CASE phase' = "answered"
    <3>1. call.depth >= MaxDepth /\ ask' = ask /\ UNCHANGED vars
      BY <1>2, <1>6, <2>5 DEF ExactDone, vars
    <3>2. IInv' /\ BallInv'
      BY <3>1, StepBall DEF ImpactInv
    <3>3. CallInv'
      BY <1>1, <1>2, <1>3, <2>5, <2>1 DEF CallInv
    <3>4. DeeperInv'
      <4>1. ~(call.depth < MaxDepth)
        BY <1>1, <3>1, ImpactAssumption DEF AskType
      <4> QED BY <1>2, <4>1 DEF DeeperInv
    <3> QED BY <2>3, <2>4, <3>2, <3>3, <3>4 DEF ImpactInv
  <2>6. CASE phase' = "deeper"
    <3>1. Begin(DeeperAsk)
      BY <1>6, <2>6 DEF ExactDone, DeeperAsk
    <3>2. IInv' /\ BallInv' /\ ask' = DeeperAsk
      BY <1>1, <1>2, <3>1, AskTypes, BeginInv
    <3>3. CallInv'
      BY <1>1, <1>2, <1>3, <2>1, <2>6, <3>2 DEF CallInv
    <3>4. DeeperInv'
      BY <2>6 DEF DeeperInv
    <3> QED BY <2>3, <2>4, <3>2, <3>3, <3>4 DEF ImpactInv
  <2> QED BY <2>1, <2>5, <2>6
<1>7. CASE DeeperDone
  <2>1. /\ phase = "deeper" /\ phase' = "answered" /\ pc = "done" /\ deeper' = Result
        /\ wide' = wide /\ exact' = exact /\ UNCHANGED vars
    BY <1>7 DEF DeeperDone
  <2>2. IInv' /\ BallInv'
    BY <2>1, StepBall DEF ImpactInv
  <2>3. CallInv' /\ WideInv' /\ ExactInv'
    BY <1>1, <1>2, <1>3, <2>1 DEF ImpactInv, CallInv, WideInv, ExactInv
  <2>4. DeeperInv'
    <3>1. /\ ask.heading = "incoming" /\ ask.root = call.root /\ ask.depth = call.depth + 1
          /\ ask.only = call.only
      BY <1>1, <2>1, AskTypes DEF CallInv
    <3> QED BY <1>2, <1>3, <2>1, <3>1, DoneIs DEF DeeperInv
  <2> QED BY <2>2, <2>3, <2>4 DEF ImpactInv
<1> QED BY <1>4, <1>5, <1>6, <1>7 DEF ImpactNext

----------------------------------------------------------------------------
(* What the answers claim. *)

\* Lemma: the reference at the call's own depths.
LEMMA DependentsIs ==
  ASSUME ImpactInv, NEW o \in SUBSET call.only
  PROVE  /\ call.depth \in Nat /\ call.root \in Nodes
         /\ \A k \in Nat : /\ Dependents(o, k) \in SUBSET Nodes
                           /\ Dependents(o, k + 1) = Up(graph, o)[Dependents(o, k)]
                           /\ Dependents(o, k) \subseteq Dependents(call.only, k)
         /\ \A k, m \in Nat : k <= m => Dependents(o, k) \subseteq Dependents(o, m)
         /\ Dependents(o, 0) = {call.root}
<1>1. graph \in GraphType /\ call.root \in Nodes /\ call.only \in SUBSET Edges /\ call.depth \in Nat
  BY DEF ImpactInv, IInv, TypeOK, CallInv, AskType
<1>2. o \in SUBSET Edges
  BY <1>1
<1>3. /\ Reach(graph, o, call.root) \in [Nat -> SUBSET Nodes]
      /\ Reach(graph, o, call.root)[0] = {call.root}
      /\ \A k \in Nat : Reach(graph, o, call.root)[k + 1]
                          = Up(graph, o)[Reach(graph, o, call.root)[k]]
      /\ \A k, m \in Nat : k <= m =>
            Reach(graph, o, call.root)[k] \subseteq Reach(graph, o, call.root)[m]
  BY <1>1, <1>2, ReachIs
<1>4. \A k \in Nat : Reach(graph, o, call.root)[k] \subseteq Reach(graph, call.only, call.root)[k]
  BY <1>1, ReachOnly
<1> QED BY <1>1, <1>3, <1>4 DEF Dependents

\* Lemma: two walks of which the one that went a hop further found no more nodes, and neither
\* of which was cut, have ended.
LEMMA ProbedHolds == ImpactInv => ProbedIsWhole
<1> SUFFICES ASSUME ImpactInv, phase = "answered", Exhaustive, ~deeper.truncated
             PROVE  DependentsIn(wide.nodes, call.only)
  BY DEF ProbedIsWhole
<1> DEFINE W == Dependents(call.only, call.depth)
           D == Dependents(call.only, call.depth + 1)
<1>1. call.depth \in Nat /\ MaxDepth \in Nat /\ W \in SUBSET Nodes /\ D \in SUBSET Nodes
      /\ D = Up(graph, call.only)[W] /\ W \subseteq D
  <2>1. call.depth \in Nat /\ MaxDepth \in Nat
    BY DependentsIs, ImpactAssumption
  <2>2. call.depth + 1 \in Nat /\ call.depth <= call.depth + 1
    BY <2>1
  <2> QED BY <2>1, <2>2, DependentsIs
<1>2. call.depth < MaxDepth /\ ~(Cardinality(deeper.nodes) > Cardinality(wide.nodes))
      /\ ~wide.truncated
  BY <1>1 DEF Exhaustive, DepthLimited
<1>3. wide.nodes = W /\ deeper.nodes = D
  BY <1>2 DEF ImpactInv, WideInv, DeeperInv
<1>4. W = D
  <2>1. IsFiniteSet(D)
    BY <1>1, WalkAssumption, FS_Subset DEF WalkParameters
  <2>2. Cardinality(W) <= Cardinality(D) /\ (Cardinality(W) = Cardinality(D) => W = D)
        /\ Cardinality(W) \in Nat /\ Cardinality(D) \in Nat
    <3> HIDE DEF W, D
    <3> QED BY <1>1, <2>1, FS_Subset, FS_CardinalityType
  <2> HIDE DEF W, D
  <2> QED BY <1>2, <1>3, <2>2
<1>5. ASSUME NEW e \in call.only, graph.tgt[e] \in W PROVE graph.src[e] \in W
  <2>1. graph.src[e] \in Up(graph, call.only)[W]
    <3> HIDE DEF W
    <3> QED BY <1>1, <1>5 DEF Up
  <2> HIDE DEF W, D
  <2> QED BY <1>1, <1>4, <2>1
<1> HIDE DEF W, D
<1> QED BY <1>3, <1>5 DEF DependentsIn

\* Lemma: the walk over static edges stays within the other one, if that was not cut.
LEMMA ProvenHolds == ImpactInv => ProvenIsBacked
<1> SUFFICES ASSUME ImpactInv, phase = "answered" PROVE ProvenIsBacked
  BY DEF ProvenIsBacked
<1>1. call.depth \in Nat /\ Dependents(call.only \cap facts.static, call.depth)
                              \subseteq Dependents(call.only, call.depth)
  BY DependentsIs
<1> QED BY <1>1 DEF ProvenIsBacked, ImpactInv, WideInv, ExactInv, Proven, Closure

\* Lemma: a closure of at least one hop that was not cut has every caller of the target.
LEMMA EmptyHolds == ImpactInv => EmptyIsAbsence
<1> SUFFICES ASSUME ImpactInv, phase \notin {"plain", "wide"}, CallersComplete, Closure = {},
                    call.depth > 0, NEW e \in call.only, graph.tgt[e] = call.root
             PROVE  graph.src[e] = call.root
  BY DEF EmptyIsAbsence
<1> DEFINE B(k) == Dependents(call.only, k)
<1>1. /\ call.depth \in Nat /\ 1 <= call.depth
      /\ B(0) = {call.root} /\ B(0) \in SUBSET Nodes /\ B(0 + 1) = Up(graph, call.only)[B(0)]
      /\ B(1) \subseteq B(call.depth)
  <2>1. call.depth \in Nat /\ 1 <= call.depth /\ 0 + 1 = 1 /\ 0 \in Nat /\ 1 \in Nat
    BY DependentsIs
  <2>2. /\ B(0) = {call.root} /\ B(0) \in SUBSET Nodes /\ B(0 + 1) = Up(graph, call.only)[B(0)]
        /\ B(1) \subseteq B(call.depth)
    BY <2>1, DependentsIs
  <2> QED BY <2>1, <2>2
<1>2. wide.nodes = B(call.depth)
  BY DEF ImpactInv, WideInv, CallersComplete, CallInv
<1>3. graph.src[e] \in B(1)
  <2>1. graph.src[e] \in Up(graph, call.only)[{call.root}]
    BY <1>1 DEF Up
  <2> QED BY <1>1, <2>1
<1> QED BY <1>1, <1>2, <1>3 DEF Closure

----------------------------------------------------------------------------
\* The invariant of the walks holds throughout a call, on every scope.
THEOREM ImpactInvariance == ImpactSpec => []ImpactInv
BY ImpactInitInv, ImpactStepInv, PTL DEF ImpactSpec

\* Every walk of a call keeps its budgets and is honest about what it misses.
THEOREM WalksAreHonest == ImpactSpec => []WalkIsHonest
<1>1. ImpactInv => WalkIsHonest
  BY DEF ImpactInv, IInv, WalkIsHonest, FrontierFull, FrontierIsReal
<1> QED BY <1>1, ImpactInvariance, PTL

\* bounded_walk against the reference definition: an answer that nothing cut is exactly the
\* nodes within the depth asked for, for every scope, every direction and every filter.
THEOREM AnswersAreBalls == ImpactSpec => []AnswerIsBall
<1>1. ImpactInv => AnswerIsBall
  BY DEF ImpactInv, BallInv
<1> QED BY <1>1, ImpactInvariance, PTL

\* What impact and callers claim of their answers is true on every scope: an exhaustive
\* closure whose probe was not cut has every dependent, proven nodes rest on static edges, and
\* a complete empty answer means that nothing calls the target.
THEOREM ClaimsHold == ImpactSpec => []ClaimsAreTrue
<1>1. ImpactInv => ClaimsAreTrue
  BY ProbedHolds, ProvenHolds, EmptyHolds DEF ClaimsAreTrue
<1> QED BY <1>1, ImpactInvariance, PTL

----------------------------------------------------------------------------
(* QueryAnswer. *)

\* What MCAnswer assumes of the constants of QueryAnswer.
AnswerHypotheses == Q!AnswerParameters /\ Q!BudgetParameters

LEMMA HypothesesHold == AnswerHypotheses
BY AnswerAssumption, BudgetAssumption DEF AnswerHypotheses

\* The walks are at rest.
LEMMA AnswerIsQuery == [AnswerNext]_answerVars => [Q!QueryNext]_(Q!queryVars)
BY DEF AnswerNext, answerVars

----------------------------------------------------------------------------
(* Packing: what a list of numbers adds up to. *)

\* f starts with r and goes on by H, which sees the number too, up to n.
Goes(f, r, H, n) == f[0] = r /\ \A k \in 1..n : f[k] = H[<<k, f[k - 1]>>]

\* There is such a function.
LEMMA GoesOn ==
    ASSUME NEW V, NEW r \in V, NEW H, NEW n \in Nat,
           \A k \in 1..n : \A v \in V : H[<<k, v>>] \in V
    PROVE  \E f \in [0..n -> V] : Goes(f, r, H, n)
<1> DEFINE Part(m) == \E f \in [0..m -> V] : Goes(f, r, H, m)
           Goal == {m \in Nat : m <= n => Part(m)}
<1>1. Part(0)
  <2>1. [k \in 0..0 |-> r] \in [0..0 -> V] /\ Goes([k \in 0..0 |-> r], r, H, 0)
    BY DEF Goes
  <2> QED BY <2>1
<1>2. ASSUME NEW m \in Nat, m + 1 <= n, Part(m) PROVE Part(m + 1)
  <2>1. PICK f \in [0..m -> V] : Goes(f, r, H, m)
    BY <1>2
  <2>2. H[<<m + 1, f[m]>>] \in V
    BY <1>2
  <2> DEFINE last == H[<<m + 1, f[m]>>]
             g == [k \in 0..(m + 1) |-> IF k = m + 1 THEN last ELSE f[k]]
  <2>3. g \in [0..(m + 1) -> V]
    BY <2>2
  <2>4. Goes(g, r, H, m + 1)
    <3>1. g[0] = r
      BY <2>1 DEF Goes
    <3>2. ASSUME NEW k \in 1..(m + 1) PROVE g[k] = H[<<k, g[k - 1]>>]
      <4>1. CASE k = m + 1
        BY <4>1
      <4>2. CASE k \in 1..m
        <5>1. f[k] = H[<<k, f[k - 1]>>]
          BY <2>1, <4>2 DEF Goes
        <5>2. k # m + 1 /\ k - 1 # m + 1 /\ k - 1 \in 0..(m + 1) /\ k \in 0..(m + 1)
          BY <4>2
        <5> HIDE DEF last
        <5>3. g[k] = f[k] /\ g[k - 1] = f[k - 1]
          BY <5>2
        <5> QED BY <5>1, <5>3
      <4> QED BY <4>1, <4>2
    <3> HIDE DEF g
    <3> QED BY <3>1, <3>2 DEF Goes
  <2> QED BY <2>3, <2>4
<1>3. \A m \in Nat : m \in Goal
  <2>1. 0 \in Goal /\ \A m \in Nat : m \in Goal => m + 1 \in Goal
    <3> HIDE DEF Part
    <3> QED BY <1>1, <1>2
  <2> HIDE DEF Goal
  <2> QED BY <2>1, Counting
<1> HIDE DEF Part
<1>4. Part(n)
  BY <1>3
<1> QED BY <1>4 DEF Part

\* The function under Total.
Adds(f, s) == f = [i \in 0..Len(s) |-> IF i = 0 THEN 0 ELSE f[i - 1] + s[i]]

LEMMA TotalIs ==
    ASSUME NEW s \in Seq(Nat)
    PROVE  \E f \in [0..Len(s) -> Nat] :
              /\ Q!Total(s) = f[Len(s)] /\ f[0] = 0
              /\ \A k \in 1..Len(s) : f[k] = f[k - 1] + s[k]
<1> DEFINE n == Len(s)
           H == [p \in (1..n) \X Nat |-> p[2] + s[p[1]]]
<1>1. n \in Nat /\ 0 \in Nat /\ \A k \in 1..n : s[k] \in Nat
  OBVIOUS
<1>2. \A k \in 1..n : \A v \in Nat : H[<<k, v>>] = v + s[k]
  OBVIOUS
<1> HIDE DEF H
<1>3. \A k \in 1..n : \A v \in Nat : H[<<k, v>>] \in Nat
  <2> SUFFICES ASSUME NEW k \in 1..n, NEW v \in Nat PROVE H[<<k, v>>] \in Nat
    OBVIOUS
  <2>1. H[<<k, v>>] = v + s[k] /\ s[k] \in Nat
    BY <1>1, <1>2
  <2> QED BY <2>1
<1>4. PICK f \in [0..n -> Nat] : Goes(f, 0, H, n)
  <2> HIDE DEF H, n
  <2> QED BY <1>1, <1>3, GoesOn
<1>5. f[0] = 0 /\ \A k \in 1..n : f[k] = f[k - 1] + s[k]
  <2> SUFFICES ASSUME NEW k \in 1..n PROVE f[k] = f[k - 1] + s[k]
    BY <1>4 DEF Goes
  <2> HIDE DEF H
  <2>1. f[k - 1] \in Nat /\ f[k] = H[<<k, f[k - 1]>>]
    <3>1. k - 1 \in 0..n
      BY <1>1
    <3> HIDE DEF n
    <3>2. f[k - 1] \in Nat
      BY <1>4, <3>1
    <3> QED BY <1>4, <3>2, Zenon DEF Goes
  <2> QED BY <1>2, <2>1
<1>6. Adds(f, s)
  <2>1. f = [k \in 0..n |-> f[k]]
    BY <1>4
  <2>2. \A k \in 0..n : f[k] = IF k = 0 THEN 0 ELSE f[k - 1] + s[k]
    BY <1>5
  <2> QED BY <2>1, <2>2 DEF Adds
<1> DEFINE g == CHOOSE h : Adds(h, s)
<1>7. Adds(g, s)
  BY <1>6
<1>8. Q!Total(s) = g[Len(s)]
  BY Zenon DEF Q!Total, Adds
<1> HIDE DEF g
<1>9. g = f
  <2>1. \A k \in 0..n : g[k] = IF k = 0 THEN 0 ELSE g[k - 1] + s[k]
    BY <1>7, Zenon DEF Adds
  <2> DEFINE Goal == {k \in Nat : k <= n => g[k] = f[k]}
  <2>2. 0 \in Goal
    BY <1>1, <1>5, <2>1
  <2>3. ASSUME NEW k \in Nat, k \in Goal PROVE k + 1 \in Goal
    <3> SUFFICES ASSUME k + 1 <= n PROVE g[k + 1] = f[k + 1]
      OBVIOUS
    <3>1. k + 1 \in 0..n /\ k + 1 \in 1..n /\ k + 1 # 0 /\ (k + 1) - 1 = k /\ g[k] = f[k]
      BY <1>1, <2>3
    <3> QED BY <1>5, <2>1, <3>1
  <2>4. \A k \in Nat : k \in Goal
    <3> HIDE DEF Goal
    <3> QED BY <2>2, <2>3, Counting
  <2>5. \A k \in 0..n : g[k] = f[k]
    BY <1>1, <2>4
  <2>6. g = [k \in 0..n |-> g[k]]
    BY <1>7, Zenon DEF Adds
  <2>7. f = [k \in 0..n |-> f[k]]
    BY <1>4
  <2> QED BY <2>5, <2>6, <2>7
<1> QED BY <1>4, <1>5, <1>8, <1>9

\* A list that is no longer, and nowhere larger, adds up to no more.
LEMMA TotalGrows ==
    ASSUME NEW s \in Seq(Nat), NEW t \in Seq(Nat), Len(s) <= Len(t),
           \A i \in 1..Len(s) : s[i] <= t[i]
    PROVE  Q!Total(s) \in Nat /\ Q!Total(t) \in Nat /\ Q!Total(s) <= Q!Total(t)
<1> DEFINE m == Len(s)
           n == Len(t)
<1>1. PICK f \in [0..m -> Nat] : /\ Q!Total(s) = f[m] /\ f[0] = 0
                                 /\ \A k \in 1..m : f[k] = f[k - 1] + s[k]
  BY TotalIs
<1>2. PICK g \in [0..n -> Nat] : /\ Q!Total(t) = g[n] /\ g[0] = 0
                                 /\ \A k \in 1..n : g[k] = g[k - 1] + t[k]
  BY TotalIs
<1>3. /\ m \in Nat /\ n \in Nat /\ m <= n
      /\ \A i \in 1..m : s[i] \in Nat /\ s[i] <= t[i]
      /\ \A i \in 1..n : t[i] \in Nat
  OBVIOUS
<1> HIDE DEF m, n
<1> DEFINE Goal == {k \in Nat : k <= n => IF k <= m THEN f[k] <= g[k] ELSE f[m] <= g[k]}
<1>4. 0 \in Goal
  BY <1>1, <1>2, <1>3
<1>5. ASSUME NEW k \in Nat, k \in Goal PROVE k + 1 \in Goal
  <2> SUFFICES ASSUME k + 1 <= n
               PROVE  IF k + 1 <= m THEN f[k + 1] <= g[k + 1] ELSE f[m] <= g[k + 1]
    OBVIOUS
  <2>1. k <= n /\ k + 1 \in 1..n /\ (k + 1) - 1 = k /\ k \in 0..n
    BY <1>3
  <2>2. g[k + 1] = g[k] + t[k + 1] /\ g[k] \in Nat /\ t[k + 1] \in Nat
    BY <1>2, <1>3, <2>1
  <2>3. CASE k + 1 <= m
    <3>1. k <= m /\ k + 1 \in 1..m /\ k \in 0..m
      BY <1>3, <2>3
    <3>2. f[k + 1] = f[k] + s[k + 1] /\ f[k] \in Nat /\ s[k + 1] \in Nat /\ s[k + 1] <= t[k + 1]
      BY <1>1, <1>3, <2>1, <3>1
    <3>3. f[k] <= g[k]
      BY <1>5, <2>1, <3>1
    <3>4. f[k + 1] <= g[k + 1]
      BY <2>2, <3>2, <3>3
    <3> QED BY <2>3, <3>4
  <2>4. CASE ~(k + 1 <= m)
    <3>1. f[m] \in Nat /\ f[m] <= g[k]
      <4>1. CASE k = m
        BY <1>1, <1>3, <1>5, <2>1, <4>1
      <4>2. CASE k # m
        BY <1>1, <1>3, <1>5, <2>1, <2>4, <4>2
      <4> QED BY <4>1, <4>2
    <3>2. f[m] <= g[k + 1]
      BY <2>2, <3>1
    <3> QED BY <2>4, <3>2
  <2> QED BY <2>3, <2>4
<1>6. \A k \in Nat : k \in Goal
  <2> HIDE DEF Goal
  <2> QED BY <1>4, <1>5, Counting
<1>7. f[m] <= g[n]
  <2>1. IF n <= m THEN f[n] <= g[n] ELSE f[m] <= g[n]
    BY <1>3, <1>6
  <2>2. n <= m => n = m
    BY <1>3
  <2> QED BY <2>1, <2>2
<1>8. f[m] \in Nat /\ g[n] \in Nat
  BY <1>3
<1> QED BY <1>1, <1>2, <1>7, <1>8

----------------------------------------------------------------------------
(* Packing: sizes of documents. *)

LEMMA ItemsGrow ==
    ASSUME NEW s \in Seq(Nat), NEW t \in Seq(Nat), Len(s) <= Len(t),
           \A i \in 1..Len(s) : s[i] <= t[i]
    PROVE  /\ Q!EncodedItems(s) \in Nat /\ Q!EncodedItems(t) \in Nat
           /\ Q!EncodedItems(s) <= Q!EncodedItems(t)
<1>1. Q!Total(s) \in Nat /\ Q!Total(t) \in Nat /\ Q!Total(s) <= Q!Total(t)
  BY TotalGrows
<1>2. Len(s) \in Nat /\ Len(t) \in Nat /\ (s = <<>> <=> Len(s) = 0) /\ (t = <<>> <=> Len(t) = 0)
  OBVIOUS
<1>3. Q!EncodedItems(s) = Q!Total(s) + (IF Len(s) = 0 THEN 0 ELSE Len(s) - 1)
  BY <1>2 DEF Q!EncodedItems
<1>4. Q!EncodedItems(t) = Q!Total(t) + (IF Len(t) = 0 THEN 0 ELSE Len(t) - 1)
  BY <1>2 DEF Q!EncodedItems
<1> QED BY <1>1, <1>2, <1>3, <1>4

\* The collections in the order in which they are cut.
LEMMA Turns ==
    /\ Len(Q!Trimmable) = 5 /\ \A i \in 1..5 : Q!Trimmable[i] \in Q!Collections
    /\ \A i, j \in 1..5 : Q!Trimmable[i] = Q!Trimmable[j] => i = j
    /\ \A k \in Q!Collections : \E i \in 1..5 : Q!Trimmable[i] = k
    /\ Q!Trimmable[5] = "warnings"
BY DEF Q!Trimmable, Q!Collections

\* d is what is left of e when items are taken off the tails of its collections, the flag set
\* or not.
Inside(d, e) ==
    /\ d.meta = e.meta /\ (d.truncated = e.truncated \/ d.truncated)
    /\ \A k \in Q!Collections :
        /\ Len(d.items[k]) <= Len(e.items[k])
        /\ d.items[k] = SubSeq(e.items[k], 1, Len(d.items[k]))

LEMMA DocumentType ==
    ASSUME NEW d \in Q!Document
    PROVE  /\ d.meta \in Nat /\ d.truncated \in BOOLEAN
           /\ d.items \in [Q!Collections -> Seq(Nat)]
           /\ d = [items |-> d.items, truncated |-> d.truncated, meta |-> d.meta]
           /\ \A k \in Q!Collections : d.items[k] \in Seq(Nat) /\ Len(d.items[k]) \in Nat
BY DEF Q!Document

\* It is no larger.
LEMMA SizeGrows ==
    ASSUME NEW d \in Q!Document, NEW e \in Q!Document, Inside(d, e)
    PROVE  /\ Q!EncodedSize(d) \in Nat /\ Q!EncodedSize(e) \in Nat
           /\ Q!EncodedSize(d) <= Q!EncodedSize(e)
<1> DEFINE a == [i \in 1..Len(Q!Trimmable) |-> Q!EncodedItems(d.items[Q!Trimmable[i]])]
           b == [i \in 1..Len(Q!Trimmable) |-> Q!EncodedItems(e.items[Q!Trimmable[i]])]
<1>1. ASSUME NEW k \in Q!Collections
      PROVE  /\ Q!EncodedItems(d.items[k]) \in Nat /\ Q!EncodedItems(e.items[k]) \in Nat
             /\ Q!EncodedItems(d.items[k]) <= Q!EncodedItems(e.items[k])
  <2>1. PICK s \in Seq(Nat) : s = d.items[k]
    BY DocumentType
  <2>2. PICK t \in Seq(Nat) : t = e.items[k]
    BY DocumentType
  <2>3. Len(s) <= Len(t) /\ s = SubSeq(t, 1, Len(s))
    BY <2>1, <2>2 DEF Inside
  <2>4. \A i \in 1..Len(s) : s[i] <= t[i]
    <3>1. \A i \in 1..Len(s) : SubSeq(t, 1, Len(s))[i] = t[i] /\ t[i] \in Nat
      BY <2>3
    <3> QED BY <2>3, <3>1
  <2> QED BY <2>1, <2>2, <2>3, <2>4, ItemsGrow
<1>2. \A i \in 1..5 : /\ a[i] = Q!EncodedItems(d.items[Q!Trimmable[i]])
                      /\ b[i] = Q!EncodedItems(e.items[Q!Trimmable[i]])
  BY Turns
<1>3. a \in Seq(Nat) /\ b \in Seq(Nat) /\ Len(a) = 5 /\ Len(b) = 5
  BY <1>1, Turns
<1> HIDE DEF a, b
<1>4. Len(a) <= Len(b) /\ \A i \in 1..Len(a) : a[i] <= b[i]
  BY <1>1, <1>2, <1>3, Turns
<1>5. Q!Total(a) \in Nat /\ Q!Total(b) \in Nat /\ Q!Total(a) <= Q!Total(b)
  BY <1>3, <1>4, TotalGrows
<1>6. Q!EncodedSize(d) = d.meta + Q!EncodedFlag(d.truncated) + Q!Total(a)
      /\ Q!EncodedSize(e) = e.meta + Q!EncodedFlag(e.truncated) + Q!Total(b)
  BY Zenon DEF Q!EncodedSize, a, b
<1>7. d.meta \in Nat /\ d.meta = e.meta
      /\ Q!EncodedFlag(d.truncated) \in Nat /\ Q!EncodedFlag(e.truncated) \in Nat
      /\ Q!EncodedFlag(d.truncated) <= Q!EncodedFlag(e.truncated)
  BY DocumentType DEF Inside, Q!EncodedFlag
<1> QED BY <1>5, <1>6, <1>7

LEMMA FitsInside ==
    ASSUME NEW d \in Q!Document, NEW e \in Q!Document, Inside(d, e), cap \in Nat, Q!Fits(e)
    PROVE  Q!Fits(d)
<1>1. Q!EncodedSize(d) \in Nat /\ Q!EncodedSize(e) \in Nat /\ Q!EncodedSize(d) <= Q!EncodedSize(e)
  BY SizeGrows
<1> QED BY <1>1 DEF Q!Fits

\* One collection cut to its first n items.
LEMMA CutIs ==
    ASSUME NEW d \in Q!Document, NEW k \in Q!Collections, NEW n \in 0..Len(d.items[k])
    PROVE  /\ Q!Cut(d, k, n) \in Q!Document
           /\ Q!Cut(d, k, n).meta = d.meta /\ Q!Cut(d, k, n).truncated = d.truncated
           /\ Q!Cut(d, k, n).items[k] = SubSeq(d.items[k], 1, n)
           /\ Len(Q!Cut(d, k, n).items[k]) = n
           /\ \A j \in Q!Collections : j # k => Q!Cut(d, k, n).items[j] = d.items[j]
           /\ n = Len(d.items[k]) => Q!Cut(d, k, n) = d
<1>1. d \in [items : [Q!Collections -> Seq(Nat)], truncated : BOOLEAN, meta : Nat]
  BY DEF Q!Document
<1> DEFINE s == SubSeq(d.items[k], 1, n)
<1>2. s \in Seq(Nat) /\ Len(s) = n /\ (n = Len(d.items[k]) => s = d.items[k])
  <2>1. PICK t \in Seq(Nat) : t = d.items[k]
    BY <1>1
  <2>2. n \in 0..Len(t)
    BY <2>1
  <2>3. /\ SubSeq(t, 1, n) \in Seq(Nat) /\ Len(SubSeq(t, 1, n)) = n
        /\ n = Len(t) => SubSeq(t, 1, n) = t
    BY <2>2
  <2> QED BY <2>1, <2>3
<1>3. Q!Cut(d, k, n) = [d EXCEPT !.items = [d.items EXCEPT ![k] = s]]
  BY <1>1 DEF Q!Cut
<1> HIDE DEF s
<1>4. Q!Cut(d, k, n) \in [items : [Q!Collections -> Seq(Nat)], truncated : BOOLEAN, meta : Nat]
  BY <1>1, <1>2, <1>3
<1>5. s = d.items[k] => Q!Cut(d, k, n) = d
  <2>1. s = d.items[k] => [d.items EXCEPT ![k] = s] = d.items
    BY <1>1
  <2> QED BY <1>1, <1>3, <2>1
<1>6. /\ Q!Cut(d, k, n).meta = d.meta /\ Q!Cut(d, k, n).truncated = d.truncated
      /\ Q!Cut(d, k, n).items[k] = s
      /\ \A j \in Q!Collections : j # k => Q!Cut(d, k, n).items[j] = d.items[j]
  BY <1>1, <1>3
<1> QED BY <1>2, <1>4, <1>5, <1>6 DEF s, Q!Document

----------------------------------------------------------------------------
(* Packing: the invariant. *)

Working == {"measure", "next", "search"}

PackType ==
    /\ document \in Q!Document /\ packed \in Q!Document /\ cap \in Nat
    /\ turn \in 1..6 /\ low \in Nat /\ high \in Nat
    /\ dropped \in [Q!Collections -> Nat]

\* Only tails were cut, their items are counted, and the collections to come are whole.
Accounted ==
    /\ Inside(packed, document) /\ packed.truncated = document.truncated
    /\ \A k \in Q!Collections : dropped[k] = Len(document.items[k]) - Len(packed.items[k])
    /\ \A i \in 1..5 :
        i >= turn => packed.items[Q!Trimmable[i]] = document.items[Q!Trimmable[i]]

InOrder ==
    \A i, j \in 1..5 :
        i < j /\ dropped[Q!Trimmable[j]] > 0 => packed.items[Q!Trimmable[i]] = <<>>

\* A cut that is still needed has nothing left before it.
Needed == Q!Fits(packed) \/ \A i \in 1..5 : i < turn => packed.items[Q!Trimmable[i]] = <<>>

\* What the binary search knows.
Bracketed ==
    /\ turn <= 5 /\ low <= high /\ high <= Len(Q!items)
    /\ low > 0 => Q!Fits(Q!Cut(packed, Q!key, low))
    /\ \A n \in (high + 1)..Len(Q!items) : ~Q!Fits(Q!Cut(packed, Q!key, n))

Longest ==
    turn > 1 =>
        \A n \in (Len(packed.items[Q!Trimmable[turn - 1]]) + 1)
                    ..Len(document.items[Q!Trimmable[turn - 1]]) :
            ~Q!Fits([packed EXCEPT
                        !.items[Q!Trimmable[turn - 1]] =
                            SubSeq(document.items[Q!Trimmable[turn - 1]], 1, n)])

PackInv ==
    /\ pc \in Working => PackType /\ Accounted /\ InOrder
    /\ pc = "measure" => turn = 1 /\ packed = document
    /\ pc \in {"next", "search"} => Needed
    /\ pc = "search" => Bracketed
    /\ pc = "next" => Longest
    /\ pc \in {"packed", "exceeded"} => Q!PackedIsBest

LEMMA PackInvShows ==
    ASSUME PackInv
    PROVE  Q!PackedIsBest
<1>1. CASE pc \in {"packed", "exceeded"}
  BY <1>1 DEF PackInv
<1>2. CASE pc \notin {"packed", "exceeded"}
  <2>1. Q!HardCap /\ Q!LossIsTold
    BY <1>2 DEF Q!HardCap, Q!LossIsTold
  <2>2. pc \in Q!Packing => InOrder
    BY <1>2 DEF PackInv, Working, Q!Packing
  <2>3. pc = "next" => Longest
    BY DEF PackInv
  <2>4. Q!LongestPrefix
    BY <2>2, <2>3, Turns DEF Q!LongestPrefix, InOrder, Longest
  <2> QED BY <2>1, <2>4 DEF Q!PackedIsBest
<1> QED BY <1>1, <1>2

LEMMA InsideItself ==
    ASSUME NEW d \in Q!Document
    PROVE  Inside(d, d)
<1>1. ASSUME NEW k \in Q!Collections PROVE d.items[k] = SubSeq(d.items[k], 1, Len(d.items[k]))
  <2>1. PICK s \in Seq(Nat) : s = d.items[k]
    BY DocumentType
  <2>2. s = SubSeq(s, 1, Len(s))
    OBVIOUS
  <2> QED BY <2>1, <2>2
<1> QED BY <1>1, DocumentType DEF Inside

\* A call that is to be packed starts as the invariant asks.
LEMMA PackStarts ==
    ASSUME NEW d \in Q!Document, NEW c \in Nat, Q!Start(d, c)
    PROVE  PackInv'
<1>1. /\ document' = d /\ cap' = c /\ packed' = d /\ pc' = "measure" /\ turn' = 1
      /\ low' = 0 /\ high' = 0 /\ dropped' = [k \in Q!Collections |-> 0]
  BY DEF Q!Start
<1>2. Inside(d, d) /\ \A k \in Q!Collections : Len(d.items[k]) \in Nat
  BY InsideItself, DocumentType
<1>3. PackType'
  BY <1>1 DEF PackType
<1>4. Accounted'
  <2>1. Inside(packed', document')
    BY <1>1, <1>2
  <2> QED BY <1>1, <1>2, <2>1 DEF Accounted, Inside
<1>5. InOrder'
  BY <1>1, Turns DEF InOrder
<1> QED BY <1>1, <1>3, <1>4, <1>5 DEF PackInv, Working

LEMMA Measured ==
    ASSUME PackInv, Q!Measure
    PROVE  PackInv'
<1>1. /\ pc = "measure" /\ pc' \in {"packed", "next"} /\ (pc' = "packed" => Q!Fits(packed))
      /\ (pc' = "next" => ~Q!Fits(packed))
  BY DEF Q!Measure
<1>2. /\ document' = document /\ cap' = cap /\ packed' = packed /\ turn' = turn /\ low' = low
      /\ high' = high /\ dropped' = dropped
  BY DEF Q!Measure
<1>3. PackType /\ Accounted /\ InOrder /\ turn = 1 /\ packed = document
  BY <1>1 DEF PackInv, Working
<1>4. PackType' /\ Accounted' /\ InOrder'
  BY <1>2, <1>3 DEF PackType, Accounted, InOrder, Inside
<1>5. pc' = "next" => Needed' /\ Longest'
  BY <1>2, <1>3 DEF Needed, Longest
<1>6. ASSUME pc' = "packed" PROVE Q!PackedIsBest'
  <2>1. Q!EncodedSize(packed') <= cap'
    BY <1>1, <1>2, <1>6 DEF Q!Fits
  <2>2. Q!HardCap'
    BY <1>6, <2>1 DEF Q!HardCap
  <2>3. Q!LongestPrefix'
    BY <1>4, <1>6, Turns DEF Q!LongestPrefix, InOrder
  <2>4. ASSUME NEW k \in Q!Collections PROVE dropped[k] = 0
    <3>1. dropped[k] = Len(document.items[k]) - Len(document.items[k])
          /\ Len(document.items[k]) \in Nat
      BY <1>3, DocumentType DEF Accounted, PackType
    <3> QED BY <3>1
  <2>5. Q!Trimmed' = {}
    BY <1>2, <2>4 DEF Q!Trimmed
  <2>6. Q!LossIsTold'
    <3>1. \A k \in Q!Collections :
            /\ dropped[k] = Len(document.items[k]) - Len(packed.items[k])
            /\ packed.items[k] = SubSeq(document.items[k], 1, Len(packed.items[k]))
      BY <1>3 DEF Accounted, Inside
    <3>2. document.truncated \in BOOLEAN
      BY <1>3, DocumentType DEF PackType
    <3> QED BY <1>2, <1>3, <2>5, <3>1, <3>2 DEF Q!LossIsTold
  <2> QED BY <2>2, <2>3, <2>6 DEF Q!PackedIsBest
<1> QED BY <1>1, <1>4, <1>5, <1>6 DEF PackInv, Working

LEMMA Skipped ==
    ASSUME PackInv, Q!Skip
    PROVE  PackInv'
<1>1. /\ pc = "next" /\ pc' = "next" /\ turn <= 5 /\ turn' = turn + 1 /\ Q!items = <<>>
      /\ document' = document /\ cap' = cap /\ packed' = packed /\ low' = low
      /\ high' = high /\ dropped' = dropped
  BY Turns DEF Q!Skip
<1>2. PackType /\ Accounted /\ InOrder /\ Needed
  BY <1>1 DEF PackInv, Working
<1>3. turn \in 1..5 /\ packed.items[Q!Trimmable[turn]] = <<>>
      /\ document.items[Q!Trimmable[turn]] = <<>>
  BY <1>1, <1>2 DEF PackType, Accounted, Q!items, Q!key
<1>4. PackType'
  BY <1>1, <1>2, <1>3 DEF PackType
<1>5. Accounted' /\ InOrder'
  <2>1. \A i \in 1..5 : i >= turn' => i >= turn
    BY <1>1, <1>3
  <2> QED BY <1>1, <1>2, <2>1 DEF Accounted, InOrder, Inside
<1>6. Needed'
  <2>1. Q!Fits(packed)' <=> Q!Fits(packed)
    BY <1>1 DEF Q!Fits
  <2>2. \A i \in 1..5 : i < turn' <=> i < turn \/ i = turn
    BY <1>1, <1>3
  <2> QED BY <1>1, <1>2, <1>3, <2>1, <2>2 DEF Needed
<1>7. Longest'
  <2>1. turn' - 1 = turn /\ document'.items[Q!Trimmable[turn]] = <<>>
        /\ packed'.items[Q!Trimmable[turn]] = <<>>
    BY <1>1, <1>3
  <2> QED BY <2>1 DEF Longest
<1> QED BY <1>1, <1>4, <1>5, <1>6, <1>7 DEF PackInv, Working

LEMMA Opened ==
    ASSUME PackInv, Q!Open
    PROVE  PackInv'
<1>1. /\ pc = "next" /\ pc' = "search" /\ turn <= 5 /\ turn' = turn
      /\ document' = document /\ cap' = cap /\ packed' = packed /\ low' = 0
      /\ high' = Len(Q!items) /\ dropped' = dropped
  BY Turns DEF Q!Open
<1>2. PackType /\ Accounted /\ InOrder /\ Needed
  BY <1>1 DEF PackInv, Working
<1>3. turn \in 1..5 /\ Q!key \in Q!Collections /\ Len(Q!items) \in Nat /\ Q!items' = Q!items
  <2>1. turn \in 1..5 /\ Q!key \in Q!Collections /\ Q!items' = Q!items
    BY <1>1, <1>2, Turns DEF PackType, Q!items, Q!key
  <2>2. Len(Q!items) \in Nat
    BY <1>2, <2>1, DocumentType DEF PackType, Q!items
  <2> QED BY <2>1, <2>2
<1>4. PackType' /\ Accounted' /\ InOrder' /\ Needed'
  BY <1>1, <1>2, <1>3 DEF PackType, Accounted, InOrder, Inside, Needed, Q!Fits
<1>5. Bracketed'
  BY <1>1, <1>3 DEF Bracketed
<1> QED BY <1>1, <1>4, <1>5 DEF PackInv, Working

\* Prefixes of one collection: a shorter one is inside a longer one.
LEMMA CutsNest ==
    ASSUME NEW d \in Q!Document, NEW k \in Q!Collections,
           NEW m \in 0..Len(d.items[k]), NEW n \in 0..Len(d.items[k]), m <= n
    PROVE  Inside(Q!Cut(d, k, m), Q!Cut(d, k, n))
<1> DEFINE a == Q!Cut(d, k, m)
           b == Q!Cut(d, k, n)
<1>1. /\ a \in Q!Document /\ a.meta = d.meta /\ a.truncated = d.truncated
      /\ a.items[k] = SubSeq(d.items[k], 1, m) /\ Len(a.items[k]) = m
      /\ \A j \in Q!Collections : j # k => a.items[j] = d.items[j]
  BY CutIs
<1>2. /\ b \in Q!Document /\ b.meta = d.meta /\ b.truncated = d.truncated
      /\ b.items[k] = SubSeq(d.items[k], 1, n) /\ Len(b.items[k]) = n
      /\ \A j \in Q!Collections : j # k => b.items[j] = d.items[j]
  BY CutIs
<1> HIDE DEF a, b
<1>3. SubSeq(d.items[k], 1, m) = SubSeq(SubSeq(d.items[k], 1, n), 1, m)
  <2>1. PICK s \in Seq(Nat) : s = d.items[k]
    BY DocumentType
  <2>2. m \in 0..Len(s) /\ n \in 0..Len(s)
    BY <2>1
  <2>3. SubSeq(s, 1, m) = SubSeq(SubSeq(s, 1, n), 1, m)
    BY <2>2
  <2> QED BY <2>1, <2>3
<1>4. ASSUME NEW j \in Q!Collections
      PROVE  /\ Len(a.items[j]) <= Len(b.items[j])
             /\ a.items[j] = SubSeq(b.items[j], 1, Len(a.items[j]))
  <2>1. CASE j = k
    BY <1>1, <1>2, <1>3, <2>1
  <2>2. CASE j # k
    <3>1. a.items[j] = b.items[j] /\ Inside(b, b)
      BY <1>1, <1>2, <2>2, InsideItself
    <3> QED BY <3>1 DEF Inside
  <2> QED BY <2>1, <2>2
<1> QED BY <1>1, <1>2, <1>4 DEF Inside, a, b

LEMMA Probed ==
    ASSUME PackInv, Q!Probe
    PROVE  PackInv'
<1>1. /\ pc = "search" /\ pc' = "search" /\ low < high
      /\ document' = document /\ cap' = cap /\ packed' = packed /\ turn' = turn
      /\ dropped' = dropped
      /\ \/ Q!Fits(Q!Candidate) /\ low' = Q!Middle /\ high' = high
         \/ ~Q!Fits(Q!Candidate) /\ high' = Q!Middle - 1 /\ low' = low
  BY DEF Q!Probe
<1>2. PackType /\ Accounted /\ InOrder /\ Needed /\ Bracketed
  BY <1>1 DEF PackInv, Working
<1>3. /\ turn \in 1..5 /\ Q!key \in Q!Collections /\ Q!items' = Q!items /\ Q!key' = Q!key
      /\ Q!items = packed.items[Q!key] /\ packed \in Q!Document /\ cap \in Nat
  BY <1>1, <1>2, Turns DEF PackType, Bracketed, Q!items, Q!key
<1>4. /\ Len(Q!items) \in Nat /\ low \in Nat /\ high \in Nat
      /\ low <= high /\ high <= Len(Q!items)
  BY <1>2, <1>3, DocumentType DEF PackType, Bracketed
<1>5. Q!Middle \in low + 1..high
  BY <1>1, <1>4 DEF Q!Middle
<1>6. PackType' /\ Accounted' /\ InOrder' /\ Needed'
  <2>1. low' \in Nat /\ high' \in Nat
    BY <1>1, <1>4, <1>5
  <2> QED BY <1>1, <1>2, <2>1 DEF PackType, Accounted, InOrder, Inside, Needed, Q!Fits
<1>7. low' <= high' /\ high' <= Len(Q!items) /\ high' \in Nat /\ low' \in Nat
  BY <1>1, <1>4, <1>5
<1>8. low' > 0 => Q!Fits(Q!Cut(packed, Q!key, low'))
  BY <1>1, <1>2 DEF Bracketed, Q!Candidate
<1>9. ASSUME NEW n \in (high' + 1)..Len(Q!items) PROVE ~Q!Fits(Q!Cut(packed, Q!key, n))
  <2>1. CASE n \in (high + 1)..Len(Q!items)
    BY <1>2, <2>1 DEF Bracketed
  <2>2. CASE n \notin (high + 1)..Len(Q!items)
    <3>1. ~Q!Fits(Q!Candidate) /\ high' = Q!Middle - 1
      BY <1>1, <1>7, <2>2
    <3>2. Q!Middle \in 0..Len(packed.items[Q!key]) /\ n \in 0..Len(packed.items[Q!key])
          /\ Q!Middle <= n
      BY <1>3, <1>4, <1>5, <3>1
    <3>3. Inside(Q!Candidate, Q!Cut(packed, Q!key, n)) /\ Q!Candidate \in Q!Document
          /\ Q!Cut(packed, Q!key, n) \in Q!Document
      BY <1>3, <3>2, CutsNest, CutIs DEF Q!Candidate
    <3> QED BY <1>3, <3>1, <3>3, FitsInside
  <2> QED BY <2>1, <2>2
<1>10. Bracketed'
  <2>1. turn' <= 5
    BY <1>1, <1>3
  <2> QED BY <1>1, <1>3, <1>7, <1>8, <1>9, <2>1 DEF Bracketed, Q!Fits
<1> QED BY <1>1, <1>6, <1>10 DEF PackInv, Working

LEMMA Settled ==
    ASSUME PackInv, Q!Settle
    PROVE  PackInv'
<1>1. /\ pc = "search" /\ pc' = "next" /\ low >= high
      /\ document' = document /\ cap' = cap /\ turn' = turn + 1 /\ low' = low /\ high' = high
      /\ packed' = Q!Cut(packed, Q!key, low)
      /\ dropped' = [dropped EXCEPT ![Q!key] = Len(Q!items) - low]
  BY DEF Q!Settle
<1>2. PackType /\ Accounted /\ InOrder /\ Needed /\ Bracketed
  BY <1>1 DEF PackInv, Working
<1>3. /\ turn \in 1..5 /\ Q!key \in Q!Collections /\ Q!key = Q!Trimmable[turn]
      /\ Q!items = packed.items[Q!key] /\ packed \in Q!Document /\ document \in Q!Document
      /\ cap \in Nat /\ dropped \in [Q!Collections -> Nat]
      /\ packed.items[Q!key] = document.items[Q!key]
  <2>1. turn \in 1..5
    BY <1>2 DEF PackType, Bracketed
  <2>2. packed.items[Q!Trimmable[turn]] = document.items[Q!Trimmable[turn]]
    BY <1>2, <2>1 DEF Accounted
  <2> QED BY <1>2, <2>1, <2>2, Turns DEF PackType, Q!items, Q!key
<1>4. PICK k \in Q!Collections : k = Q!key
  BY <1>3
<1>5. PICK n \in Nat : n = Len(packed.items[k])
  BY <1>3, <1>4, DocumentType
<1>6. low \in 0..n /\ high = low
  BY <1>1, <1>2, <1>3, <1>4, <1>5 DEF Bracketed, PackType
<1>7. PICK p \in Q!Document : p = Q!Cut(packed, k, low)
  BY <1>3, <1>5, <1>6, CutIs
<1>8. /\ p.meta = packed.meta /\ p.truncated = packed.truncated
      /\ p.items[k] = SubSeq(packed.items[k], 1, low) /\ Len(p.items[k]) = low
      /\ \A j \in Q!Collections : j # k => p.items[j] = packed.items[j]
      /\ low = n => p = packed
  BY <1>3, <1>5, <1>6, <1>7, CutIs
<1>9. Inside(p, packed)
  <2>1. n \in 0..Len(packed.items[k]) /\ low <= n /\ low \in 0..Len(packed.items[k])
    BY <1>5, <1>6
  <2>2. Q!Cut(packed, k, n) = packed
    BY <1>3, <1>5, <2>1, CutIs
  <2> QED BY <1>3, <1>7, <2>1, <2>2, CutsNest
<1>10. packed' = p /\ dropped' = [dropped EXCEPT ![k] = n - low] /\ k = Q!Trimmable[turn]
  BY <1>1, <1>3, <1>4, <1>5, <1>7
<1>11. \A i \in 1..5 : Q!Trimmable[i] \in Q!Collections /\ (Q!Trimmable[i] = k => i = turn)
  BY <1>3, <1>10, Turns
<1>12. PackType'
  BY <1>1, <1>2, <1>3, <1>6, <1>10 DEF PackType
<1>13. Accounted'
  <2>1. /\ p.meta = document.meta /\ p.truncated = document.truncated
        /\ \A j \in Q!Collections :
            /\ Len(packed.items[j]) <= Len(document.items[j])
            /\ packed.items[j] = SubSeq(document.items[j], 1, Len(packed.items[j]))
        /\ Len(document.items[k]) = n
    BY <1>2, <1>3, <1>4, <1>5, <1>8 DEF Accounted, Inside
  <2>2. Inside(p, document)
    <3>1. ASSUME NEW j \in Q!Collections
          PROVE  /\ Len(p.items[j]) <= Len(document.items[j])
                 /\ p.items[j] = SubSeq(document.items[j], 1, Len(p.items[j]))
      <4>1. CASE j = k
        <5>1. Len(p.items[k]) <= Len(document.items[k])
          BY <1>6, <1>8, <2>1
        <5> QED BY <1>3, <1>4, <1>8, <4>1, <5>1
      <4>2. CASE j # k
        BY <1>8, <2>1, <4>2
      <4> QED BY <4>1, <4>2
    <3> QED BY <2>1, <3>1 DEF Inside
  <2>3. ASSUME NEW j \in Q!Collections PROVE dropped'[j] = Len(document.items[j]) - Len(p.items[j])
    BY <1>2, <1>3, <1>8, <1>10, <2>1 DEF Accounted
  <2>4. ASSUME NEW i \in 1..5, i >= turn + 1
        PROVE  p.items[Q!Trimmable[i]] = document.items[Q!Trimmable[i]]
    <3>1. i # turn /\ i >= turn
      BY <1>3, <2>4
    <3>2. packed.items[Q!Trimmable[i]] = document.items[Q!Trimmable[i]]
      BY <1>2, <3>1 DEF Accounted
    <3> QED BY <1>8, <1>11, <3>1, <3>2
  <2> QED BY <1>1, <1>10, <2>1, <2>2, <2>3, <2>4 DEF Accounted
\* The search has cut something only when the whole does not fit.
<1>14. low < n => ~Q!Fits(packed)
  <2>1. ASSUME low < n PROVE ~Q!Fits(Q!Cut(packed, k, n))
    BY <1>2, <1>3, <1>4, <1>5, <1>6, <2>1 DEF Bracketed
  <2>2. Q!Cut(packed, k, n) = packed
    BY <1>3, <1>5, CutIs
  <2> QED BY <2>1, <2>2
<1>15. InOrder'
  <2> SUFFICES ASSUME NEW i \in 1..5, NEW j \in 1..5, i < j, dropped'[Q!Trimmable[j]] > 0
               PROVE  p.items[Q!Trimmable[i]] = <<>>
    BY <1>10 DEF InOrder
  <2>1. packed.items[Q!Trimmable[i]] = <<>>
    <3>1. CASE j = turn
      <4>1. low < n
        BY <1>3, <1>6, <1>10, <3>1
      <4> QED BY <1>2, <1>14, <3>1, <4>1 DEF Needed
    <3>2. CASE j # turn
      <4>1. dropped'[Q!Trimmable[j]] = dropped[Q!Trimmable[j]]
        BY <1>3, <1>10, <1>11, <3>2
      <4> QED BY <1>2, <4>1 DEF InOrder
    <3> QED BY <3>1, <3>2
  <2>2. CASE i = turn
    <3>1. n = 0
      BY <1>5, <1>10, <2>1, <2>2
    <3> QED BY <1>6, <1>8, <2>1, <3>1
  <2>3. CASE i # turn
    BY <1>8, <1>11, <2>1, <2>3
  <2> QED BY <2>2, <2>3
<1>16. Needed'
  <2>1. CASE Q!Fits(p)
    BY <1>1, <1>10, <2>1 DEF Needed, Q!Fits
  <2>2. CASE ~Q!Fits(p)
    <3>1. ~Q!Fits(packed)
      BY <1>3, <1>9, <2>2, FitsInside
    <3>2. low = 0
      BY <1>2, <1>3, <1>4, <1>6, <1>7, <2>2 DEF Bracketed
    <3>3. p.items[k] = <<>>
      <4>1. PICK s \in Seq(Nat) : s = p.items[k]
        BY DocumentType
      <4>2. Len(s) = 0
        BY <1>8, <3>2, <4>1
      <4> QED BY <4>1, <4>2
    <3>4. ASSUME NEW i \in 1..5, i < turn + 1 PROVE p.items[Q!Trimmable[i]] = <<>>
      <4>1. CASE i = turn
        BY <1>10, <3>3, <4>1
      <4>2. CASE i # turn
        <5>1. i < turn
          BY <1>3, <3>4, <4>2
        <5>2. packed.items[Q!Trimmable[i]] = <<>>
          BY <1>2, <3>1, <5>1 DEF Needed
        <5> QED BY <1>8, <1>11, <4>2, <5>2
      <4> QED BY <4>1, <4>2
    <3> QED BY <1>1, <1>10, <3>4 DEF Needed
  <2> QED BY <2>1, <2>2
<1>17. Longest'
  <2>1. turn' - 1 = turn /\ Len(document.items[k]) = n
    BY <1>1, <1>3, <1>4, <1>5
  <2>2. ASSUME NEW m \in (low + 1)..n
        PROVE  ~Q!Fits([p EXCEPT !.items[k] = SubSeq(document.items[k], 1, m)])
    <3>1. ~Q!Fits(Q!Cut(packed, k, m))
      BY <1>2, <1>3, <1>4, <1>5, <1>6 DEF Bracketed
    <3> DEFINE s == SubSeq(document.items[k], 1, m)
    <3>2. Q!Cut(packed, k, m) = [packed EXCEPT !.items[k] = s]
      BY <1>3, <1>4 DEF Q!Cut
    <3>3. p = [packed EXCEPT !.items[k] = SubSeq(packed.items[k], 1, low)]
      BY <1>7 DEF Q!Cut
    <3> HIDE DEF s
    <3>4. [p EXCEPT !.items[k] = s] = [packed EXCEPT !.items[k] = s]
      BY <1>3, <3>3 DEF Q!Document
    <3> QED BY <3>1, <3>2, <3>4 DEF s
  <2>3. \A m \in (low + 1)..n :
            ~(Q!EncodedSize([p EXCEPT !.items[k] = SubSeq(document.items[k], 1, m)]) <= cap)
    BY <2>2 DEF Q!Fits
  <2> QED BY <1>1, <1>8, <1>10, <2>1, <2>3, Zenon DEF Longest, Q!Fits
<1> QED BY <1>1, <1>12, <1>13, <1>15, <1>16, <1>17 DEF PackInv, Working

LEMMA Finished ==
    ASSUME PackInv, Q!Finish
    PROVE  PackInv'
<1>1. /\ pc = "next" /\ turn > 5
      /\ document' = document /\ cap' = cap /\ dropped' = dropped
      /\ \/ ~Q!Fits(packed) /\ pc' = "exceeded" /\ packed' = packed
         \/ Q!Fits(packed) /\ pc' = "packed" /\ packed' = Q!WithTexts
  BY Turns DEF Q!Finish
<1>2. PackType /\ Accounted /\ InOrder /\ Needed
  BY <1>1 DEF PackInv, Working
<1>3. turn = 6 /\ packed \in Q!Document /\ document \in Q!Document /\ cap \in Nat
  BY <1>1, <1>2 DEF PackType
<1>4. CASE pc' = "exceeded"
  <2>1. packed' = packed /\ ~Q!Fits(packed)
    BY <1>1, <1>4
  <2>2. \A k \in Q!Collections : packed.items[k] = <<>>
    BY <1>2, <1>3, <2>1, Turns DEF Needed
  <2>3. packed = [document EXCEPT !.items = [k \in Q!Collections |-> <<>>]]
    <3>1. packed.items = [k \in Q!Collections |-> <<>>]
      BY <1>3, <2>2, DocumentType
    <3>2. packed.meta = document.meta /\ packed.truncated = document.truncated
      BY <1>2 DEF Accounted, Inside
    <3> QED BY <1>3, <3>1, <3>2 DEF Q!Document
  <2>4. Q!HardCap'
    <3>1. ~Q!Fits([document EXCEPT !.items = [k \in Q!Collections |-> <<>>]])
      BY <2>1, <2>3
    <3> QED BY <1>1, <1>4, <3>1 DEF Q!HardCap, Q!Fits
  <2>5. Q!LongestPrefix' /\ Q!LossIsTold'
    BY <1>1, <1>2, <1>4, <2>1, Turns DEF Q!LongestPrefix, Q!LossIsTold, InOrder
  <2> QED BY <1>4, <2>4, <2>5 DEF PackInv, Working, Q!PackedIsBest
<1>5. CASE pc' = "packed"
  <2>1. packed' = Q!WithTexts /\ Q!Fits(packed)
    BY <1>1, <1>5
  <2>2. PICK f \in Q!Document : f = Q!Flagged
    BY <1>3 DEF Q!Flagged, Q!Document
  <2>3. /\ f.meta = packed.meta /\ f.items = packed.items
        /\ f.truncated <=> packed.truncated \/ Q!Trimmed # {}
    BY <1>3, <2>2 DEF Q!Flagged, Q!Document
  <2>4. Q!Fits(f)
    <3>1. Inside(packed, packed) /\ packed.truncated \in BOOLEAN /\ f.truncated \in BOOLEAN
      BY <1>3, <2>2, InsideItself, DocumentType
    <3>2. Inside(f, packed)
      BY <2>3, <3>1 DEF Inside
    <3> QED BY <1>3, <2>1, <3>2, FitsInside
  <2> DEFINE longer == [f EXCEPT !.items["warnings"] = @ \o Q!Told]
  <2>5. packed' = IF Q!Fits(longer) THEN longer ELSE f
    BY <2>1, <2>2 DEF Q!WithTexts
  <2>6. Q!EncodedSize(packed') <= cap
    BY <2>4, <2>5 DEF Q!Fits
  <2>7. /\ packed'.truncated <=> packed.truncated \/ Q!Trimmed # {}
        /\ \A k \in Q!Collections \ {"warnings"} : packed'.items[k] = packed.items[k]
    <3>1. /\ longer.truncated = f.truncated
          /\ \A k \in Q!Collections \ {"warnings"} : longer.items[k] = f.items[k]
      BY <2>2 DEF Q!Document
    <3> HIDE DEF longer
    <3>2. CASE Q!Fits(longer)
      BY <2>3, <2>5, <3>1, <3>2
    <3>3. CASE ~Q!Fits(longer)
      BY <2>3, <2>5, <3>3
    <3> QED BY <3>2, <3>3
  <2>8. Q!HardCap'
    BY <1>1, <1>5, <2>6 DEF Q!HardCap
  <2>9. Q!LongestPrefix'
    <3>1. \A i, j \in 1..5 : i < j => Q!Trimmable[i] \in Q!Collections \ {"warnings"}
      BY Turns
    <3>2. \A i, j \in 1..5 : i < j /\ dropped'[Q!Trimmable[j]] > 0
                              => packed'.items[Q!Trimmable[i]] = <<>>
      BY <1>1, <1>2, <2>7, <3>1 DEF InOrder
    <3> QED BY <1>5, <3>2, Turns DEF Q!LongestPrefix
  <2>10. Q!LossIsTold'
    <3>1. Q!Trimmed' = Q!Trimmed
      BY <1>1 DEF Q!Trimmed
    <3>2. ASSUME NEW k \in Q!Collections \ {"warnings"}
          PROVE  /\ dropped'[k] = Len(document'.items[k]) - Len(packed'.items[k])
                 /\ packed'.items[k] = SubSeq(document'.items[k], 1, Len(packed'.items[k]))
      BY <1>1, <1>2, <2>7 DEF Accounted, Inside
    <3>3. packed'.truncated <=> (document'.truncated \/ Q!Trimmed' # {})
      BY <1>1, <1>2, <2>7, <3>1 DEF Accounted
    <3> QED BY <3>2, <3>3 DEF Q!LossIsTold
  <2> QED BY <1>5, <2>8, <2>9, <2>10 DEF PackInv, Working, Q!PackedIsBest
<1> QED BY <1>1, <1>4, <1>5

----------------------------------------------------------------------------
(* Packing: the call that is packed. *)

\* What the envelope is made of, while the operation runs.
EngineInv ==
    pc \notin Q!Packing =>
        \/ operation = "path" /\ \E R : route \in Seq(R)
        \/ operation = "search" /\ scope \in Q!S!ScopeType

AnswerInv == EngineInv /\ PackInv

LEMMA OutsideHolds ==
    ASSUME pc \notin Q!Packing
    PROVE  PackInv
BY DEF PackInv, Working, Q!Packing

LEMMA AnswerStarts ==
    ASSUME AnswerHypotheses, Q!QueryInit
    PROVE  AnswerInv
<1>1. CASE operation = "path" /\ Q!P!Init
  <2>1. pc \notin Q!Packing /\ route = <<>>
    BY <1>1 DEF Q!P!Init, Q!Packing
  <2>2. route \in Seq({})
    BY <2>1
  <2> QED BY <1>1, <2>1, <2>2, OutsideHolds DEF AnswerInv, EngineInv
<1>2. CASE operation = "search" /\ Q!S!Init
  <2>1. pc \notin Q!Packing /\ scope \in Q!S!ScopeType
    BY <1>2 DEF Q!S!Init, Q!Packing, AnswerHypotheses, Q!AnswerParameters, Q!S!Parameters
  <2> QED BY <1>2, <2>1, OutsideHolds DEF AnswerInv, EngineInv
<1>3. CASE operation = "other" /\ Q!Init
  <2>1. /\ document \in Q!Document /\ cap \in Nat /\ packed = document /\ pc = "measure"
        /\ turn = 1 /\ low = 0 /\ high = 0 /\ dropped = [k \in Q!Collections |-> 0]
    BY <1>3 DEF Q!Init, AnswerHypotheses, Q!BudgetParameters
  <2>2. Inside(document, document) /\ \A k \in Q!Collections : Len(document.items[k]) \in Nat
    BY <2>1, InsideItself, DocumentType
  <2>3. PackType
    BY <2>1 DEF PackType
  <2>4. Accounted
    BY <2>1, <2>2 DEF Accounted
  <2>5. InOrder
    BY <2>1, Turns DEF InOrder
  <2>6. EngineInv
    BY <2>1 DEF EngineInv, Q!Packing
  <2> QED BY <2>1, <2>3, <2>4, <2>5, <2>6 DEF AnswerInv, PackInv, Working
<1> QED BY <1>1, <1>2, <1>3 DEF Q!QueryInit

LEMMA PathGoesOn ==
    ASSUME EngineInv, operation = "path", Q!P!Next
    PROVE  pc \notin Q!Packing /\ pc' \notin Q!Packing /\ \E R : route' \in Seq(R)
<1>1. CASE Q!P!Expand
  BY <1>1 DEF Q!P!Expand, EngineInv, Q!Packing
<1>2. ASSUME NEW e \in Edges, Q!P!LookAt(e)
      PROVE  pc = "edges" /\ pc' \in {"edges", "stop"} /\ route' = route
  BY <1>2 DEF Q!P!LookAt, Q!P!GoOn, Q!P!Exhausted, Q!P!Stop
<1>3. CASE Q!P!Expanded
  BY <1>3 DEF Q!P!Expanded, EngineInv, Q!Packing
<1>4. CASE Q!P!NextLevel
  BY <1>4 DEF Q!P!NextLevel, EngineInv, Q!Packing
<1>5. CASE Q!P!Answer
  BY <1>5 DEF Q!P!Answer, EngineInv, Q!Packing
<1>6. CASE Q!P!Back
  <2>1. pc = "back" /\ pc' \in {"back", "answered", "not_found"}
        /\ (route' = route \/ route' = <<parent[cursor]>> \o route)
    BY <1>6 DEF Q!P!Back
  <2>2. PICK R : route \in Seq(R)
    BY <2>1 DEF EngineInv, Q!Packing
  <2>3. <<parent[cursor]>> \o route \in Seq(R \cup {parent[cursor]})
    BY <2>2
  <2> QED BY <2>1, <2>2, <2>3 DEF Q!Packing
<1> QED BY <1>1, <1>2, <1>3, <1>4, <1>5, <1>6 DEF Q!P!Next, EngineInv, Q!Packing

LEMMA SearchGoesOn ==
    ASSUME EngineInv, operation = "search", Q!S!Next
    PROVE  pc \notin Q!Packing /\ pc' \notin Q!Packing /\ scope' \in Q!S!ScopeType
<1>1. CASE Q!S!LookUp
  BY <1>1 DEF Q!S!LookUp, EngineInv, Q!Packing
<1>2. ASSUME NEW n \in Symbols, Q!S!Scan(n) PROVE pc = "scan" /\ pc' = "scan" /\ scope' = scope
  BY <1>2 DEF Q!S!Scan
<1>3. CASE Q!S!ScanEnds
  BY <1>3 DEF Q!S!ScanEnds, EngineInv, Q!Packing
<1> QED BY <1>1, <1>2, <1>3 DEF Q!S!Next, EngineInv, Q!Packing

\* The operators of FiniteSets, under the names the instances give them.
LEMMA SameNotions ==
    ASSUME NEW T
    PROVE  /\ Q!IsFiniteSet(T) = IsFiniteSet(T) /\ Q!S!IsFiniteSet(T) = IsFiniteSet(T)
           /\ Q!Cardinality(T) = Cardinality(T) /\ Q!S!Cardinality(T) = Cardinality(T)
<1>1. Q!IsFiniteSet(T) = IsFiniteSet(T)
  BY Zenon DEF Q!IsFiniteSet, IsFiniteSet
<1>2. Q!S!IsFiniteSet(T) = IsFiniteSet(T)
  BY Zenon DEF Q!S!IsFiniteSet, IsFiniteSet
<1>3. Q!Cardinality(T) = Cardinality(T)
  BY Zenon DEF Q!Cardinality, Cardinality
<1>4. Q!S!Cardinality(T) = Cardinality(T)
  BY Zenon DEF Q!S!Cardinality, Cardinality
<1> QED BY <1>1, <1>2, <1>3, <1>4

LEMMA CountIs ==
    ASSUME NEW s, NEW n \in Nat, DOMAIN s = 1..n
    PROVE  Q!Count(s) \in Nat
<1>1. IsFiniteSet(1..n)
  BY FS_Interval
<1>2. {c \in DOMAIN s : s[c]} \subseteq 1..n
  OBVIOUS
<1> QED BY <1>1, <1>2, FS_Subset, FS_CardinalityType, SameNotions DEF Q!Count

LEMMA EnvelopeIs ==
    ASSUME AnswerHypotheses, NEW n \in Nat, NEW e \in Nat, NEW flag \in BOOLEAN, NEW w \in Nat,
           NEW missing
    PROVE  Q!EnvelopeOf(n, e, flag, w, missing) \in Q!Document
<1>1. /\ Size["node"] \in Nat /\ Size["edge"] \in Nat
      /\ Size["warning"] \in Nat /\ Size["meta"] \in Nat
  BY DEF AnswerHypotheses, Q!AnswerParameters
<1>2. ASSUME NEW m \in Nat, NEW size \in Nat PROVE Q!Copies(m, size) \in Seq(Nat)
  BY DEF Q!Copies
<1>3. PICK v \in Nat : v = w + 1 + (IF missing THEN 1 ELSE 0)
  OBVIOUS
<1>4. /\ Q!Copies(n, Size["node"]) \in Seq(Nat) /\ Q!Copies(e, Size["edge"]) \in Seq(Nat)
      /\ Q!Copies(v, Size["warning"]) \in Seq(Nat) /\ <<>> \in Seq(Nat)
  <2>1. <<>> \in Seq(Nat)
    OBVIOUS
  <2> QED BY <1>1, <1>2, <2>1, Zenon
<1> QED BY <1>1, <1>3, <1>4 DEF Q!EnvelopeOf, Q!Document

LEMMA Enveloped ==
    ASSUME AnswerHypotheses, EngineInv, Q!Envelope
    PROVE  AnswerInv'
<1>1. PICK c \in AnswerCaps :
        \/ operation = "path" /\ pc = "answered" /\ Q!Start(Q!PathEnvelope, c)
        \/ operation = "search" /\ pc = "listed" /\ Q!Start(Q!SearchEnvelope, c)
  BY DEF Q!Envelope
<1>2. c \in Nat
  BY DEF AnswerHypotheses, Q!AnswerParameters
<1>3. CASE operation = "path" /\ pc = "answered" /\ Q!Start(Q!PathEnvelope, c)
  <2>1. PICK R : route \in Seq(R)
    BY <1>3 DEF EngineInv, Q!Packing
  <2>2. (IF found THEN Len(route) + 1 ELSE 0) \in Nat /\ Len(route) \in Nat
    BY <2>1
  <2>3. Q!PathFlag \in BOOLEAN
    BY DEF Q!PathFlag
  <2>4. Q!PathWarnings \in Nat
    <3>1. Q!Count(<<budget_exhausted, facts.missing, Q!P!RelevantUnresolved # {},
                    Q!P!DepthLimited>>) \in Nat
      <4> DEFINE s == <<budget_exhausted, facts.missing, Q!P!RelevantUnresolved # {},
                        Q!P!DepthLimited>>
      <4>1. DOMAIN s = 1..4
        OBVIOUS
      <4> HIDE DEF s
      <4>2. Q!Count(s) \in Nat
        BY <4>1, CountIs
      <4> QED BY <4>2 DEF s
    <3> QED BY <3>1 DEF Q!PathWarnings
  <2>5. Q!PathEnvelope \in Q!Document
    BY <2>2, <2>3, <2>4, EnvelopeIs DEF Q!PathEnvelope
  <2> QED BY <1>2, <1>3, <2>5, PackStarts DEF AnswerInv, EngineInv, Q!Start, Q!Packing
<1>4. CASE operation = "search" /\ pc = "listed" /\ Q!Start(Q!SearchEnvelope, c)
  <2>1. scope \in Q!S!ScopeType
    BY <1>4 DEF EngineInv, Q!Packing
  <2>2. Cardinality(Q!S!Answer) \in Nat
    <3>1. Q!S!Answer \subseteq Symbols
      BY <2>1 DEF Q!S!Answer, Q!S!candidates, Q!S!ScopeType
    <3>2. IsFiniteSet(Symbols)
      BY SameNotions DEF AnswerHypotheses, Q!AnswerParameters, Q!S!Parameters
    <3> QED BY <3>1, <3>2, FS_Subset, FS_CardinalityType, SameNotions
  <2>3. Q!S!truncated \in BOOLEAN
    BY DEF Q!S!truncated
  <2>4. Q!SearchWarnings \in Nat
    <3> DEFINE s == <<Q!S!truncated, Q!S!candidates = {}, Q!S!ambiguous, Q!S!ambiguous>>
    <3>1. DOMAIN s = 1..4
      OBVIOUS
    <3> HIDE DEF s
    <3>2. Q!Count(s) \in Nat
      BY <3>1, CountIs
    <3> QED BY <3>2 DEF s, Q!SearchWarnings
  <2>5. Q!SearchEnvelope \in Q!Document
    <3>1. Q!Cardinality(Q!S!Answer) \in Nat
      BY <2>2, SameNotions
    <3> QED BY <2>3, <2>4, <3>1, EnvelopeIs DEF Q!SearchEnvelope
  <2> QED BY <1>2, <1>4, <2>5, PackStarts DEF AnswerInv, EngineInv, Q!Start, Q!Packing
<1> QED BY <1>1, <1>3, <1>4

LEMMA AnswerGoesOn ==
    ASSUME AnswerHypotheses, AnswerInv, [Q!QueryNext]_(Q!queryVars)
    PROVE  AnswerInv'
<1>1. CASE Q!PathStep
  <2>1. operation = "path" /\ operation' = operation /\ Q!P!Next
    BY <1>1 DEF Q!PathStep
  <2>2. pc' \notin Q!Packing /\ \E R : route' \in Seq(R)
    BY <2>1, PathGoesOn DEF AnswerInv
  <2>3. PackInv'
    BY <2>2 DEF PackInv, Working, Q!Packing
  <2> QED BY <2>1, <2>2, <2>3 DEF AnswerInv, EngineInv
<1>2. CASE Q!SearchStep
  <2>1. operation = "search" /\ operation' = operation /\ Q!S!Next
    BY <1>2 DEF Q!SearchStep
  <2>2. pc' \notin Q!Packing /\ scope' \in Q!S!ScopeType
    BY <2>1, SearchGoesOn DEF AnswerInv
  <2>3. PackInv'
    BY <2>2 DEF PackInv, Working, Q!Packing
  <2> QED BY <2>1, <2>2, <2>3 DEF AnswerInv, EngineInv
<1>3. CASE Q!Envelope
  BY <1>3, Enveloped DEF AnswerInv
<1>4. CASE Q!Pack
  <2>1. PackInv /\ Q!Next
    BY <1>4 DEF Q!Pack, AnswerInv
  <2>2. PackInv'
    BY <2>1, Measured, Skipped, Opened, Probed, Settled, Finished DEF Q!Next
  <2>3. pc' \in Q!Packing
    BY <2>1 DEF Q!Next, Q!Measure, Q!Skip, Q!Open, Q!Probe, Q!Settle, Q!Finish, Q!Packing
  <2> QED BY <2>2, <2>3 DEF AnswerInv, EngineInv
<1>5. CASE UNCHANGED Q!queryVars
  <2>1. UNCHANGED <<operation, pc, route, scope, document, cap, packed, turn, low, high, dropped>>
    BY <1>5 DEF Q!queryVars, Q!pathOnly, Q!searchOnly, Q!packOnly
  <2>2. EngineInv'
    BY <2>1 DEF AnswerInv, EngineInv
  <2>3. PackInv'
    <3>1. /\ PackType' <=> PackType
          /\ Accounted' <=> Accounted
          /\ InOrder' <=> InOrder
      BY <2>1 DEF PackType, Accounted, InOrder
    <3>2. (Needed' <=> Needed) /\ (Longest' <=> Longest)
      BY <2>1 DEF Needed, Longest, Q!Fits
    <3>3. Bracketed' <=> Bracketed
      BY <2>1 DEF Bracketed, Q!Fits, Q!items, Q!key
    <3>4. Q!PackedIsBest' <=> Q!PackedIsBest
      BY <2>1 DEF Q!PackedIsBest, Q!HardCap, Q!LongestPrefix, Q!LossIsTold, Q!Fits, Q!Trimmed
    <3> QED BY <2>1, <3>1, <3>2, <3>3, <3>4 DEF AnswerInv, PackInv
  <2> QED BY <2>2, <2>3 DEF AnswerInv
<1> QED BY <1>1, <1>2, <1>3, <1>4, <1>5 DEF Q!QueryNext

\* pack_response as a whole, for every envelope of every operation: inside max_bytes, no
\* smaller than it must be, and honest about what it lost.
THEOREM PackingIsBest == AnswerSpec => []PackedIsBest
<1>1. AnswerInit => AnswerInv
  BY HypothesesHold, AnswerStarts DEF AnswerInit
<1>2. AnswerInv /\ [AnswerNext]_answerVars => AnswerInv'
  BY HypothesesHold, AnswerIsQuery, AnswerGoesOn
<1>3. AnswerInv => PackedIsBest
  BY PackInvShows DEF AnswerInv, PackedIsBest
<1> QED BY <1>1, <1>2, <1>3, PTL DEF AnswerSpec

----------------------------------------------------------------------------
(* path: what lies how far from the root. *)

\* The operators of PinnedGraph, under the names the instances give them.
LEMMA PathNames ==
    /\ \A e : Q!P!Resolved(e) <=> Resolved(e)
    /\ \A n : Q!P!Incident(n) = Incident(n)
    /\ \A e, n : Q!P!OtherEnd(e, n) = OtherEnd(e, n)
    /\ \A T : Q!P!Closed(T) <=> Closed(T)
    /\ Q!P!Ball = Ball
    /\ Q!P!GraphType = GraphType /\ Q!P!AskType = AskType
<1>1. \A e : Q!P!Resolved(e) <=> Resolved(e)
  BY DEF Q!P!Resolved, Resolved
<1>2. \A n : Q!P!Incident(n) = Incident(n)
  BY DEF Q!P!Incident, Incident
<1>3. \A e, n : Q!P!OtherEnd(e, n) = OtherEnd(e, n)
  BY Zenon DEF Q!P!OtherEnd, OtherEnd
<1>4. \A T : Q!P!Closed(T) <=> Closed(T)
  BY <1>1, <1>2, <1>3 DEF Q!P!Closed, Closed
<1>5. Q!P!Ball = Ball
  BY Zenon DEF Q!P!Ball, Ball, Q!P!Hop, Hop, Q!P!OtherEnd, OtherEnd, Q!P!Incident, Incident,
     Q!P!Resolved, Resolved
<1>6. Q!P!GraphType = GraphType /\ Q!P!AskType = AskType
  BY DEF Q!P!GraphType, GraphType, Q!P!AskType, AskType, Q!P!Headings, Headings
<1> QED BY <1>1, <1>2, <1>3, <1>4, <1>5, <1>6

\* The two ends of a resolved edge, seen from one of them.
LEMMA EndsAre ==
    ASSUME Typed, NEW n, NEW e \in Incident(n), Resolved(e)
    PROVE  {graph.src[e], graph.tgt[e]} = {n, OtherEnd(e, n)}
<1>1. ask.heading \in {"incoming", "outgoing", "both"}
  BY DEF Typed, AskType, Headings
<1> QED BY <1>1 DEF Incident, OtherEnd

\* n lies d hops from the root, and no fewer.
Away(n, d) == n \in Ball[d] /\ \A k \in Nat : k < d => n \notin Ball[k]

LEMMA RootAway ==
    ASSUME Typed, NEW d \in Nat
    PROVE  Away(ask.root, d) <=> d = 0
<1>1. ask.root \in Ball[0]
  BY BallIs
<1> QED BY <1>1 DEF Away

\* One hop further than what lies d hops away is d + 1 hops away, when it is nothing nearer.
LEMMA HopAway ==
    ASSUME Typed, NEW d \in Nat, NEW n \in Ball[d], NEW e \in Incident(n), Resolved(e),
           OtherEnd(e, n) \notin Ball[d]
    PROVE  Away(OtherEnd(e, n), d + 1)
<1>1. Ball[d + 1] = Hop(Ball[d])
  BY BallIs
<1>2. OtherEnd(e, n) \in Ball[d + 1]
  BY <1>1 DEF Hop
<1>3. ASSUME NEW k \in Nat, k < d + 1 PROVE OtherEnd(e, n) \notin Ball[k]
  <2>1. k <= d
    BY <1>3
  <2> QED BY <2>1, BallGrows
<1> QED BY <1>2, <1>3 DEF Away

\* A set that has the root and is closed has everything that can be reached.
LEMMA ClosedHolds ==
    ASSUME Typed, NEW T, ask.root \in T, Closed(T), NEW k \in Nat
    PROVE  Ball[k] \subseteq T
<1> DEFINE D == {j \in Nat : Ball[j] \subseteq T}
<1>1. 0 \in D
  BY BallIs
<1>2. ASSUME NEW j \in Nat, j \in D PROVE j + 1 \in D
  <2>1. Ball[j + 1] = Hop(Ball[j]) /\ Ball[j] \subseteq T
    BY <1>2, BallIs
  <2>2. Hop(Ball[j]) \subseteq T
    BY <2>1 DEF Hop, Closed
  <2> QED BY <2>1, <2>2
<1>3. \A j \in Nat : j \in D
  <2> HIDE DEF D
  <2> QED BY <1>1, <1>2, Counting
<1> QED BY <1>3

\* What does not change while the scope and the call do not.
LEMMA PathFrame ==
    ASSUME graph' = graph, ask' = ask
    PROVE  /\ Ball' = Ball /\ (Typed' <=> Typed)
           /\ \A n, d : Away(n, d)' <=> Away(n, d)
<1>1. Ball' = Ball
  BY BallFrame
<1> QED BY <1>1 DEF Typed, Away

----------------------------------------------------------------------------
(* path: the invariant of the search. *)

Elems(s) == {s[i] : i \in 1..Len(s)}

Reached == DOMAIN parent

\* Every hop by which a node was reached is real, and leads one hop further from the root.
Tree ==
    /\ Reached \subseteq Nodes
    /\ ask.root \in Reached /\ parent[ask.root] = Q!P!NoStep
    /\ \A n \in Reached : n # ask.root =>
        \E m \in Reached, e \in Edges, d \in Nat :
            /\ parent[n] = Q!P!Step(m, e)
            /\ e \in Incident(m) /\ Resolved(e) /\ OtherEnd(e, m) = n
            /\ Away(m, d) /\ Away(n, d + 1)

\* What is known of the edges that were looked at.
Edged ==
    /\ \A e \in seen_edges : Resolved(e) => graph.src[e] \in Reached /\ graph.tgt[e] \in Reached
    /\ unresolved = {e \in seen_edges : ~Resolved(e)}

Waiting(n) ==
    n \in Elems(rest) \/ n \in Elems(next_level) \/ (pc = "edges" /\ n = here)

\* In the middle of a level.
Sweeping ==
    /\ ~found /\ ~budget_exhausted /\ route = <<>>
    /\ level \in 1..ask.depth
    /\ rest \in Seq(Nodes) /\ next_level \in Seq(Nodes)
    /\ goal \notin Reached
    /\ Ball[level - 1] \subseteq Reached
    /\ \A n \in Reached : n \in Ball[level - 1] \/ n \in Elems(next_level)
    /\ \A n \in Elems(rest) : Away(n, level - 1)
    /\ \A n \in Elems(next_level) : n \in Reached /\ Away(n, level)
    /\ \A n \in Reached : Waiting(n) \/ Incident(n) \subseteq seen_edges

Expanding ==
    /\ Away(here, level - 1)
    /\ todo \subseteq Incident(here) /\ Incident(here) \ todo \subseteq seen_edges

\* Nothing was found, and no budget stopped the search: the goal is further away than the depth,
\* and when there was no next level it cannot be reached at all.
Missed ==
    /\ goal \notin Ball[ask.depth]
    /\ current # <<>> => depth_reached >= ask.depth
    /\ current = <<>> =>
        /\ ask.root \in Reached /\ goal \notin Reached /\ Reached \subseteq Nodes
        /\ Closed(Reached)
        /\ \A n \in Reached : Incident(n) \subseteq seen_edges
        /\ unresolved = {e \in seen_edges : ~Resolved(e)}

\* The way back from the goal so far.
Retraced ==
    /\ cursor \in Reached
    /\ route \in Seq([from : Nodes, edge : Edges])
    /\ \E d \in Nat : Away(cursor, d) /\ Away(goal, d + Len(route))
    /\ IF route = <<>> THEN cursor = goal ELSE route[1].from = cursor
    /\ \A i \in 1..Len(route) :
        /\ route[i].edge \in Incident(route[i].from) /\ Resolved(route[i].edge)
        /\ OtherEnd(route[i].edge, route[i].from)
             = IF i = Len(route) THEN goal ELSE route[i + 1].from

PathInv ==
    /\ Typed /\ goal \in Nodes
    /\ pc \in {"level", "edges"} => Sweeping /\ Tree /\ Edged
    /\ pc = "edges" => Expanding
    /\ pc \in {"stop", "answered"} /\ ~found =>
        route = <<>> /\ (~budget_exhausted => Missed)
    /\ pc \in {"stop", "back", "answered"} /\ found =>
        Tree /\ goal \in Reached /\ \E d \in 0..ask.depth : Away(goal, d)
    /\ pc = "stop" /\ found => route = <<>>
    /\ pc = "back" => found
    /\ pc \in {"back", "answered"} /\ found => Retraced
    /\ pc = "answered" /\ found => cursor = ask.root

LEMMA AwayOnce ==
    ASSUME NEW n, NEW d \in Nat, NEW k \in Nat, Away(n, d), Away(n, k)
    PROVE  d = k
<1>1. ~(d < k) /\ ~(k < d)
  BY DEF Away
<1> QED BY <1>1

LEMMA ElemsAre ==
    ASSUME NEW T, NEW s \in Seq(T)
    PROVE  /\ Elems(s) \subseteq T /\ Elems(<<>>) = {}
           /\ \A x \in T : Append(s, x) \in Seq(T) /\ Elems(Append(s, x)) = Elems(s) \cup {x}
           /\ s # <<>> => /\ Head(s) \in T /\ Tail(s) \in Seq(T)
                          /\ Elems(s) = {Head(s)} \cup Elems(Tail(s))
<1>1. Elems(s) \subseteq T /\ Elems(<<>>) = {}
  BY DEF Elems
<1>2. ASSUME NEW x \in T
      PROVE  Append(s, x) \in Seq(T) /\ Elems(Append(s, x)) = Elems(s) \cup {x}
  <2>1. /\ Append(s, x) \in Seq(T) /\ Len(Append(s, x)) = Len(s) + 1 /\ Len(s) \in Nat
        /\ Append(s, x)[Len(s) + 1] = x
        /\ \A i \in 1..Len(s) : Append(s, x)[i] = s[i]
    OBVIOUS
  <2> DEFINE t == Append(s, x)
             n == Len(s)
  <2>2. n \in Nat /\ t[n + 1] = x /\ Len(t) = n + 1 /\ \A i \in 1..n : t[i] = s[i]
    BY <2>1
  <2> HIDE DEF t
  <2>3. Elems(t) = {t[i] : i \in 1..(n + 1)} /\ Elems(s) = {s[i] : i \in 1..n}
    BY <2>2 DEF Elems
  <2> HIDE DEF n
  <2>4. Elems(t) = Elems(s) \cup {x}
    <3>1. \A i \in 1..(n + 1) : i = n + 1 \/ i \in 1..n
      BY <2>2
    <3>2. n + 1 \in 1..(n + 1) /\ 1..n \subseteq 1..(n + 1)
      BY <2>2
    <3>3. Elems(t) \subseteq Elems(s) \cup {x}
      BY <2>2, <2>3, <3>1
    <3>4. Elems(s) \subseteq Elems(t) /\ x \in Elems(t)
      BY <2>2, <2>3, <3>2
    <3> QED BY <3>3, <3>4
  <2> QED BY <2>1, <2>4 DEF t
<1>3. ASSUME s # <<>>
      PROVE  /\ Head(s) \in T /\ Tail(s) \in Seq(T)
             /\ Elems(s) = {Head(s)} \cup Elems(Tail(s))
  <2>1. /\ Head(s) \in T /\ Tail(s) \in Seq(T) /\ Head(s) = s[1]
        /\ Len(s) \in Nat \ {0} /\ Len(Tail(s)) = Len(s) - 1
        /\ \A i \in 1..(Len(s) - 1) : Tail(s)[i] = s[i + 1]
    BY <1>3
  <2> DEFINE t == Tail(s)
             n == Len(s)
  <2>2. n \in Nat \ {0} /\ Len(t) = n - 1 /\ \A i \in 1..(n - 1) : t[i] = s[i + 1]
    BY <2>1
  <2> HIDE DEF t
  <2>3. Elems(t) = {t[i] : i \in 1..(n - 1)} /\ Elems(s) = {s[i] : i \in 1..n}
    BY <2>2 DEF Elems
  <2> HIDE DEF n
  <2>4. Elems(s) = {s[1]} \cup Elems(t)
    <3>1. ASSUME NEW i \in 1..n, i # 1 PROVE i - 1 \in 1..(n - 1) /\ s[i] = t[i - 1]
      <4>1. i - 1 \in 1..(n - 1) /\ (i - 1) + 1 = i
        BY <2>2, <3>1
      <4>2. t[i - 1] = s[(i - 1) + 1]
        BY <2>2, <4>1
      <4> QED BY <4>1, <4>2
    <3>2. 1 \in 1..n /\ \A i \in 1..(n - 1) : i + 1 \in 1..n
      BY <2>2
    <3>3. Elems(s) \subseteq {s[1]} \cup Elems(t)
      <4>1. ASSUME NEW i \in 1..n PROVE s[i] \in {s[1]} \cup Elems(t)
        <5>1. CASE i = 1
          BY <5>1
        <5>2. CASE i # 1
          BY <2>3, <3>1, <5>2
        <5> QED BY <5>1, <5>2
      <4> QED BY <2>3, <4>1
    <3>4. Elems(t) \subseteq Elems(s) /\ s[1] \in Elems(s)
      <4>1. ASSUME NEW i \in 1..(n - 1) PROVE t[i] \in Elems(s)
        BY <2>2, <2>3, <3>2
      <4> QED BY <2>3, <3>2, <4>1
    <3> QED BY <3>3, <3>4
  <2> QED BY <2>1, <2>4 DEF t
<1> QED BY <1>1, <1>2, <1>3

LEMMA PathBegins ==
    ASSUME AnswerHypotheses, Q!P!Init
    PROVE  PathInv
<1>1. Typed /\ goal \in Nodes /\ ask.root \in Nodes /\ ask.depth \in Nat /\ NoNode \notin Nodes
  <2>1. Graphs \subseteq Q!P!GraphType /\ PathAsks \subseteq Q!P!AskType /\ Goals \subseteq Nodes
        /\ NoNode \notin Nodes
    BY DEF AnswerHypotheses, Q!AnswerParameters, Q!P!Parameters, Q!P!WalkParameters
  <2>2. graph \in GraphType /\ ask \in AskType /\ goal \in Nodes
    BY <2>1, PathNames DEF Q!P!Init
  <2> QED BY <2>1, <2>2 DEF Typed, AskType
<1>2. /\ found = (ask.root = goal) /\ pc = IF found \/ ask.depth = 0 THEN "stop" ELSE "level"
      /\ level = 1 /\ depth_reached = 0 /\ current = <<ask.root>> /\ next_level = <<>>
      /\ rest = current /\ parent = [n \in {ask.root} |-> Q!P!NoStep]
      /\ seen_edges = {} /\ unresolved = {} /\ budget_exhausted = FALSE /\ route = <<>>
  BY DEF Q!P!Init
<1>3. Ball[0] = {ask.root} /\ Away(ask.root, 0)
  BY <1>1, BallIs, RootAway
<1>4. Reached = {ask.root}
  BY <1>2 DEF Reached
<1>5. Tree
  BY <1>1, <1>2, <1>4 DEF Tree
<1>6. CASE pc = "stop" /\ found
  <2>1. goal = ask.root /\ \E d \in 0..ask.depth : Away(goal, d)
    <3>1. 0 \in 0..ask.depth
      BY <1>1
    <3> QED BY <1>2, <1>3, <1>6, <3>1, Zenon
  <2> QED BY <1>1, <1>2, <1>3, <1>4, <1>5, <1>6, <2>1 DEF PathInv
<1>7. CASE pc = "stop" /\ ~found
  <2>1. ask.depth = 0 /\ goal # ask.root
    BY <1>2, <1>7
  <2>2. Missed
    BY <1>2, <1>3, <2>1 DEF Missed
  <2> QED BY <1>1, <1>2, <1>7, <2>2 DEF PathInv
<1>8. CASE pc = "level"
  <2>1. ~found /\ goal # ask.root /\ ask.depth # 0
    BY <1>2, <1>8
  <2>2. level \in 1..ask.depth /\ level - 1 = 0
    BY <1>1, <1>2, <2>1
  <2>3. rest \in Seq(Nodes) /\ next_level \in Seq(Nodes)
    BY <1>1, <1>2
  <2>4. Elems(rest) = {ask.root} /\ Elems(next_level) = {}
    BY <1>2 DEF Elems
  <2>5. Sweeping
    BY <1>2, <1>3, <1>4, <2>1, <2>2, <2>3, <2>4 DEF Sweeping, Waiting
  <2>6. Edged
    BY <1>2 DEF Edged
  <2> QED BY <1>1, <1>5, <1>8, <2>5, <2>6 DEF PathInv
<1> QED BY <1>2, <1>6, <1>7, <1>8

----------------------------------------------------------------------------
(* path: the steps of the search. *)

LEMMA TreeFrame ==
    ASSUME graph' = graph, ask' = ask, parent' = parent
    PROVE  (Tree' <=> Tree) /\ Reached' = Reached
BY PathFrame, Frame DEF Tree, Reached, Q!P!NoStep, Q!P!Step

\* A node of this level is taken up, or the one that was taken up is left.
LEMMA PathExpands ==
    ASSUME PathInv, Q!P!Expand
    PROVE  PathInv'
<1>1. /\ pc = "level" /\ pc' = "edges" /\ rest # <<>>
      /\ here' = Head(rest) /\ rest' = Tail(rest) /\ todo' = Q!P!Incident(Head(rest))
      /\ UNCHANGED <<graph, ask, goal, level, next_level, parent, seen_edges, unresolved, found,
                     budget_exhausted, route>>
  BY DEF Q!P!Expand
<1>2. Sweeping /\ Tree /\ Edged /\ Typed /\ goal \in Nodes
  BY <1>1 DEF PathInv
<1>3. /\ Ball' = Ball /\ Typed' /\ Tree' /\ Reached' = Reached /\ todo' = Incident(Head(rest))
      /\ (\A n : Incident(n)' = Incident(n)) /\ (\A n, d : Away(n, d)' <=> Away(n, d))
      /\ \A e : Resolved(e)' <=> Resolved(e)
  BY <1>1, <1>2, PathFrame, TreeFrame, Frame, PathNames
<1>4. Edged'
  BY <1>1, <1>2, <1>3 DEF Edged
<1>5. Tail(rest) \in Seq(Nodes) /\ Elems(rest) = {here'} \cup Elems(rest')
  BY <1>1, <1>2, ElemsAre DEF Sweeping
<1>6. ASSUME NEW n \in Reached PROVE Waiting(n)' \/ Incident(n) \subseteq seen_edges
  <2>1. n \in Elems(rest) \/ n \in Elems(next_level) \/ Incident(n) \subseteq seen_edges
    BY <1>1, <1>2 DEF Sweeping, Waiting
  <2>2. Elems(next_level)' = Elems(next_level)
    BY <1>1 DEF Elems
  <2> QED BY <1>1, <1>5, <2>1, <2>2 DEF Waiting
<1>7. Sweeping'
  <2>1. \A n \in Elems(rest') : Away(n, level - 1)
    BY <1>2, <1>5 DEF Sweeping
  <2> QED BY <1>1, <1>2, <1>3, <1>5, <1>6, <2>1 DEF Sweeping
<1>8. Expanding'
  <2>1. Away(here', level - 1)
    BY <1>2, <1>5 DEF Sweeping
  <2> QED BY <1>1, <1>3, <2>1 DEF Expanding
<1> QED BY <1>1, <1>2, <1>3, <1>4, <1>7, <1>8 DEF PathInv

LEMMA PathExpanded ==
    ASSUME PathInv, Q!P!Expanded
    PROVE  PathInv'
<1>1. /\ pc = "edges" /\ pc' = "level" /\ todo = {}
      /\ UNCHANGED <<graph, ask, goal, level, next_level, rest, parent, seen_edges, unresolved,
                     found, budget_exhausted, route>>
  BY DEF Q!P!Expanded
<1>2. Sweeping /\ Tree /\ Edged /\ Expanding /\ Typed /\ goal \in Nodes
  BY <1>1 DEF PathInv
<1>3. /\ Ball' = Ball /\ Typed' /\ Tree' /\ Reached' = Reached
      /\ (\A n : Incident(n)' = Incident(n)) /\ (\A n, d : Away(n, d)' <=> Away(n, d))
      /\ \A e : Resolved(e)' <=> Resolved(e)
  BY <1>1, <1>2, PathFrame, TreeFrame, Frame
<1>4. Edged'
  BY <1>1, <1>2, <1>3 DEF Edged
<1>5. Incident(here) \subseteq seen_edges
  BY <1>1, <1>2 DEF Expanding
<1>6. Elems(next_level)' = Elems(next_level) /\ Elems(rest)' = Elems(rest)
  BY <1>1 DEF Elems
<1>7. ASSUME NEW n \in Reached PROVE Waiting(n)' \/ Incident(n) \subseteq seen_edges
  BY <1>1, <1>2, <1>5, <1>6 DEF Sweeping, Waiting
<1>8. Sweeping'
  BY <1>1, <1>2, <1>3, <1>6, <1>7 DEF Sweeping
<1> QED BY <1>1, <1>2, <1>3, <1>4, <1>8 DEF PathInv

\* The level is over: everything so many hops away was reached.
LEMMA PathLevels ==
    ASSUME PathInv, Q!P!NextLevel
    PROVE  PathInv'
<1>1. /\ pc = "level" /\ rest = <<>>
      /\ depth_reached' = level /\ level' = level + 1
      /\ current' = next_level /\ rest' = next_level /\ next_level' = <<>>
      /\ pc' = IF level = ask.depth \/ next_level = <<>> THEN "stop" ELSE "level"
      /\ UNCHANGED <<graph, ask, goal, parent, seen_edges, unresolved, found, budget_exhausted,
                     route>>
  BY DEF Q!P!NextLevel
<1>2. Sweeping /\ Tree /\ Edged /\ Typed /\ goal \in Nodes
  BY <1>1 DEF PathInv
<1>3. /\ Ball' = Ball /\ Typed' /\ Tree' /\ Reached' = Reached
      /\ (\A n : Incident(n)' = Incident(n)) /\ (\A n, d : Away(n, d)' <=> Away(n, d))
      /\ (\A e : Resolved(e)' <=> Resolved(e)) /\ (\A e, n : OtherEnd(e, n)' = OtherEnd(e, n))
  BY <1>1, <1>2, PathFrame, TreeFrame, Frame
<1>4. Edged'
  BY <1>1, <1>2, <1>3 DEF Edged
<1>5. /\ level \in Nat /\ level - 1 \in Nat /\ (level - 1) + 1 = level /\ level - 1 < level
      /\ ask.depth \in Nat /\ level <= ask.depth /\ level - 1 <= level
  BY <1>2 DEF Sweeping, Typed, AskType
<1>6. /\ Elems(rest) = {}
      /\ \A n \in Reached : n \in Elems(next_level) \/ Incident(n) \subseteq seen_edges
  <2>1. Elems(rest) = {}
    BY <1>1 DEF Elems
  <2> QED BY <1>1, <1>2, <2>1 DEF Sweeping, Waiting
\* Where the edges were looked at, they lead to what was reached.
<1>7. ASSUME NEW n \in Reached, Incident(n) \subseteq seen_edges, NEW e \in Incident(n), Resolved(e)
      PROVE  OtherEnd(e, n) \in Reached
  BY <1>2, <1>7, EndsAre DEF Edged
<1>8. \A n \in Ball[level - 1] : n \in Reached /\ Incident(n) \subseteq seen_edges
  <2> SUFFICES ASSUME NEW n \in Ball[level - 1]
               PROVE  n \in Reached /\ Incident(n) \subseteq seen_edges
    OBVIOUS
  <2>1. n \in Reached
    BY <1>2 DEF Sweeping
  <2>2. n \notin Elems(next_level)
    BY <1>2, <1>5 DEF Sweeping, Away
  <2> QED BY <1>6, <2>1, <2>2
<1>9. Reached = Ball[level]
  <2>1. Ball[level] = Hop(Ball[level - 1])
    <3>1. Ball[(level - 1) + 1] = Hop(Ball[level - 1])
      BY <1>2, <1>5, BallIs
    <3> QED BY <1>5, <3>1
  <2>2. Ball[level] \subseteq Reached
    BY <1>7, <1>8, <2>1 DEF Hop
  <2>3. Ball[level - 1] \subseteq Ball[level]
    BY <1>2, <1>5, BallGrows
  <2>4. Reached \subseteq Ball[level]
    BY <1>2, <2>3 DEF Sweeping, Away
  <2> QED BY <2>2, <2>4
<1>10. CASE pc' = "level"
  <2>1. level # ask.depth
    BY <1>1, <1>10
  <2>2. level' \in 1..ask.depth /\ level' - 1 = level
    BY <1>1, <1>5, <2>1
  <2>3. Elems(rest') = Elems(next_level) /\ Elems(next_level') = {}
    BY <1>1 DEF Elems
  <2>4. <<>> \in Seq(Nodes)
    OBVIOUS
  <2>5. \A n \in Reached : n \in Elems(rest') \/ Incident(n) \subseteq seen_edges
    BY <1>6, <2>3
  <2>6. Sweeping'
    <3>1. \A n \in Reached : Waiting(n)' \/ Incident(n) \subseteq seen_edges
      BY <2>5 DEF Waiting
    <3> QED BY <1>1, <1>2, <1>3, <1>9, <2>2, <2>3, <2>4, <3>1 DEF Sweeping
  <2> QED BY <1>1, <1>2, <1>3, <1>4, <1>10, <2>6 DEF PathInv
<1>11. CASE pc' = "stop"
  <2>1. ASSUME next_level = <<>>
        PROVE  Closed(Reached) /\ \A n \in Reached : Incident(n) \subseteq seen_edges
    <3>1. \A n \in Reached : Incident(n) \subseteq seen_edges
      <4>1. Elems(next_level) = {}
        BY <2>1 DEF Elems
      <4> QED BY <1>6, <4>1
    <3> QED BY <1>7, <3>1 DEF Closed
  <2>2. goal \notin Ball[ask.depth]
    <3>1. goal \notin Reached
      BY <1>2 DEF Sweeping
    <3>2. CASE level = ask.depth
      BY <1>9, <3>1, <3>2
    <3>3. CASE next_level = <<>>
      BY <1>2, <1>5, <2>1, <3>1, <3>3, ClosedHolds DEF Tree
    <3> QED BY <1>1, <1>11, <3>2, <3>3
  <2>3. current' # <<>> => depth_reached' >= ask.depth
    BY <1>1, <1>5, <1>11
  <2>4. Missed'
    <3>1. current' = <<>> => Closed(Reached) /\ \A n \in Reached : Incident(n) \subseteq seen_edges
      BY <1>1, <2>1
    <3>2. Closed(Reached)' <=> Closed(Reached)
      BY <1>1, <1>3 DEF Closed
    <3> QED BY <1>1, <1>2, <1>3, <1>4, <2>2, <2>3, <3>1, <3>2
       DEF Missed, Tree, Edged, Sweeping
  <2> QED BY <1>1, <1>2, <1>3, <1>11, <2>4 DEF PathInv, Sweeping
<1> QED BY <1>1, <1>10, <1>11

\* A node that is reached by a new hop.
LEMMA TreeGrows ==
    ASSUME PathInv, pc = "edges", graph' = graph, ask' = ask,
           NEW e \in Incident(here), Resolved(e), OtherEnd(e, here) \notin Reached,
           parent' = [n \in Reached \cup {OtherEnd(e, here)} |->
                         IF n = OtherEnd(e, here) THEN Q!P!Step(here, e) ELSE parent[n]]
    PROVE  Tree' /\ Reached' = Reached \cup {OtherEnd(e, here)} /\ Away(OtherEnd(e, here), level)
<1>1. Sweeping /\ Tree /\ Expanding /\ Typed
  BY DEF PathInv
<1>2. level \in Nat /\ level - 1 \in Nat /\ (level - 1) + 1 = level
  BY <1>1 DEF Sweeping, Typed, AskType
<1>3. PICK far : far = OtherEnd(e, here)
  OBVIOUS
<1>4. here \in Ball[level - 1] /\ here \in Reached /\ Away(here, level - 1)
  BY <1>1 DEF Sweeping, Expanding, Away
<1>5. far \notin Ball[level - 1] /\ far \notin Reached
  BY <1>1, <1>3 DEF Sweeping
<1>6. Away(far, level)
  BY <1>1, <1>2, <1>3, <1>4, <1>5, HopAway
<1>7. Reached' = Reached \cup {far}
  BY <1>3 DEF Reached
<1>8. e \in Edges /\ far \in Nodes
  <2>1. here \in Nodes
    BY <1>1, <1>4 DEF Tree
  <2> QED BY <1>1, <1>3, <2>1, EndType DEF Typed, AskType, Incident
<1>9. /\ parent'[far] = Q!P!Step(here, e)
      /\ \A n \in Reached : parent'[n] = parent[n]
  BY <1>3, <1>5
<1>10. ASSUME NEW n \in Reached \cup {far}, n # ask.root
       PROVE  \E m \in Reached \cup {far}, f \in Edges, d \in Nat :
                /\ parent'[n] = Q!P!Step(m, f)
                /\ f \in Incident(m) /\ Resolved(f) /\ OtherEnd(f, m) = n
                /\ Away(m, d) /\ Away(n, d + 1)
  <2>1. CASE n = far
    <3>1. Away(n, (level - 1) + 1)
      BY <1>2, <1>6, <2>1
    <3> QED BY <1>2, <1>3, <1>4, <1>8, <1>9, <2>1, <3>1
  <2>2. CASE n \in Reached
    <3>1. PICK m \in Reached, f \in Edges, d \in Nat :
            /\ parent[n] = Q!P!Step(m, f)
            /\ f \in Incident(m) /\ Resolved(f) /\ OtherEnd(f, m) = n
            /\ Away(m, d) /\ Away(n, d + 1)
      BY <1>1, <1>10, <2>2 DEF Tree
    <3> QED BY <1>9, <2>2, <3>1
  <2> QED BY <1>10, <2>1, <2>2
<1>11. Tree'
  <2>1. Reached' \subseteq Nodes /\ ask.root \in Reached' /\ parent'[ask.root] = Q!P!NoStep
    BY <1>1, <1>7, <1>8, <1>9 DEF Tree
  <2>2. ASSUME NEW n \in Reached', n # ask.root'
        PROVE  (\E m \in Reached, f \in Edges, d \in Nat :
                    /\ parent[n] = Q!P!Step(m, f)
                    /\ f \in Incident(m) /\ Resolved(f) /\ OtherEnd(f, m) = n
                    /\ Away(m, d) /\ Away(n, d + 1))'
    <3>1. PICK m \in Reached', f \in Edges, d \in Nat :
            /\ parent'[n] = Q!P!Step(m, f)
            /\ f \in Incident(m) /\ Resolved(f) /\ OtherEnd(f, m) = n
            /\ Away(m, d) /\ Away(n, d + 1)
      BY <1>7, <1>10, <2>2, Zenon
    <3>2. /\ f \in Incident(m)' /\ Resolved(f)' /\ OtherEnd(f, m)' = n
          /\ Away(m, d)' /\ Away(n, d + 1)'
      BY <3>1, Frame, PathFrame, Zenon
    <3> QED BY <3>1, <3>2, Zenon
  <2> QED BY <2>1, <2>2, Zenon DEF Tree
<1> QED BY <1>3, <1>6, <1>7, <1>11

\* An edge of the node that is being expanded is looked at.
LEMMA PathLooks ==
    ASSUME PathInv, NEW e \in Edges, Q!P!LookAt(e)
    PROVE  PathInv'
<1>1. /\ pc = "edges" /\ e \in todo /\ todo' = todo \ {e}
      /\ UNCHANGED <<graph, ask, goal, level, current, rest, here, route>>
  BY DEF Q!P!LookAt
<1>2. Sweeping /\ Tree /\ Edged /\ Expanding /\ Typed /\ goal \in Nodes
  BY <1>1 DEF PathInv
<1>3. /\ Ball' = Ball /\ Typed'
      /\ (\A n : Incident(n)' = Incident(n)) /\ (\A n, d : Away(n, d)' <=> Away(n, d))
      /\ (\A f : Resolved(f)' <=> Resolved(f))
  BY <1>1, <1>2, PathFrame, Frame
<1>4. e \in Incident(here) /\ todo' \subseteq Incident(here)
      /\ Incident(here) \ todo' \subseteq seen_edges \cup {e}
  BY <1>1, <1>2 DEF Expanding
<1>5. here \in Reached /\ Elems(rest)' = Elems(rest)
  BY <1>1, <1>2 DEF Sweeping, Expanding, Away, Elems
<1>6. PICK far : far = OtherEnd(e, here)
  OBVIOUS
<1>7. level \in Nat /\ level - 1 \in Nat /\ level \in 0..ask.depth
  BY <1>2 DEF Sweeping, Typed, AskType
\* The search goes on in this level, with or without a new node.
<1>8. ASSUME pc' = pc, ~found', budget_exhausted' = budget_exhausted,
             Tree', Reached \subseteq Reached', goal \notin Reached',
             next_level' \in Seq(Nodes), Elems(next_level) \subseteq Elems(next_level'),
             \A n \in Reached' : n \in Reached \/ n \in Elems(next_level'),
             \A n \in Elems(next_level') : n \in Reached' /\ Away(n, level),
             seen_edges \subseteq seen_edges', e \in seen_edges', Edged'
      PROVE  PathInv'
  <2>1. Sweeping'
    <3>1. \A n \in Reached' : n \in Ball[level - 1] \/ n \in Elems(next_level')
      BY <1>2, <1>8 DEF Sweeping
    <3>2. \A n \in Reached' : Waiting(n)' \/ Incident(n) \subseteq seen_edges'
      BY <1>1, <1>2, <1>5, <1>8 DEF Sweeping, Waiting
    <3>3. Elems(next_level)' = Elems(next_level')
      BY DEF Elems
    <3> QED BY <1>1, <1>2, <1>3, <1>5, <1>8, <3>1, <3>2, <3>3 DEF Sweeping
  <2>2. Expanding'
    BY <1>1, <1>2, <1>3, <1>4, <1>8 DEF Expanding
  <2> QED BY <1>1, <1>2, <1>3, <1>8, <2>1, <2>2 DEF PathInv
<1>9. CASE e \in seen_edges /\ UNCHANGED <<pc, next_level, parent, seen_edges, unresolved, found,
                                            budget_exhausted>>
  <2>1. Tree' /\ Reached' = Reached /\ Edged'
    BY <1>1, <1>2, <1>3, <1>9, TreeFrame DEF Edged
  <2> QED BY <1>2, <1>8, <1>9, <2>1 DEF Sweeping
<1>10. CASE Q!P!Exhausted
  <2>1. pc' = "stop" /\ budget_exhausted' /\ found' = found
    BY <1>10 DEF Q!P!Exhausted, Q!P!Stop
  <2> QED BY <1>1, <1>2, <1>3, <2>1 DEF PathInv, Sweeping
<1>11. CASE /\ e \notin seen_edges /\ seen_edges' = seen_edges \cup {e}
            /\ ~Resolved(e) /\ unresolved' = unresolved \cup {e}
            /\ UNCHANGED <<pc, next_level, parent, found, budget_exhausted>>
  <2>1. Tree' /\ Reached' = Reached
    BY <1>1, <1>2, <1>11, TreeFrame
  <2>2. Edged'
    BY <1>1, <1>2, <1>3, <1>11, <2>1 DEF Edged
  <2> QED BY <1>2, <1>8, <1>11, <2>1, <2>2 DEF Sweeping
<1>12. CASE /\ e \notin seen_edges /\ seen_edges' = seen_edges \cup {e}
            /\ Resolved(e) /\ unresolved' = unresolved
            /\ Q!P!GoOn(e, far)
  <2>1. {graph.src[e], graph.tgt[e]} = {here, far}
    BY <1>2, <1>4, <1>6, <1>12, EndsAre
  <2>2. ASSUME Reached \cup {far} \subseteq Reached' PROVE Edged'
    BY <1>1, <1>2, <1>3, <1>5, <1>12, <2>1, <2>2 DEF Edged
  <2>3. found' = (far = goal) /\ budget_exhausted' = budget_exhausted
        /\ pc' = IF far = goal THEN "stop" ELSE pc
    BY <1>12 DEF Q!P!GoOn, Q!P!Stop
  <2>4. CASE far # goal /\ far \in Reached
    <3>1. UNCHANGED <<parent, next_level>>
      BY <1>12, <2>4 DEF Q!P!GoOn, Q!P!visited, Reached
    <3>2. Tree' /\ Reached' = Reached
      BY <1>1, <1>2, <3>1, TreeFrame
    <3> QED BY <1>2, <1>8, <1>12, <2>2, <2>3, <2>4, <3>1, <3>2 DEF Sweeping
  <2>5. CASE far = goal \/ far \notin Reached
    <3>1. far \notin Reached
      BY <1>2, <2>5 DEF Sweeping
    <3>2. /\ parent' = [n \in Reached \cup {far} |->
                           IF n = far THEN Q!P!Step(here, e) ELSE parent[n]]
          /\ next_level' = IF far = goal THEN next_level ELSE Append(next_level, far)
      BY <1>12, <2>5, <3>1 DEF Q!P!GoOn, Q!P!visited, Reached
    <3>3. Tree' /\ Reached' = Reached \cup {far} /\ Away(far, level)
      BY <1>1, <1>4, <1>6, <1>12, <3>1, <3>2, TreeGrows
    <3>4. CASE far = goal
      <4>1. found' /\ pc' = "stop" /\ goal' \in Reached' /\ route' = <<>> /\ goal' \in Nodes
        BY <1>1, <1>2, <2>3, <3>3, <3>4 DEF Sweeping
      <4>2. (\E d \in 0..ask.depth : Away(goal, d))'
        BY <1>1, <1>3, <1>7, <3>3, <3>4
      <4> QED BY <1>3, <3>3, <4>1, <4>2 DEF PathInv
    <3>5. CASE far # goal
      <4>1. far \in Nodes
        BY <1>2, <1>4, <1>5, <1>6, <1>12, EndType DEF Tree
      <4>2. next_level' \in Seq(Nodes) /\ Elems(next_level') = Elems(next_level) \cup {far}
        BY <1>2, <3>2, <3>5, <4>1, ElemsAre DEF Sweeping
      <4>3. goal \notin Reached' /\ pc' = pc /\ ~found'
        BY <1>2, <2>3, <3>3, <3>5 DEF Sweeping
      <4>4. \A n \in Elems(next_level') : n \in Reached' /\ Away(n, level)
        BY <1>2, <3>3, <4>2 DEF Sweeping
      <4> QED BY <1>8, <1>12, <2>2, <2>3, <3>3, <4>2, <4>3, <4>4
    <3> QED BY <3>4, <3>5
  <2> QED BY <2>4, <2>5
<1> QED BY <1>1, <1>6, <1>9, <1>10, <1>11, <1>12, PathNames DEF Q!P!LookAt

\* The search is over.
LEMMA PathAnswers ==
    ASSUME PathInv, Q!P!Answer
    PROVE  PathInv'
<1>1. /\ pc = "stop"
      /\ pc' = IF found THEN "back" ELSE IF Reached \subseteq graph.pinned THEN "answered"
               ELSE "not_found"
      /\ cursor' = IF found THEN goal ELSE cursor
      /\ UNCHANGED <<graph, ask, goal, current, depth_reached, parent, seen_edges, unresolved,
                     found, budget_exhausted, route>>
  BY DEF Q!P!Answer, Q!P!visited, Reached
<1>2. /\ Ball' = Ball /\ (Typed' <=> Typed) /\ (Tree' <=> Tree) /\ Reached' = Reached
      /\ (\A n : Incident(n)' = Incident(n)) /\ (\A n, d : Away(n, d)' <=> Away(n, d))
      /\ (\A e : Resolved(e)' <=> Resolved(e)) /\ (\A e, n : OtherEnd(e, n)' = OtherEnd(e, n))
  BY <1>1, PathFrame, TreeFrame, Frame
<1>3. CASE found
  <2>1. Tree /\ goal \in Reached /\ route = <<>> /\ Typed /\ goal \in Nodes
    BY <1>1, <1>3 DEF PathInv
  <2>2. PICK d \in 0..ask.depth : Away(goal, d)
    BY <1>1, <1>3 DEF PathInv
  <2>3. Retraced'
    <3>1. d \in Nat /\ d + Len(route) = d /\ Len(route) = 0
      BY <2>1, <2>2 DEF Typed, AskType
    <3>2. route \in Seq([from : Nodes, edge : Edges])
      BY <2>1
    <3>3. (\E k \in Nat : Away(cursor, k) /\ Away(goal, k + Len(route)))'
      BY <1>1, <1>2, <1>3, <2>2, <3>1
    <3> QED BY <1>1, <1>3, <2>1, <1>2, <3>1, <3>2, <3>3 DEF Retraced
  <2>4. (\E k \in 0..ask.depth : Away(goal, k))'
    BY <1>1, <1>2, <2>2
  <2> QED BY <1>1, <1>2, <1>3, <2>1, <2>3, <2>4 DEF PathInv
<1>4. CASE ~found
  <2>1. /\ Typed /\ goal \in Nodes /\ route = <<>> /\ (~budget_exhausted => Missed)
    BY <1>1, <1>4 DEF PathInv
  <2>2. Closed(Reached)' <=> Closed(Reached)
    BY <1>2 DEF Closed
  <2>3. Missed' <=> Missed
    BY <1>1, <1>2, <2>2 DEF Missed
  <2> QED BY <1>1, <1>2, <1>4, <2>1, <2>3 DEF PathInv
<1> QED BY <1>3, <1>4

\* One hop back towards the root, or the root.
LEMMA PathGoesBack ==
    ASSUME AnswerHypotheses, PathInv, Q!P!Back
    PROVE  PathInv'
<1>1. /\ pc = "back"
      /\ \/ /\ parent[cursor] # Q!P!NoStep
            /\ route' = <<parent[cursor]>> \o route
            /\ cursor' = parent[cursor].from
            /\ pc' = pc
         \/ /\ parent[cursor] = Q!P!NoStep
            /\ pc' \in {"answered", "not_found"}
            /\ route' = route /\ cursor' = cursor
      /\ UNCHANGED <<graph, ask, goal, parent, found>>
  BY DEF Q!P!Back
<1>2. /\ Ball' = Ball /\ (Typed' <=> Typed) /\ (Tree' <=> Tree) /\ Reached' = Reached
      /\ (\A n : Incident(n)' = Incident(n)) /\ (\A n, d : Away(n, d)' <=> Away(n, d))
      /\ (\A e : Resolved(e)' <=> Resolved(e)) /\ (\A e, n : OtherEnd(e, n)' = OtherEnd(e, n))
  BY <1>1, PathFrame, TreeFrame, Frame
<1>3. /\ found /\ Tree /\ goal \in Reached /\ Retraced /\ Typed /\ goal \in Nodes
      /\ \E d \in 0..ask.depth : Away(goal, d)
  BY <1>1 DEF PathInv
<1>4. (\E d \in 0..ask.depth : Away(goal, d))'
  BY <1>1, <1>2, <1>3
<1>5. CASE cursor = ask.root
  <2>1. /\ pc' \in {"answered", "not_found"} /\ route' = route /\ cursor' = cursor
    BY <1>1, <1>3, <1>5 DEF Tree
  <2>2. Retraced'
    BY <1>1, <1>2, <1>3, <2>1 DEF Retraced
  <2> QED BY <1>1, <1>2, <1>3, <1>4, <1>5, <2>1, <2>2 DEF PathInv
<1>6. CASE cursor # ask.root
  <2>1. PICK m \in Reached, e \in Edges, d \in Nat :
          /\ parent[cursor] = Q!P!Step(m, e)
          /\ e \in Incident(m) /\ Resolved(e) /\ OtherEnd(e, m) = cursor
          /\ Away(m, d) /\ Away(cursor, d + 1)
    BY <1>3, <1>6 DEF Tree, Retraced
  <2>2. m \in Nodes /\ NoNode \notin Nodes
    BY <1>3 DEF Tree, AnswerHypotheses, Q!AnswerParameters, Q!P!Parameters, Q!P!WalkParameters
  <2>3. PICK s : s = Q!P!Step(m, e)
    OBVIOUS
  <2>4. s \in [from : Nodes, edge : Edges] /\ s.from = m /\ s.edge = e
    BY <2>2, <2>3 DEF Q!P!Step
  <2>5. s # Q!P!NoStep
    BY <2>2, <2>4 DEF Q!P!NoStep
  <2>6. route' = <<s>> \o route /\ cursor' = m /\ pc' = "back"
    BY <1>1, <2>1, <2>3, <2>4, <2>5
  <2>7. route \in Seq([from : Nodes, edge : Edges])
    BY <1>3 DEF Retraced
  <2> DEFINE n == Len(route)
             t == <<s>> \o route
  <2>8. /\ n \in Nat /\ (route = <<>> <=> n = 0)
        /\ t \in Seq([from : Nodes, edge : Edges]) /\ Len(t) = n + 1 /\ t # <<>>
        /\ t[1] = s /\ \A i \in 1..n : t[i + 1] = route[i]
    BY <2>4, <2>7
  <2> HIDE DEF n, t
  <2>9. \E k \in Nat : Away(m, k) /\ Away(goal, k + (n + 1))
    <3>1. PICK k \in Nat : Away(cursor, k) /\ Away(goal, k + n)
      BY <1>3 DEF Retraced, n
    <3>2. k = d + 1
      BY <2>1, <3>1, AwayOnce
    <3>3. k + n = d + (n + 1)
      BY <2>8, <3>2
    <3> QED BY <2>1, <3>1, <3>3
  <2>10. ASSUME NEW i \in 1..(n + 1)
         PROVE  /\ t[i].edge \in Incident(t[i].from) /\ Resolved(t[i].edge)
                /\ OtherEnd(t[i].edge, t[i].from) = IF i = n + 1 THEN goal ELSE t[i + 1].from
    <3>1. CASE i = 1
      <4>1. OtherEnd(e, m) = IF 1 = n + 1 THEN goal ELSE t[2].from
        <5>1. CASE n = 0
          BY <1>3, <2>1, <2>8, <5>1 DEF Retraced
        <5>2. CASE n # 0
          <6>1. 1 \in 1..n /\ 1 + 1 = 2 /\ 1 # n + 1
            BY <2>8, <5>2
          <6>2. t[2] = route[1]
            BY <2>8, <6>1
          <6> QED BY <1>3, <2>1, <2>8, <5>2, <6>1, <6>2 DEF Retraced
        <5> QED BY <5>1, <5>2
      <4> QED BY <2>1, <2>4, <2>8, <3>1, <4>1
    <3>2. CASE i # 1
      <4>1. PICK j \in 1..n : i = j + 1
        <5>1. i - 1 \in 1..n /\ i = (i - 1) + 1
          BY <2>8, <3>2
        <5> QED BY <5>1
      <4>2. t[i] = route[j]
        BY <2>8, <4>1
      <4>3. /\ route[j].edge \in Incident(route[j].from) /\ Resolved(route[j].edge)
            /\ OtherEnd(route[j].edge, route[j].from) = IF j = n THEN goal ELSE route[j + 1].from
        BY <1>3 DEF Retraced, n
      <4>4. j # n => t[i + 1] = route[j + 1]
        BY <2>8, <4>1
      <4>5. i = n + 1 <=> j = n
        BY <2>8, <4>1
      <4> QED BY <4>2, <4>3, <4>4, <4>5
    <3> QED BY <3>1, <3>2
  <2>11. Retraced'
    <3>1. /\ route' = t /\ cursor' = m /\ goal' = goal /\ Reached' = Reached
      BY <1>1, <1>2, <2>6 DEF t
    <3>2. t[1].from = m
      BY <2>4, <2>8
    <3>3. (\E k \in Nat : Away(cursor, k) /\ Away(goal, k + Len(route)))'
      BY <1>2, <2>8, <2>9, <3>1
    <3>4. (\A i \in 1..Len(route) :
            /\ route[i].edge \in Incident(route[i].from) /\ Resolved(route[i].edge)
            /\ OtherEnd(route[i].edge, route[i].from)
                 = IF i = Len(route) THEN goal ELSE route[i + 1].from)'
      BY <1>2, <2>8, <2>10, <3>1
    <3> QED BY <2>1, <2>8, <3>1, <3>2, <3>3, <3>4 DEF Retraced
  <2> QED BY <1>1, <1>2, <1>3, <1>4, <2>6, <2>11 DEF PathInv
<1> QED BY <1>5, <1>6

\* Everything the invariant speaks of stays as it is.
LEMMA PathStands ==
    ASSUME PathInv,
           UNCHANGED <<graph, ask, goal, pc, level, depth_reached, current, next_level, rest, here,
                       todo, parent, seen_edges, unresolved, found, budget_exhausted, cursor, route>>
    PROVE  PathInv'
<1>1. /\ Ball' = Ball /\ (Typed' <=> Typed) /\ (Tree' <=> Tree) /\ Reached' = Reached
      /\ (\A n : Incident(n)' = Incident(n)) /\ (\A n, d : Away(n, d)' <=> Away(n, d))
      /\ (\A e : Resolved(e)' <=> Resolved(e)) /\ (\A e, n : OtherEnd(e, n)' = OtherEnd(e, n))
  BY PathFrame, TreeFrame, Frame
<1>2. Elems(rest)' = Elems(rest) /\ Elems(next_level)' = Elems(next_level)
  BY DEF Elems
<1>3. /\ Sweeping' <=> Sweeping
      /\ Edged' <=> Edged
      /\ Expanding' <=> Expanding
  BY <1>1, <1>2 DEF Sweeping, Waiting, Edged, Expanding
<1>4. Closed(Reached)' <=> Closed(Reached)
  BY <1>1 DEF Closed
<1>5. Missed' <=> Missed
  BY <1>1, <1>4 DEF Missed
<1>6. Retraced' <=> Retraced
  BY <1>1 DEF Retraced
<1>7. (\E d \in 0..ask.depth : Away(goal, d))' <=> \E d \in 0..ask.depth : Away(goal, d)
  BY <1>1
<1> QED BY <1>1, <1>3, <1>5, <1>6, <1>7 DEF PathInv

----------------------------------------------------------------------------
(* path: the answer. *)

\* The search, and what its envelope says once it is being packed.
PathCallInv ==
    operation = "path" =>
        /\ pc \notin Q!Packing => PathInv
        /\ pc \in Q!Packing =>
            (document.items["nodes"] = <<>> /\ ~document.truncated => Q!P!NoPath)

LEMMA PathSteps ==
    ASSUME AnswerHypotheses, PathInv, Q!P!Next
    PROVE  PathInv'
BY PathExpands, PathLooks, PathExpanded, PathLevels, PathAnswers, PathGoesBack DEF Q!P!Next

\* What is proven absent is absent: the nodes that were reached are a witness of it.
LEMMA AbsenceIsProven ==
    ASSUME PathInv, pc = "answered", Q!P!ProvenAbsent
    PROVE  Q!P!NoPath
<1>1. /\ ~found /\ ~budget_exhausted /\ Q!P!RelevantUnresolved = {}
      /\ ~(current # <<>> /\ depth_reached >= ask.depth)
  BY DEF Q!P!ProvenAbsent, Q!P!DepthLimited
<1>2. Missed /\ Typed
  BY <1>1 DEF PathInv
<1>3. /\ ask.root \in Reached /\ goal \notin Reached /\ Reached \subseteq Nodes /\ Closed(Reached)
      /\ \A n \in Reached : Incident(n) \subseteq seen_edges
      /\ unresolved = {e \in seen_edges : ~Resolved(e)}
  BY <1>1, <1>2 DEF Missed
<1>4. /\ unresolved = {}
      /\ \A e \in Edges : ~Resolved(e) => facts.names[e] \notin Reached
  BY <1>1, PathNames DEF Q!P!RelevantUnresolved, Q!P!visited, Reached
<1>5. \A n \in Reached : \A e \in Edges :
        ~Resolved(e) => facts.names[e] # n /\ e \notin Incident(n)
  BY <1>3, <1>4
<1> QED BY <1>3, <1>5, PathNames DEF Q!P!NoPath

LEMMA CopiesAre ==
    ASSUME NEW n \in Nat, NEW size
    PROVE  Q!Copies(n, size) = <<>> <=> n = 0
<1>1. Len(Q!Copies(n, size)) = n
  BY DEF Q!Copies
<1>2. Q!Copies(n, size) \in Seq({size})
  BY DEF Q!Copies
<1> QED BY <1>1, <1>2

LEMMA PathIsEnveloped ==
    ASSUME PathInv, operation = "path", pc = "answered", NEW c, Q!Start(Q!PathEnvelope, c),
           UNCHANGED <<operation, graph, ask, goal, facts>>
    PROVE  PathCallInv'
<1>1. document' = Q!PathEnvelope /\ pc' = "measure"
  BY DEF Q!Start
<1>2. Q!P!NoPath' <=> Q!P!NoPath
  BY DEF Q!P!NoPath, Q!P!Closed, Q!P!Incident, Q!P!Resolved, Q!P!OtherEnd
<1>3. ASSUME Q!PathEnvelope.items["nodes"] = <<>>, ~Q!PathEnvelope.truncated
      PROVE  Q!P!NoPath
  <2> DEFINE n == IF found THEN Len(route) + 1 ELSE 0
  <2>1. Q!PathEnvelope.items["nodes"] = Q!Copies(n, Size["node"])
        /\ Q!PathEnvelope.truncated = Q!PathFlag
    BY DEF Q!PathEnvelope, Q!EnvelopeOf, Q!Collections
  <2>2. n \in Nat /\ (n = 0 <=> ~found)
    <3>1. found => Len(route) \in Nat
      BY DEF PathInv, Retraced
    <3> QED BY <3>1
  <2>3. ~found
    <3> HIDE DEF n
    <3> QED BY <1>3, <2>1, <2>2, CopiesAre
  <2>4. Q!P!ProvenAbsent
    BY <1>3, <2>1, <2>3 DEF Q!PathFlag
  <2> QED BY <2>4, AbsenceIsProven
<1> QED BY <1>1, <1>2, <1>3 DEF PathCallInv, Q!Packing

LEMMA PathCallStarts ==
    ASSUME AnswerHypotheses, Q!QueryInit
    PROVE  PathCallInv
<1>1. CASE operation = "path" /\ Q!P!Init
  <2>1. pc \notin Q!Packing
    BY <1>1 DEF Q!P!Init, Q!Packing
  <2> QED BY <1>1, <2>1, PathBegins DEF PathCallInv
<1> QED BY <1>1 DEF Q!QueryInit, PathCallInv

LEMMA PathCallGoesOn ==
    ASSUME AnswerHypotheses, AnswerInv, PathCallInv, [Q!QueryNext]_(Q!queryVars)
    PROVE  PathCallInv'
<1>1. CASE Q!PathStep
  <2>1. operation = "path" /\ operation' = operation /\ Q!P!Next
    BY <1>1 DEF Q!PathStep
  <2>2. pc \notin Q!Packing /\ pc' \notin Q!Packing
    BY <2>1, PathGoesOn DEF AnswerInv
  <2> QED BY <2>1, <2>2, PathSteps DEF PathCallInv
<1>2. CASE Q!SearchStep
  BY <1>2 DEF Q!SearchStep, PathCallInv
<1>3. CASE Q!Envelope
  <2>1. PICK c \in AnswerCaps :
          \/ operation = "path" /\ pc = "answered" /\ Q!Start(Q!PathEnvelope, c)
          \/ operation = "search" /\ pc = "listed" /\ Q!Start(Q!SearchEnvelope, c)
    BY <1>3 DEF Q!Envelope
  <2>2. UNCHANGED <<operation, graph, ask, goal, facts>>
    BY <1>3 DEF Q!Envelope, Q!pathOnly
  <2>3. CASE operation = "path" /\ pc = "answered" /\ Q!Start(Q!PathEnvelope, c)
    BY <2>2, <2>3, PathIsEnveloped DEF PathCallInv, Q!Packing
  <2>4. CASE operation = "search"
    BY <2>2, <2>4 DEF PathCallInv
  <2> QED BY <2>1, <2>3, <2>4
<1>4. CASE Q!Pack
  <2>1. UNCHANGED <<operation, graph, ask, goal, facts>> /\ Q!Next
    BY <1>4 DEF Q!Pack, Q!pathOnly
  <2>2. pc \in Q!Packing /\ pc' \in Q!Packing /\ document' = document
    BY <2>1 DEF Q!Next, Q!Measure, Q!Skip, Q!Open, Q!Probe, Q!Settle, Q!Finish, Q!Packing
  <2>3. Q!P!NoPath' <=> Q!P!NoPath
    BY <2>1 DEF Q!P!NoPath, Q!P!Closed, Q!P!Incident, Q!P!Resolved, Q!P!OtherEnd
  <2> QED BY <2>1, <2>2, <2>3 DEF PathCallInv
<1>5. CASE UNCHANGED Q!queryVars
  <2>1. UNCHANGED <<operation, document, graph, ask, goal, facts, pc, level, depth_reached, current,
                    next_level, rest, here, todo, parent, seen_edges, unresolved, found,
                    budget_exhausted, cursor, route>>
    BY <1>5 DEF Q!queryVars, Q!pathOnly, Q!packOnly
  <2>2. Q!P!NoPath' <=> Q!P!NoPath
    BY <2>1 DEF Q!P!NoPath, Q!P!Closed, Q!P!Incident, Q!P!Resolved, Q!P!OtherEnd
  <2>3. PathInv => PathInv'
    BY <2>1, PathStands
  <2> QED BY <2>1, <2>2, <2>3 DEF PathCallInv
<1> QED BY <1>1, <1>2, <1>3, <1>4, <1>5 DEF Q!QueryNext

\* What PathInv says of an answer.
LEMMA PathIsShortest ==
    ASSUME PathInv, pc = "answered"
    PROVE  Q!RouteIsShortest
<1>1. Typed /\ ask.depth \in Nat /\ goal \in Nodes
  BY DEF PathInv, Typed, AskType
<1>2. CASE found
  <2>1. Retraced /\ cursor = ask.root /\ \E d \in 0..ask.depth : Away(goal, d)
    BY <1>2 DEF PathInv
  <2>2. Len(route) \in Nat /\ (route = <<>> <=> Len(route) = 0)
    BY <2>1 DEF Retraced
  <2>3. Away(goal, Len(route))
    <3>1. PICK d \in Nat : Away(cursor, d) /\ Away(goal, d + Len(route))
      BY <2>1 DEF Retraced
    <3>2. d = 0
      BY <1>1, <2>1, <3>1, RootAway
    <3> QED BY <2>2, <3>1, <3>2
  <2>4. Len(route) <= ask.depth
    <3>1. PICK d \in 0..ask.depth : Away(goal, d)
      BY <2>1
    <3>2. d \in Nat /\ d <= ask.depth
      BY <1>1
    <3> QED BY <2>2, <2>3, <3>1, <3>2, AwayOnce
  <2>5. goal \in Ball[Len(route)] /\ (route # <<>> => goal \notin Ball[Len(route) - 1])
    BY <2>2, <2>3 DEF Away
  <2>6. Q!RouteIsReal
    <3>1. route = <<>> <=> ask.root = goal
      BY <1>1, <2>2, <2>3, RootAway, BallIs DEF Away
    <3> QED BY <2>1, <3>1, PathNames DEF Q!RouteIsReal, Retraced
  <2> QED BY <1>2, <2>4, <2>5, <2>6, PathNames DEF Q!RouteIsShortest
<1>3. CASE ~found
  BY <1>3, PathNames DEF Q!RouteIsShortest, Q!RouteIsReal, PathInv, Missed
<1> QED BY <1>2, <1>3

----------------------------------------------------------------------------
(* search: the list and its envelope. *)

\* The matches of the index, of whatever kind.
IndexMatches == {n \in Symbols : scope.match[n] \in Q!S!Indexed}

\* Neither the cap of the scan nor the index can keep a match out of the list.
Roomy ==
    /\ Cardinality(scope.kind) <= ask.max_nodes
    /\ Cardinality(IndexMatches) < Q!S!allowance

SearchInv ==
    /\ scope \in Q!S!ScopeType /\ ask \in Q!S!AskType
    /\ pc \in {"index", "scan", "listed"}
    /\ pc = "index" => ranked = {} /\ scanned = 0 /\ unscanned = Symbols
    /\ pc = "scan" =>
        /\ unscanned \subseteq Symbols
        /\ scanned = Cardinality(scope.kind \ unscanned)
        /\ ranked = IndexMatches \cup {n \in scope.kind \ unscanned :
                                          scope.match[n] # Q!S!NoMatch}
    /\ pc = "listed" /\ Roomy => Q!S!candidates = Q!S!Matching

\* What its envelope says of the list, once it is being packed.
ListInv ==
    /\ scope \in Q!S!ScopeType /\ Q!S!allowance \in Nat
    /\ Roomy => Q!S!candidates = Q!S!Matching
    /\ Len(document.items["nodes"]) = Cardinality(Q!S!Answer)
    /\ ~document.truncated => Cardinality(Q!S!candidates) <= Q!S!allowance

SearchCallInv ==
    operation = "search" =>
        /\ pc \notin Q!Packing => SearchInv
        /\ pc \in Q!Packing => ListInv

LEMMA SymbolsAreFinite ==
    ASSUME AnswerHypotheses, NEW T \in SUBSET Symbols
    PROVE  IsFiniteSet(T) /\ Cardinality(T) \in Nat /\ Symbols \subseteq Nat
<1>1. IsFiniteSet(Symbols) /\ Symbols \subseteq Nat
  BY SameNotions DEF AnswerHypotheses, Q!AnswerParameters, Q!S!Parameters
<1> QED BY <1>1, FS_Subset, FS_CardinalityType

LEMMA SearchSteps ==
    ASSUME AnswerHypotheses, SearchInv, Q!S!Next
    PROVE  SearchInv'
<1>1. scope \in Q!S!ScopeType /\ ask \in Q!S!AskType /\ scope.kind \subseteq Symbols
      /\ \A n \in Symbols : scope.match[n] \in 0..7
  BY DEF SearchInv, Q!S!ScopeType, Q!S!Indexed, Q!S!Weaker, Q!S!NoMatch
<1>2. scope' = scope /\ ask' = ask
  BY DEF Q!S!Next, Q!S!LookUp, Q!S!Scan, Q!S!ScanEnds
<1>3. /\ IndexMatches' = IndexMatches /\ (Roomy' <=> Roomy) /\ Q!S!Matching' = Q!S!Matching
  BY <1>2 DEF IndexMatches, Roomy, Q!S!allowance, Q!S!Matching
<1>4. CASE Q!S!LookUp
  <2>1. /\ pc = "index" /\ ranked' = IndexMatches /\ scanned' = scanned /\ unscanned' = unscanned
        /\ pc' = IF Cardinality(IndexMatches) < Q!S!allowance THEN "scan" ELSE "listed"
    BY <1>4, SameNotions DEF Q!S!LookUp, IndexMatches
  <2>2. scanned = 0 /\ unscanned = Symbols
    BY <2>1 DEF SearchInv
  <2>3. scope.kind \ Symbols = {} /\ Cardinality({}) = 0
    BY <1>1, FS_EmptySet
  <2>4. {n \in scope.kind \ Symbols : scope.match[n] # Q!S!NoMatch} = {}
    BY <2>3
  <2>5. pc' = "listed" => ~Roomy
    BY <2>1 DEF Roomy
  <2> QED BY <1>1, <1>2, <1>3, <2>1, <2>2, <2>3, <2>4, <2>5 DEF SearchInv
<1>5. ASSUME NEW n \in Symbols, Q!S!Scan(n) PROVE SearchInv'
  <2>1. /\ pc = "scan" /\ pc' = "scan" /\ n \in unscanned /\ unscanned' = unscanned \ {n}
        /\ \/ n \notin scope.kind /\ scanned' = scanned /\ ranked' = ranked
           \/ /\ n \in scope.kind /\ scanned' = scanned + 1
              /\ ranked' = IF scope.match[n] # Q!S!NoMatch THEN ranked \cup {n} ELSE ranked
    BY <1>5 DEF Q!S!Scan
  <2>2. /\ unscanned \subseteq Symbols /\ scanned = Cardinality(scope.kind \ unscanned)
        /\ ranked = IndexMatches \cup {m \in scope.kind \ unscanned :
                                          scope.match[m] # Q!S!NoMatch}
    BY <2>1 DEF SearchInv
  <2>3. n \notin scope.kind => scope.kind \ unscanned' = scope.kind \ unscanned
    BY <2>1
  <2>4. n \in scope.kind => /\ scope.kind \ unscanned' = (scope.kind \ unscanned) \cup {n}
                            /\ n \notin scope.kind \ unscanned
    BY <2>1
  <2>5. IsFiniteSet(scope.kind \ unscanned)
    BY <1>1, SymbolsAreFinite
  <2>6. scanned' = Cardinality(scope.kind \ unscanned')
    BY <2>1, <2>2, <2>3, <2>4, <2>5, FS_AddElement
  <2>7. ranked' = IndexMatches \cup {m \in scope.kind \ unscanned' : scope.match[m] # Q!S!NoMatch}
    <3>1. CASE n \notin scope.kind
      BY <2>1, <2>2, <2>3, <3>1
    <3>2. CASE n \in scope.kind
      <4>1. {m \in scope.kind \ unscanned' : scope.match[m] # Q!S!NoMatch}
              = {m \in scope.kind \ unscanned : scope.match[m] # Q!S!NoMatch}
                  \cup (IF scope.match[n] # Q!S!NoMatch THEN {n} ELSE {})
        BY <2>4, <3>2
      <4> QED BY <2>1, <2>2, <3>2, <4>1
    <3> QED BY <3>1, <3>2
  <2> QED BY <1>1, <1>2, <1>3, <2>1, <2>2, <2>6, <2>7 DEF SearchInv
<1>6. CASE Q!S!ScanEnds
  <2>1. /\ pc = "scan" /\ pc' = "listed" /\ ranked' = ranked
        /\ scanned >= ask.max_nodes \/ unscanned = {}
    BY <1>6 DEF Q!S!ScanEnds, Q!S!Ceiling
  <2>2. /\ unscanned \subseteq Symbols /\ scanned = Cardinality(scope.kind \ unscanned)
        /\ ranked = IndexMatches \cup {m \in scope.kind \ unscanned :
                                          scope.match[m] # Q!S!NoMatch}
    BY <2>1 DEF SearchInv
  <2>3. ASSUME Roomy PROVE scope.kind \ unscanned = scope.kind
    <3>1. CASE unscanned = {}
      BY <3>1
    <3>2. CASE scanned >= ask.max_nodes
      <4>1. /\ IsFiniteSet(scope.kind) /\ Cardinality(scope.kind) \in Nat
            /\ Cardinality(scope.kind \ unscanned) \in Nat /\ ask.max_nodes \in Nat
        BY <1>1, SymbolsAreFinite DEF Q!S!AskType
      <4>2. Cardinality(scope.kind \ unscanned) >= Cardinality(scope.kind)
        BY <2>2, <2>3, <3>2, <4>1 DEF Roomy
      <4>3. /\ Cardinality(scope.kind \ unscanned) <= Cardinality(scope.kind)
            /\ Cardinality(scope.kind) = Cardinality(scope.kind \ unscanned)
                => scope.kind = scope.kind \ unscanned
        BY <4>1, FS_Subset
      <4> QED BY <4>1, <4>2, <4>3
    <3> QED BY <2>1, <3>1, <3>2
  <2>4. ASSUME Roomy PROVE Q!S!candidates = Q!S!Matching
    <3>1. ranked = IndexMatches \cup {m \in scope.kind : scope.match[m] # Q!S!NoMatch}
      BY <2>2, <2>3, <2>4
    <3>2. \A n \in IndexMatches : scope.match[n] # Q!S!NoMatch
      BY DEF IndexMatches, Q!S!Indexed, Q!S!NoMatch
    <3> QED BY <3>1, <3>2 DEF Q!S!candidates, Q!S!Matching
  <2>5. Q!S!candidates' = Q!S!candidates
    BY <1>2, <2>1 DEF Q!S!candidates
  <2> QED BY <1>1, <1>2, <1>3, <2>1, <2>4, <2>5 DEF SearchInv
<1> QED BY <1>4, <1>5, <1>6 DEF Q!S!Next

\* Fewer come before a member of a list than are in it.
LEMMA Ranks ==
    ASSUME AnswerHypotheses, scope \in Q!S!ScopeType, NEW T \in SUBSET Symbols, NEW n \in T
    PROVE  Cardinality({m \in T : Q!S!Before(m, n)}) < Cardinality(T)
<1>1. ~Q!S!Before(n, n)
  <2>1. n \in Nat /\ scope.match[n] \in Nat
    BY SymbolsAreFinite DEF Q!S!ScopeType, Q!S!Indexed, Q!S!Weaker, Q!S!NoMatch
  <2> QED BY <2>1 DEF Q!S!Before
<1>2. {m \in T : Q!S!Before(m, n)} \subseteq T \ {n}
  BY <1>1
<1>3. IsFiniteSet(T) /\ Cardinality(T) \in Nat /\ IsFiniteSet(T \ {n})
      /\ Cardinality(T \ {n}) = Cardinality(T) - 1
  BY SymbolsAreFinite, FS_RemoveElement
<1>4. Cardinality({m \in T : Q!S!Before(m, n)}) <= Cardinality(T \ {n})
  BY <1>2, <1>3, FS_Subset
<1>5. Cardinality({m \in T : Q!S!Before(m, n)}) \in Nat
  BY SymbolsAreFinite
<1> QED BY <1>3, <1>4, <1>5

LEMMA SearchIsEnveloped ==
    ASSUME AnswerHypotheses, SearchInv, operation = "search", pc = "listed", NEW c,
           Q!Start(Q!SearchEnvelope, c), UNCHANGED <<operation, ask, scope, ranked>>
    PROVE  SearchCallInv'
<1>1. document' = Q!SearchEnvelope /\ pc' = "measure"
  BY DEF Q!Start
<1>2. /\ scope \in Q!S!ScopeType /\ (Roomy => Q!S!candidates = Q!S!Matching)
      /\ Q!S!allowance \in Nat
  BY DEF SearchInv, Q!S!AskType, Q!S!allowance
<1>3. /\ Q!S!candidates' = Q!S!candidates /\ Q!S!Answer' = Q!S!Answer
      /\ Q!S!Matching' = Q!S!Matching /\ Q!S!allowance' = Q!S!allowance
      /\ (Roomy' <=> Roomy)
  BY DEF Q!S!candidates, Q!S!Answer, Q!S!Matching, Q!S!allowance, Q!S!Before, Roomy, IndexMatches
<1>4. Q!SearchEnvelope.items["nodes"] = Q!Copies(Cardinality(Q!S!Answer), Size["node"])
      /\ Q!SearchEnvelope.truncated = Q!S!truncated
  BY SameNotions DEF Q!SearchEnvelope, Q!EnvelopeOf, Q!Collections
<1>5. Len(Q!SearchEnvelope.items["nodes"]) = Cardinality(Q!S!Answer)
  <2>1. Q!S!Answer \subseteq Symbols
    BY <1>2 DEF Q!S!Answer, Q!S!candidates, Q!S!ScopeType
  <2>2. PICK n \in Nat : n = Cardinality(Q!S!Answer)
    BY <2>1, SymbolsAreFinite
  <2>3. Len(Q!Copies(n, Size["node"])) = n
    BY DEF Q!Copies
  <2> QED BY <1>4, <2>2, <2>3
<1>6. ~Q!SearchEnvelope.truncated => Cardinality(Q!S!candidates) <= Q!S!allowance
  <2>1. Cardinality(Q!S!candidates) \in Nat /\ Q!S!allowance \in Nat
    <3>1. Q!S!candidates \subseteq Symbols
      BY <1>2 DEF Q!S!candidates, Q!S!ScopeType
    <3>2. ask.limit \in Nat /\ ask.max_nodes \in Nat
      BY DEF SearchInv, Q!S!AskType
    <3> QED BY <3>1, <3>2, SymbolsAreFinite DEF Q!S!allowance
  <2>2. Q!S!Cardinality(Q!S!candidates) = Cardinality(Q!S!candidates)
    BY SameNotions
  <2>3. Q!S!truncated = (Cardinality(Q!S!candidates) > Q!S!allowance)
    BY <2>2 DEF Q!S!truncated
  <2>4. Q!SearchEnvelope.truncated = (Cardinality(Q!S!candidates) > Q!S!allowance)
    BY <1>4, <2>3, Zenon
  <2>5. PICK a \in Nat, b \in Nat : a = Cardinality(Q!S!candidates) /\ b = Q!S!allowance
    BY <2>1
  <2>6. Q!SearchEnvelope.truncated = (a > b)
    BY <2>4, <2>5
  <2>7. ~(a > b) => a <= b
    BY <2>5
  <2> QED BY <2>5, <2>6, <2>7
<1>7. ListInv'
  BY <1>1, <1>2, <1>3, <1>5, <1>6 DEF ListInv
<1> QED BY <1>1, <1>7 DEF SearchCallInv, Q!Packing

LEMMA SearchCallStarts ==
    ASSUME AnswerHypotheses, Q!QueryInit
    PROVE  SearchCallInv
<1>1. CASE operation = "search" /\ Q!S!Init
  <2>1. Scopes \subseteq Q!S!ScopeType /\ Searches \subseteq Q!S!AskType
    BY DEF AnswerHypotheses, Q!AnswerParameters, Q!S!Parameters
  <2>2. SearchInv /\ pc \notin Q!Packing
    BY <1>1, <2>1 DEF Q!S!Init, SearchInv, Q!Packing
  <2> QED BY <2>2 DEF SearchCallInv
<1> QED BY <1>1 DEF Q!QueryInit, SearchCallInv

LEMMA SearchCallGoesOn ==
    ASSUME AnswerHypotheses, AnswerInv, SearchCallInv, [Q!QueryNext]_(Q!queryVars)
    PROVE  SearchCallInv'
\* A step that leaves the list alone.
<1>1. ASSUME UNCHANGED <<operation, ask, scope, ranked, document>>
      PROVE  ListInv' <=> ListInv
  <2>1. /\ Q!S!candidates' = Q!S!candidates /\ Q!S!Answer' = Q!S!Answer
        /\ Q!S!Matching' = Q!S!Matching /\ Q!S!allowance' = Q!S!allowance
        /\ (Roomy' <=> Roomy)
    BY <1>1 DEF Q!S!candidates, Q!S!Answer, Q!S!Matching, Q!S!allowance, Q!S!Before, Roomy,
       IndexMatches
  <2> QED BY <1>1, <2>1 DEF ListInv
<1>2. CASE Q!PathStep
  BY <1>2 DEF Q!PathStep, SearchCallInv
<1>3. CASE Q!SearchStep
  <2>1. operation = "search" /\ operation' = operation /\ Q!S!Next
    BY <1>3 DEF Q!SearchStep
  <2>2. pc \notin Q!Packing /\ pc' \notin Q!Packing
    BY <2>1, SearchGoesOn DEF AnswerInv
  <2> QED BY <2>1, <2>2, SearchSteps DEF SearchCallInv
<1>4. CASE Q!Envelope
  <2>1. PICK c \in AnswerCaps :
          \/ operation = "path" /\ pc = "answered" /\ Q!Start(Q!PathEnvelope, c)
          \/ operation = "search" /\ pc = "listed" /\ Q!Start(Q!SearchEnvelope, c)
    BY <1>4 DEF Q!Envelope
  <2>2. UNCHANGED <<operation, ask, scope, ranked>>
    BY <1>4 DEF Q!Envelope, Q!searchOnly
  <2>3. CASE operation = "search" /\ pc = "listed" /\ Q!Start(Q!SearchEnvelope, c)
    BY <2>2, <2>3, SearchIsEnveloped DEF SearchCallInv, Q!Packing
  <2>4. CASE operation = "path"
    BY <2>2, <2>4 DEF SearchCallInv
  <2> QED BY <2>1, <2>3, <2>4
<1>5. CASE Q!Pack
  <2>1. UNCHANGED <<operation, ask, scope, ranked>> /\ Q!Next
    BY <1>5 DEF Q!Pack, Q!searchOnly
  <2>2. pc \in Q!Packing /\ pc' \in Q!Packing /\ document' = document
    BY <2>1 DEF Q!Next, Q!Measure, Q!Skip, Q!Open, Q!Probe, Q!Settle, Q!Finish, Q!Packing
  <2> QED BY <1>1, <2>1, <2>2 DEF SearchCallInv
<1>6. CASE UNCHANGED Q!queryVars
  <2>1. UNCHANGED <<operation, ask, scope, ranked, scanned, unscanned, pc, document>>
    BY <1>6 DEF Q!queryVars, Q!searchOnly, Q!packOnly
  <2>2. SearchInv' <=> SearchInv
    BY <2>1 DEF SearchInv, Roomy, IndexMatches, Q!S!candidates, Q!S!Matching, Q!S!allowance
  <2> QED BY <1>1, <2>1, <2>2 DEF SearchCallInv
<1> QED BY <1>2, <1>3, <1>4, <1>5, <1>6 DEF Q!QueryNext

----------------------------------------------------------------------------
(* The answer that says nothing of a loss. *)

\* What is being packed, and what it became, are documents; only what was there is dropped.
DocInv ==
    pc \in Q!Packing =>
        document \in Q!Document /\ packed \in Q!Document /\ dropped \in [Q!Collections -> Nat]

LEMMA TextsKeepType ==
    ASSUME AnswerHypotheses, packed \in Q!Document
    PROVE  Q!WithTexts \in Q!Document
<1>1. Q!Told \in Seq(Nat)
  BY DEF Q!Told, AnswerHypotheses, Q!BudgetParameters, Q!Texts
<1>2. Q!Flagged \in Q!Document
  BY DEF Q!Flagged, Q!Document
<1>3. [Q!Flagged EXCEPT !.items["warnings"] = @ \o Q!Told] \in Q!Document
  <2>1. PICK d \in Q!Document : d = Q!Flagged
    BY <1>2
  <2>2. "warnings" \in Q!Collections /\ d.items["warnings"] \o Q!Told \in Seq(Nat)
    BY <1>1, DocumentType DEF Q!Collections
  <2>3. PICK w \in Seq(Nat) : w = d.items["warnings"] \o Q!Told
    BY <2>2
  <2>4. [d.items EXCEPT !["warnings"] = w] \in [Q!Collections -> Seq(Nat)]
    BY DocumentType
  <2>5. [d EXCEPT !.items["warnings"] = w] \in Q!Document
    BY <2>4 DEF Q!Document
  <2> QED BY <2>1, <2>3, <2>5
<1> QED BY <1>2, <1>3 DEF Q!WithTexts

LEMMA DocStarts ==
    ASSUME AnswerHypotheses, Q!QueryInit
    PROVE  DocInv
BY DEF Q!QueryInit, Q!Init, Q!P!Init, Q!S!Init, DocInv, Q!Packing, AnswerHypotheses,
   Q!BudgetParameters

LEMMA DocGoesOn ==
    ASSUME AnswerHypotheses, AnswerInv, AnswerInv', DocInv, [Q!QueryNext]_(Q!queryVars)
    PROVE  DocInv'
<1>1. pc' \in Working => DocInv'
  BY DEF AnswerInv, PackInv, PackType, DocInv
<1>2. CASE Q!PathStep \/ Q!SearchStep
  <2>1. pc' \notin Q!Packing
    BY <1>2, PathGoesOn, SearchGoesOn DEF AnswerInv, Q!PathStep, Q!SearchStep
  <2> QED BY <2>1 DEF DocInv
<1>3. CASE Q!Envelope
  <2>1. pc' = "measure"
    BY <1>3 DEF Q!Envelope, Q!Start
  <2> QED BY <1>1, <2>1 DEF Working
<1>4. CASE Q!Pack
  <2>1. CASE Q!Measure \/ Q!Skip \/ Q!Open \/ Q!Probe
    BY <2>1 DEF Q!Measure, Q!Skip, Q!Open, Q!Probe, DocInv, Q!Packing
  <2>2. CASE Q!Settle
    BY <1>1, <2>2 DEF Q!Settle, Working
  <2>3. CASE Q!Finish
    BY <2>3, TextsKeepType DEF Q!Finish, DocInv, Q!Packing
  <2> QED BY <1>4, <2>1, <2>2, <2>3 DEF Q!Pack, Q!Next
<1>5. CASE UNCHANGED Q!queryVars
  BY <1>5 DEF Q!queryVars, Q!packOnly, DocInv
<1> QED BY <1>2, <1>3, <1>4, <1>5 DEF Q!QueryNext

\* What was packed and is not marked is what was to be packed.
LEMMA NothingLost ==
    ASSUME AnswerInv, DocInv, pc = "packed", ~packed.truncated
    PROVE  ~document.truncated /\ Len(packed.items["nodes"]) = Len(document.items["nodes"])
<1>1. Q!LossIsTold
  BY PackInvShows DEF AnswerInv, Q!PackedIsBest
<1>2. /\ ~document.truncated /\ Q!Trimmed = {} /\ "nodes" \in Q!Collections
      /\ dropped["nodes"] = Len(document.items["nodes"]) - Len(packed.items["nodes"])
      /\ packed.items["nodes"] = SubSeq(document.items["nodes"], 1, Len(packed.items["nodes"]))
  BY <1>1 DEF Q!LossIsTold, Q!Collections
<1>3. ~(dropped["nodes"] > 0)
  BY <1>2 DEF Q!Trimmed
<1>4. /\ document.items["nodes"] \in Seq(Nat) /\ packed.items["nodes"] \in Seq(Nat)
      /\ document \in Q!Document
  BY <1>2 DEF DocInv, Q!Packing, Q!Document
<1>5. PICK s \in Seq(Nat), t \in Seq(Nat) :
        s = document.items["nodes"] /\ t = packed.items["nodes"]
  BY <1>4
<1>6. dropped["nodes"] \in Nat /\ Len(s) \in Nat /\ Len(t) \in Nat
      /\ dropped["nodes"] = Len(s) - Len(t)
  <2>1. dropped["nodes"] \in Nat
    BY <1>2 DEF DocInv, Q!Packing
  <2>2. Len(s) \in Nat /\ Len(t) \in Nat
    BY <1>5
  <2>3. dropped["nodes"] = Len(s) - Len(t)
    BY <1>2, <1>5, Zenon
  <2> QED BY <2>1, <2>2, <2>3
<1>7. Len(s) = Len(t)
  BY <1>3, <1>6
<1> QED BY <1>2, <1>5, <1>7

LEMMA AbsenceIsShown ==
    ASSUME AnswerInv, DocInv, PathCallInv
    PROVE  Q!SilentAbsenceIsTrue
<1> SUFFICES ASSUME operation = "path", pc = "packed", packed.items["nodes"] = <<>>,
                    ~packed.truncated
             PROVE  Q!P!NoPath
  BY DEF Q!SilentAbsenceIsTrue
<1>1. ~document.truncated /\ Len(document.items["nodes"]) = Len(packed.items["nodes"])
  BY NothingLost
<1>2. document.items["nodes"] \in Seq(Nat)
  BY DEF DocInv, Q!Packing, Q!Document, Q!Collections
<1>3. PICK s \in Seq(Nat) : s = document.items["nodes"]
  BY <1>2
<1>4. Len(s) = 0
  BY <1>1, <1>3
<1>5. s = <<>>
  BY <1>4
<1> QED BY <1>1, <1>3, <1>5 DEF PathCallInv, Q!Packing

\* A list that is no longer than the answer may be is answered whole, and kept whole.
LEMMA ListIsWhole ==
    ASSUME AnswerHypotheses, AnswerInv, DocInv, SearchCallInv
    PROVE  Q!UnmarkedIsWhole
<1> SUFFICES ASSUME operation = "search", pc = "packed", ~packed.truncated,
                    Q!Cardinality(scope.kind) <= ask.max_nodes,
                    Q!Cardinality({n \in Symbols : scope.match[n] \in Q!S!Indexed})
                        < Q!S!allowance
             PROVE  Q!Kept = Q!S!Matching
  BY DEF Q!UnmarkedIsWhole
<1>1. Q!Cardinality(scope.kind) = Cardinality(scope.kind)
      /\ Q!Cardinality(IndexMatches) = Cardinality(IndexMatches)
  BY SameNotions
<1>2. Roomy
  BY <1>1 DEF Roomy, IndexMatches
<1>3. /\ scope \in Q!S!ScopeType /\ Q!S!candidates = Q!S!Matching
      /\ Len(packed.items["nodes"]) = Cardinality(Q!S!Answer)
      /\ Cardinality(Q!S!candidates) <= Q!S!allowance
  BY <1>2, NothingLost DEF SearchCallInv, ListInv, Q!Packing
<1>4. Q!S!candidates \subseteq Symbols
  BY <1>3 DEF Q!S!candidates, Q!S!ScopeType
<1>5. Cardinality(Q!S!candidates) \in Nat
  BY <1>4, SymbolsAreFinite
<1>6. Q!S!allowance \in Nat
  BY DEF SearchCallInv, ListInv, Q!Packing
<1>7. Q!S!Answer = Q!S!candidates
  <2>1. ASSUME NEW n \in Q!S!candidates
        PROVE  Q!S!Cardinality({m \in Q!S!candidates : Q!S!Before(m, n)}) < Q!S!allowance
    <3>1. Cardinality({m \in Q!S!candidates : Q!S!Before(m, n)}) < Cardinality(Q!S!candidates)
      BY <1>3, <1>4, Ranks
    <3>2. Cardinality({m \in Q!S!candidates : Q!S!Before(m, n)}) \in Nat
      BY <1>4, SymbolsAreFinite
    <3>3. Cardinality({m \in Q!S!candidates : Q!S!Before(m, n)}) < Q!S!allowance
      BY <1>3, <1>5, <1>6, <3>1, <3>2
    <3> QED BY <3>3, SameNotions
  <2> QED BY <2>1 DEF Q!S!Answer
<1>8. Q!Kept = Q!S!Answer
  <2>1. ASSUME NEW n \in Q!S!Answer
        PROVE  Q!Cardinality({m \in Q!S!Answer : Q!S!Before(m, n)})
                 < Len(packed.items["nodes"])
    <3>1. Cardinality({m \in Q!S!Answer : Q!S!Before(m, n)}) < Cardinality(Q!S!Answer)
      BY <1>3, <1>4, <1>7, Ranks
    <3> QED BY <1>3, <3>1, SameNotions
  <2> QED BY <2>1 DEF Q!Kept
<1> QED BY <1>3, <1>7, <1>8

\* What the steps of an answer preserve, of either operation.
SilenceInv == AnswerInv /\ DocInv /\ PathCallInv /\ SearchCallInv

LEMMA SilenceStarts ==
    ASSUME AnswerHypotheses, Q!QueryInit
    PROVE  SilenceInv
BY AnswerStarts, DocStarts, PathCallStarts, SearchCallStarts DEF SilenceInv

LEMMA SilenceGoesOn ==
    ASSUME AnswerHypotheses, SilenceInv, [Q!QueryNext]_(Q!queryVars)
    PROVE  SilenceInv'
BY AnswerGoesOn, DocGoesOn, PathCallGoesOn, SearchCallGoesOn DEF SilenceInv

\* query/path.py: a path that is found is a path and a shortest one, and a search that no
\* budget stopped finds one whenever there is one within the depth.
THEOREM RoutesAreShortest == AnswerSpec => []RouteIsShortest
<1>1. AnswerInit => SilenceInv
  BY HypothesesHold, SilenceStarts DEF AnswerInit
<1>2. SilenceInv /\ [AnswerNext]_answerVars => SilenceInv'
  BY HypothesesHold, AnswerIsQuery, SilenceGoesOn
<1>3. SilenceInv => RouteIsShortest
  <2> SUFFICES ASSUME SilenceInv, pc = "answered" PROVE Q!RouteIsShortest
    BY DEF RouteIsShortest, Q!RouteIsShortest
  <2>1. pc \notin Q!Packing
    BY DEF Q!Packing
  <2>2. operation = "path"
    BY <2>1 DEF SilenceInv, AnswerInv, EngineInv, SearchCallInv, SearchInv
  <2>3. PathInv
    BY <2>1, <2>2 DEF SilenceInv, PathCallInv
  <2> QED BY <2>3, PathIsShortest
<1> QED BY <1>1, <1>2, <1>3, PTL DEF AnswerSpec

\* An answer of path without nodes that is not marked as truncated is an absence, whatever the
\* depth, the budgets and the byte cap cut; one of search that is not marked is every match.
THEOREM SilencesAreTrue == AnswerSpec => []SilenceIsTrue
<1>1. AnswerInit => SilenceInv
  BY HypothesesHold, SilenceStarts DEF AnswerInit
<1>2. SilenceInv /\ [AnswerNext]_answerVars => SilenceInv'
  BY HypothesesHold, AnswerIsQuery, SilenceGoesOn
<1>3. SilenceInv => SilenceIsTrue
  BY HypothesesHold, AbsenceIsShown, ListIsWhole DEF SilenceInv, SilenceIsTrue, Q!SilenceIsTrue
<1> QED BY <1>1, <1>2, <1>3, PTL DEF AnswerSpec
=============================================================================
