------------------------------ MODULE Changes -------------------------------
(***************************************************************************)
(* query/changes.changes: two pinned scopes compared project by project,   *)
(* and graph_query's changes operation around it, which can name only the  *)
(* pinned scope itself as a baseline.                                      *)
(*                                                                         *)
(* A side is a function from its projects to [schema, nodes, edges]; nodes *)
(* and edges are functions from ids to facts without their identity.       *)
(***************************************************************************)
EXTENDS Naturals, FiniteSets

CONSTANTS
    Heads, Baselines,   \* sides
    None

VARIABLES
    head, base,    \* what is compared; base may be None
    asked,         \* "engine": a direct call; otherwise the baseline the tool was given
    diff,          \* the changes of the projects compared so far
    totals,
    outcome        \* status, or none yet

Kinds == {"nodes", "edges"}
Parts == {"added", "removed", "modified"}

\* A scope is finite, and so are its graphs.
ChangesParameters ==
    /\ \A side \in Heads \cup Baselines :
         /\ IsFiniteSet(DOMAIN side)
         /\ \A p \in DOMAIN side, k \in Kinds :
              side[p][k] = [i \in DOMAIN side[p][k] |-> side[p][k][i]] /\ IsFiniteSet(DOMAIN side[p][k])
    /\ None \notin Heads \cup Baselines

changesVars == <<head, base, asked, diff, totals, outcome>>

NoTotals == [x \in Parts \X Kinds |-> 0]

ChangesInit ==
    /\ head \in Heads /\ outcome = "none"
    /\ asked \in {"engine", "nothing", "same", "another"}
    /\ base \in IF asked = "engine" THEN Baselines \cup {None} ELSE {None}
    /\ diff = <<>> /\ totals = NoTotals

\* _changes: a baseline that is not the pinned scope cannot be pinned and is not compared.
Choose ==
    /\ asked \in {"nothing", "same", "another"} /\ outcome = "none"
    /\ base' = IF asked = "same" THEN head ELSE None
    /\ outcome' = "chosen"
    /\ UNCHANGED <<head, asked, diff, totals>>

\* _schema_of: the one major that every member declares; None is one that declares none.
SchemaOf(side) ==
    LET majors == {side[p].schema : p \in DOMAIN side}
    IN  IF Cardinality(majors) = 1 THEN CHOOSE m \in majors : TRUE ELSE None

\* The comparisons that are refused, in the order of the tests.
StatusOf ==
    IF base = None THEN "missing_baseline"
    ELSE IF DOMAIN head # DOMAIN base THEN "incompatible_scope"
    ELSE IF None \in {SchemaOf(head), SchemaOf(base)} THEN "unknown_schema"
    ELSE IF SchemaOf(head) # SchemaOf(base) THEN "incompatible_schema"
    ELSE "comparing"

Compare ==
    /\ outcome = IF asked = "engine" THEN "none" ELSE "chosen"
    /\ outcome' = StatusOf
    /\ UNCHANGED <<head, base, asked, diff, totals>>

On(f, ids) == [k \in ids |-> f[k]]

\* Mutant: facts that both sides have are taken to be equal.
MutDiffKind(h, b) ==
    [added |-> On(h, DOMAIN h \ DOMAIN b), removed |-> On(b, DOMAIN b \ DOMAIN h),
     modified |-> <<>>]

\* _diff_kind; of a modified fact the side of the head.
DiffKind(h, b) ==
    [added |-> On(h, DOMAIN h \ DOMAIN b), removed |-> On(b, DOMAIN b \ DOMAIN h),
     modified |-> On(h, {k \in DOMAIN h \cap DOMAIN b : h[k] # b[k]})]

DiffProject ==
    /\ outcome = "comparing" /\ DOMAIN diff # DOMAIN head
    /\ \E p \in DOMAIN head \ DOMAIN diff :
         LET found == [k \in Kinds |-> DiffKind(head[p][k], base[p][k])] IN
         /\ diff' = [q \in DOMAIN diff \cup {p} |-> IF q = p THEN found ELSE diff[q]]
         /\ totals' = [x \in Parts \X Kinds |->
                         totals[x] + Cardinality(DOMAIN found[x[2]][x[1]])]
    /\ UNCHANGED <<head, base, asked, outcome>>

Compared ==
    /\ outcome = "comparing" /\ DOMAIN diff = DOMAIN head
    /\ outcome' = "ok"
    /\ UNCHANGED <<head, base, asked, diff, totals>>

\* _change_facts: what the tool answers with, facts of the head only.
ChangeFacts(k) ==
    UNION {{<<p, i, diff[p][k].added[i]>> : i \in DOMAIN diff[p][k].added}
             \cup {<<p, i, diff[p][k].modified[i]>> : i \in DOMAIN diff[p][k].modified} :
             p \in DOMAIN diff}

ChangesNext == Choose \/ Compare \/ DiffProject \/ Compared

----------------------------------------------------------------------------
\* A baseline brought forward by a project's changes.
Applied(b, d) ==
    [k \in (DOMAIN b \ DOMAIN d.removed) \cup DOMAIN d.added |->
        IF k \in DOMAIN d.added THEN d.added[k]
        ELSE IF k \in DOMAIN d.modified THEN d.modified[k] ELSE b[k]]

FactsOf(side, k) ==
    UNION {{<<p, i, side[p][k][i]>> : i \in DOMAIN side[p][k]} : p \in DOMAIN side}

\* A comparison is a complete and minimal patch: it turns the baseline of every project into
\* its head, changes nothing that is equal, and its totals count it; what the tool answers with
\* is exactly what the head has and the baseline has not.  It is made only of the same projects
\* under one and the same declared schema, and the tool never makes one against a baseline
\* that it has not pinned.
ChangesAreExact ==
    /\ outcome = "ok" =>
         /\ DOMAIN head = DOMAIN base
         /\ \A p, q \in DOMAIN head : head[p].schema = base[q].schema /\ head[p].schema # None
         /\ \A p \in DOMAIN head, k \in Kinds : Applied(base[p][k], diff[p][k]) = head[p][k]
         /\ \A k \in Kinds :
              LET new == FactsOf(head, k) \ FactsOf(base, k)
                  old == FactsOf(base, k) \ FactsOf(head, k)
              IN  /\ ChangeFacts(k) = new
                  /\ totals[<<"added", k>>] + totals[<<"modified", k>>] = Cardinality(new)
                  /\ totals[<<"removed", k>>] + totals[<<"modified", k>>] = Cardinality(old)
         /\ asked # "engine" => base = head
    /\ outcome \notin {"ok", "comparing"} => diff = <<>>
=============================================================================
