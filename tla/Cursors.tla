------------------------------- MODULE Cursors ------------------------------
(***************************************************************************)
(* CursorStore, shared by the worker threads of one runtime and lost with  *)
(* it.  issue has no lock: the increment of the sequence, its second       *)
(* reading for the id and the insertion are steps of their own.  The id is *)
(* a digest, and so stands for what it is taken over.  No tool issues a    *)
(* cursor at this revision; resolve is called for every cursor presented.  *)
(***************************************************************************)
EXTENDS Naturals

CONSTANTS
    Workers,
    Bindings,      \* [gen, scope, query, cap]: generation, projects, operation with its
                   \* parameters, and capability
    Offers,        \* the bindings that cursors are issued for
    Ttls,
    MaxIssues,     \* bound: cursors issued
    MaxTime        \* bound: ticks of the clock

CursorParameters ==
    /\ \A b \in Bindings \cup Offers :
         b = [gen |-> b.gen, scope |-> b.scope, query |-> b.query, cap |-> b.cap]
    /\ Ttls \subseteq Nat

VARIABLES
    records,     \* the store: a set of records, at most one for each id
    sequence,
    wk,          \* wk[w]: the issue that worker w is in
    now,
    issues,      \* cursors asked for so far
    issued       \* every record that this store has handed out

cursorVars == <<records, sequence, wk, now, issues, issued>>

NoIssue == [at |-> "idle", b |-> [gen |-> "none"], ttl |-> 0, since |-> 0, seq |-> 0]

CursorsInit ==
    /\ records = {} /\ sequence = 0 /\ issued = {} /\ issues = 0 /\ now = 0
    /\ wk = [w \in Workers |-> NoIssue]

\* The clock is read, and the sequence for its increment.
Begin(w) ==
    /\ wk[w].at = "idle" /\ issues < MaxIssues
    /\ issues' = issues + 1
    /\ \E b \in Offers, ttl \in Ttls :
         wk' = [wk EXCEPT ![w] = [at |-> "bump", b |-> b, ttl |-> ttl, since |-> now,
                                  seq |-> sequence]]
    /\ UNCHANGED <<records, sequence, now, issued>>

Bump(w) ==
    /\ wk[w].at = "bump"
    /\ sequence' = wk[w].seq + 1
    /\ wk' = [wk EXCEPT ![w].at = "mint"]
    /\ UNCHANGED <<records, now, issues, issued>>

Mint(w) ==
    /\ wk[w].at = "mint"
    /\ wk' = [wk EXCEPT ![w].at = "store", ![w].seq = sequence]
    /\ UNCHANGED <<records, sequence, now, issues, issued>>

\* Mutant: the sequence alone is taken for unique.
MutCursorId(b, seq) == [b |-> [gen |-> "none"], seq |-> seq]

CursorId(b, seq) == [b |-> b, seq |-> seq]

Insert(w) ==
    LET r == [id |-> CursorId(wk[w].b, wk[w].seq), b |-> wk[w].b,
              expires |-> wk[w].since + wk[w].ttl] IN
    /\ wk[w].at = "store"
    /\ records' = {x \in records : x.id # r.id} \cup {r}
    /\ issued' = issued \cup {r}
    /\ wk' = [wk EXCEPT ![w] = NoIssue]
    /\ UNCHANGED <<sequence, now, issues>>

Tick ==
    /\ now < MaxTime /\ now' = now + 1
    /\ UNCHANGED <<records, sequence, wk, issues, issued>>

\* resolve, which changes nothing: the reason it refuses the id for this request, or "ok".
Checks(r, b) ==
    IF now > r.expires THEN "expired"
    ELSE IF b.gen # r.b.gen THEN "generation"
    ELSE IF b.scope # r.b.scope THEN "scope"
    ELSE IF b.query # r.b.query THEN "query"
    ELSE IF b.cap # r.b.cap THEN "capability"
    ELSE "ok"

Resolve(id, b) ==
    IF \A r \in records : r.id # id
    THEN "unknown"
    ELSE Checks(CHOOSE r \in records : r.id = id, b)

\* A new process has a new store, whose ids may be ids of the old one again.
Restart ==
    /\ sequence > 0 /\ now < MaxTime
    /\ records' = {} /\ sequence' = 0 /\ issued' = {}
    /\ wk' = [w \in Workers |-> NoIssue]
    /\ now' = now + 1
    /\ UNCHANGED issues

CursorsNext ==
    \/ \E w \in Workers : Begin(w) \/ Bump(w) \/ Mint(w) \/ Insert(w)
    \/ Tick \/ Restart

----------------------------------------------------------------------------
\* A cursor, presented at any moment, continues exactly the request it was issued for.
\* Accepted: this store issued that id for this very request and it has not expired.  Refused
\* for its binding: it never issued that id for this request, whatever two workers did to the
\* sequence between them.  Refused as expired: a record of that id has run out.
CursorKeepsItsRequest ==
    \A id \in {r.id : r \in issued}, b \in Bindings :
        LET same == {r \in issued : r.id = id}
            is == Resolve(id, b)
        IN  /\ is = "ok" => \E r \in same : r.b = b /\ now <= r.expires
            /\ is \in {"generation", "scope", "query", "capability"} =>
                 \A r \in same : r.b # b
            /\ is = "expired" => \E r \in same : now > r.expires
            /\ is # "unknown"
=============================================================================
