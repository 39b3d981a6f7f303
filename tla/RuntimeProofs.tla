--------------------------- MODULE RuntimeProofs ----------------------------
(***************************************************************************)
(* Theorems of what a runtime keeps or reads again between calls: each     *)
(* component of MCRuntime by its own inductive invariant, for every value  *)
(* of the constants that the named assumptions admit.                      *)
(***************************************************************************)
EXTENDS MCRuntime, FiniteSetTheorems, WellFoundedInduction, NaturalsInduction, TLAPS

runtimeVars ==
    <<user, lruVars, retentionOnly, shardOnly, cursorOnly, accessOnly, statusOnly, changesOnly>>

----------------------------------------------------------------------------
(* CursorStore. *)

\* The store holds one record of every id that it handed out, and no other; the id of a record
\* names its binding, and a worker inserts under the id of the binding it was asked for.
CursorInv ==
    /\ now \in Nat
    /\ records \subseteq issued
    /\ \A r, x \in records : r.id = x.id => r = x
    /\ \A r \in issued :
         /\ r.id.b = r.b /\ r.b \in Offers /\ r.expires \in Nat
         /\ \E x \in records : x.id = r.id
    /\ wk = [w \in Workers |-> wk[w]]
    /\ \A w \in Workers :
         /\ DOMAIN wk[w] = {"at", "b", "ttl", "since", "seq"}
         /\ wk[w].at # "idle" => wk[w].b \in Offers /\ wk[w].ttl \in Nat /\ wk[w].since \in Nat

\* A new store satisfies the invariant.
LEMMA CursorInit == K!CursorsInit => CursorInv
BY DEF K!CursorsInit, CursorInv, K!NoIssue

\* A worker that takes the next step of its issue leaves the store as it was.
LEMMA CursorMoves ==
    ASSUME CursorInv, NEW w \in Workers, NEW x, DOMAIN x = {"at", "b", "ttl", "since", "seq"},
           x.at # "idle" => x.b \in Offers /\ x.ttl \in Nat /\ x.since \in Nat,
           wk' = [wk EXCEPT ![w] = x], UNCHANGED <<records, issued, now>>
    PROVE  CursorInv'
<1>1. \A v \in Workers : wk'[v] = IF v = w THEN x ELSE wk[v]
  BY DEF CursorInv
<1>2. wk' = [v \in Workers |-> wk'[v]]
  BY DEF CursorInv
<1> QED BY <1>1, <1>2, Zenon DEF CursorInv

\* Insert puts the record in the place of the one that has its id.
LEMMA InsertStep == ASSUME CursorInv, NEW w \in Workers, K!Insert(w) PROVE CursorInv'
<1> DEFINE r == [id |-> K!CursorId(wk[w].b, wk[w].seq), b |-> wk[w].b,
                 expires |-> wk[w].since + wk[w].ttl]
<1>1. /\ records' = {x \in records : x.id # r.id} \cup {r}
      /\ issued' = issued \cup {r}
      /\ wk' = [wk EXCEPT ![w] = K!NoIssue] /\ now' = now
  BY DEF K!Insert
<1>2. r.id.b = r.b /\ r.b \in Offers /\ r.expires \in Nat
  BY DEF CursorInv, K!Insert, K!CursorId
<1> HIDE DEF r
<1>3. records' \subseteq issued'
  BY <1>1 DEF CursorInv
<1>4. \A y, x \in records' : y.id = x.id => y = x
  BY <1>1 DEF CursorInv
<1>5. ASSUME NEW y \in issued'
      PROVE  /\ y.id.b = y.b /\ y.b \in Offers /\ y.expires \in Nat
             /\ \E x \in records' : x.id = y.id
  <2>1. CASE y.id = r.id /\ y \in issued
    BY <1>1, <2>1 DEF CursorInv
  <2>2. CASE y = r
    BY <1>1, <1>2, <2>2
  <2>3. CASE y.id # r.id /\ y \in issued
    BY <1>1, <2>3 DEF CursorInv
  <2> QED BY <1>1, <2>1, <2>2, <2>3
<1>6. wk' = [v \in Workers |-> wk'[v]]
  BY <1>1 DEF CursorInv
<1>7. ASSUME NEW v \in Workers
      PROVE  /\ DOMAIN wk'[v] = {"at", "b", "ttl", "since", "seq"}
             /\ wk'[v].at # "idle" =>
                  wk'[v].b \in Offers /\ wk'[v].ttl \in Nat /\ wk'[v].since \in Nat
  <2>1. CASE v = w
    BY <1>1, <2>1 DEF CursorInv, K!NoIssue
  <2>2. CASE v # w
    BY <1>1, <2>2 DEF CursorInv
  <2> QED BY <2>1, <2>2
<1> QED BY <1>1, <1>3, <1>4, <1>5, <1>6, <1>7, Zenon DEF CursorInv

\* Every step of the store, its callers, its clock and its process keeps the invariant.
LEMMA CursorKept == ASSUME CursorInv, K!CursorsNext PROVE CursorInv'
<1>1. ASSUME NEW w \in Workers, K!Begin(w) PROVE CursorInv'
  <2>1. PICK b \in Offers, ttl \in Ttls :
          wk' = [wk EXCEPT ![w] = [at |-> "bump", b |-> b, ttl |-> ttl, since |-> now,
                                   seq |-> sequence]]
    BY <1>1 DEF K!Begin
  <2>2. ttl \in Nat /\ now \in Nat
    BY CursorAssumption DEF K!CursorParameters, CursorInv
  <2> QED BY <1>1, <2>1, <2>2, CursorMoves DEF K!Begin
<1>2. ASSUME NEW w \in Workers, K!Bump(w) PROVE CursorInv'
  <2>1. wk' = [wk EXCEPT ![w] = [wk[w] EXCEPT !.at = "mint"]]
    BY <1>2 DEF K!Bump
  <2> QED BY <1>2, <2>1, CursorMoves DEF K!Bump, CursorInv
<1>3. ASSUME NEW w \in Workers, K!Mint(w) PROVE CursorInv'
  <2>1. wk' = [wk EXCEPT ![w] = [wk[w] EXCEPT !.at = "store", !.seq = sequence]]
    BY <1>3 DEF K!Mint, CursorInv
  <2> QED BY <1>3, <2>1, CursorMoves DEF K!Mint, CursorInv
<1>4. CASE K!Tick
  BY <1>4 DEF K!Tick, CursorInv
<1>5. CASE K!Restart
  BY <1>5 DEF K!Restart, CursorInv, K!NoIssue
<1> QED BY <1>1, <1>2, <1>3, <1>4, <1>5, InsertStep DEF K!CursorsNext

\* What resolve makes of an id that was issued.
LEMMA CursorsAreSafe == ASSUME CursorInv PROVE K!CursorKeepsItsRequest
<1> SUFFICES ASSUME NEW r \in issued, NEW b \in Bindings
             PROVE  LET same == {x \in issued : x.id = r.id}
                        is == K!Resolve(r.id, b)
                    IN  /\ is = "ok" => \E x \in same : x.b = b /\ now <= x.expires
                        /\ is \in {"generation", "scope", "query", "capability"} =>
                             \A x \in same : x.b # b
                        /\ is = "expired" => \E x \in same : now > x.expires
                        /\ is # "unknown"
  BY DEF K!CursorKeepsItsRequest
<1> DEFINE same == {x \in issued : x.id = r.id}
           y == CHOOSE x \in records : x.id = r.id
<1>1. \E x \in records : x.id = r.id
  BY DEF CursorInv
<1>2. y \in records /\ y.id = r.id
  BY <1>1
<1> HIDE DEF y
<1>3. K!Resolve(r.id, b) = K!Checks(y, b)
  BY <1>1 DEF K!Resolve, y
<1>4. y \in same /\ y.b \in Offers /\ y.expires \in Nat /\ now \in Nat
  BY <1>2 DEF CursorInv
<1>5. \A x \in same : x.b = y.b
  BY <1>2, <1>4 DEF CursorInv
<1>6. /\ y.b = [gen |-> y.b.gen, scope |-> y.b.scope, query |-> y.b.query, cap |-> y.b.cap]
      /\ b = [gen |-> b.gen, scope |-> b.scope, query |-> b.query, cap |-> b.cap]
  BY <1>4, CursorAssumption DEF K!CursorParameters
<1>7. K!Checks(y, b) = "ok" => y.b = b /\ now <= y.expires
  <2>1. K!Checks(y, b) = "ok" => /\ ~(now > y.expires)
                                 /\ y.b.gen = b.gen /\ y.b.scope = b.scope
                                 /\ y.b.query = b.query /\ y.b.cap = b.cap
    BY DEF K!Checks
  <2>2. ~(now > y.expires) => now <= y.expires
    BY <1>4
  <2> QED BY <1>6, <2>1, <2>2, Zenon
<1>8. K!Checks(y, b) \in {"generation", "scope", "query", "capability"} => y.b # b
  BY DEF K!Checks
<1>9. K!Checks(y, b) = "expired" => now > y.expires
  BY DEF K!Checks
<1>10. K!Checks(y, b) # "unknown"
  BY DEF K!Checks
<1> QED BY <1>3, <1>4, <1>5, <1>7, <1>8, <1>9, <1>10

\* Whatever two workers do to the sequence between them, a cursor presented at any moment
\* continues exactly the request it was issued for (cursor.py).
THEOREM CursorsKeepTheirRequests == RuntimeSpec => []CursorKeepsItsRequest
<1>1. RuntimeInit => CursorInv
  BY CursorInit DEF RuntimeInit
<1>2. CursorInv /\ [RuntimeNext]_runtimeVars => CursorInv'
  <2>1. ASSUME CursorInv, UNCHANGED cursorOnly PROVE CursorInv'
    BY <2>1 DEF CursorInv, cursorOnly
  <2>2. [RuntimeNext]_runtimeVars => K!CursorsNext \/ UNCHANGED cursorOnly
    BY DEF RuntimeNext, RetentionStep, ShardStep, CursorStep, CallStep, StatusStep, ChangesStep,
           runtimeVars
  <2> QED BY <2>1, <2>2, CursorKept
<1>3. CursorInv => CursorKeepsItsRequest
  BY CursorsAreSafe DEF CursorKeepsItsRequest
<1> QED BY <1>1, <1>2, <1>3, PTL DEF RuntimeSpec, runtimeVars

----------------------------------------------------------------------------
(* graph_status. *)

Generations == [number : Nat, coverage : 0..3]
Calls == {"idle", "load", "pinned", "daemon", "resolve", "ended"}

ReportTypeOK ==
    /\ report = [at |-> report.at, todo |-> report.todo, held |-> report.held,
                 loaded |-> report.loaded, coverage |-> report.coverage,
                 include_daemon |-> report.include_daemon, daemon |-> report.daemon,
                 freshness |-> report.freshness, code |-> report.code]
    /\ report.at \in Calls
    /\ report.todo \subseteq Projects
    /\ report.loaded \subseteq Projects \X Generations

LaneTypeOK ==
    /\ lane = [p \in Projects |-> lane[p]]
    /\ kept = [p \in Projects |-> kept[p]]
    /\ moments = [p \in Projects |-> moments[p]]
    /\ \A p \in Projects :
         /\ lane[p] \in Generations \cup {None}
         /\ moments[p] \subseteq Generations \cup {None}
         /\ kept[p] \subseteq Generations
         /\ lane[p] # None => lane[p] \in kept[p]
    /\ report.at # "idle" => \A p \in Projects : lane[p] \in moments[p]

\* A generation is published under a number that no other of its project has had.
NumbersInv ==
    \A p \in Projects : \A g, h \in kept[p] \cup moments[p] :
        /\ g # None => lane[p] # None /\ g.number <= lane[p].number
        /\ g # None /\ h # None /\ g.number = h.number => g = h

\* The number that a call holds is one that the pointer has named to it.
HeldInv ==
    report.at = "pinned" =>
        /\ report.todo # {}
        /\ \E g \in moments[G!Turn] : g # None /\ g.number = report.held

\* What the answer says of the generations it has read is settled once all of them are.
CoverageInv ==
    report.at \in {"daemon", "resolve"} \/ (report.at = "ended" /\ report.code = "OK") =>
        report.todo = {} /\ \A g \in report.loaded : g[2].coverage \in 1..report.coverage

\* The daemon was heard only where it was asked for and could be.
DaemonInv ==
    /\ report.at \in {"load", "pinned", "daemon"} => report.daemon = None
    /\ report.at = "resolve" =>
         \/ report.daemon = None
         \/ /\ report.include_daemon /\ control
            /\ report.daemon \in Reports \cup {G!Unavailable}

\* Every generation that was read was the current one at some moment of the call.
LoadedInv == \A g \in report.loaded : g[2] \in moments[g[1]]

StatusInv ==
    /\ ReportTypeOK /\ LaneTypeOK /\ NumbersInv /\ HeldInv /\ CoverageInv /\ DaemonInv
    /\ LoadedInv /\ G!StatusIsHonest

\* No status is under way at the start.
LEMMA StatusInit == G!StatusInit => StatusInv
<1> SUFFICES ASSUME G!StatusInit PROVE StatusInv
  OBVIOUS
<1>1. /\ report.at = "idle" /\ report.todo = {} /\ report.loaded = {}
      /\ ReportTypeOK
  BY DEF G!StatusInit, G!NoReport, ReportTypeOK, Calls
<1>2. LaneTypeOK /\ NumbersInv
  BY <1>1 DEF G!StatusInit, LaneTypeOK, NumbersInv
<1> QED BY <1>1, <1>2
        DEF StatusInv, HeldInv, CoverageInv, DaemonInv, LoadedInv, G!StatusIsHonest

\* None stands for no generation.
LEMMA NoneIsNoGeneration == None \notin Generations
<1>1. Len(G!Coverage) = 3
  BY DEF G!Coverage
<1> QED BY <1>1, StatusAssumption DEF G!StatusParameters, Generations

\* A set of numbers has a least member, which is the one that is chosen.
LEMMA LeastIsMember ==
    ASSUME NEW S, S \subseteq Nat, S # {}
    PROVE  /\ (CHOOSE q \in S : \A r \in S : q <= r) \in S
           /\ \E q \in S : \A r \in S : q <= r
<1> DEFINE R == OpToRel(<, Nat)
<1>1. \E x \in S : \A y \in S : ~ (<<y, x>> \in R)
  <2>1. IsWellFoundedOn(R, Nat)
    BY NatLessThanWellFounded
  <2> HIDE DEF R
  <2> QED BY <2>1, WFMin
<1>2. \A x, y \in S : <<y, x>> \in R <=> y < x
  BY DEF OpToRel
<1> HIDE DEF R
<1>3. PICK x \in S : \A y \in S : ~ (y < x)
  BY <1>1, <1>2, Zenon
<1>4. \A y \in S : x <= y
  BY <1>3
<1> QED BY <1>4, Zenon

\* The project whose turn it is is one of those that are left.
LEMMA TurnIsAsked ==
    ASSUME ReportTypeOK, report.todo # {}
    PROVE  G!Turn \in report.todo /\ G!Turn \in Projects
<1>1. report.todo \subseteq Nat /\ report.todo \subseteq Projects
  BY StatusAssumption DEF G!StatusParameters, ReportTypeOK
<1> QED BY <1>1, LeastIsMember DEF G!Turn

\* The daemon publishes between two reads: what was read stays read.
LEMMA PublishStep == ASSUME StatusInv, NEW p \in Projects, G!Publish(p) PROVE StatusInv'
<1>1. PICK g \in Generations :
        /\ g.number = IF lane[p] = None THEN 1 ELSE lane[p].number + 1
        /\ lane' = [lane EXCEPT ![p] = g]
        /\ kept' = [kept EXCEPT ![p] = @ \cup {lane'[p]}]
        /\ moments' = [moments EXCEPT ![p] = @ \cup {lane'[p]}]
  <2> DEFINE number == IF lane[p] = None THEN 1 ELSE lane[p].number + 1
  <2>1. number \in Nat
    BY DEF StatusInv, LaneTypeOK, Generations
  <2>2. Len(G!Coverage) = 3
    BY DEF G!Coverage
  <2> HIDE DEF number
  <2>3. PICK c \in 0..Len(G!Coverage) :
          /\ lane' = [lane EXCEPT ![p] = [number |-> number, coverage |-> c]]
          /\ kept' = [kept EXCEPT ![p] = @ \cup {lane'[p]}]
          /\ moments' = [moments EXCEPT ![p] = @ \cup {lane'[p]}]
    BY DEF G!Publish, number
  <2>4. /\ [number |-> number, coverage |-> c] \in Generations
        /\ [number |-> number, coverage |-> c].number = number
    BY <2>1, <2>2 DEF Generations
  <2> HIDE DEF G!Publish
  <2>5. number = IF lane[p] = None THEN 1 ELSE lane[p].number + 1
    BY DEF number
  <2> QED BY <2>3, <2>4, <2>5, Zenon
<1>2. report' = report /\ control' = control /\ report.at # "ended"
  BY DEF G!Publish
<1>3. \A q \in Projects : /\ lane'[q] = IF q = p THEN g ELSE lane[q]
                          /\ kept'[q] = IF q = p THEN kept[q] \cup {g} ELSE kept[q]
                          /\ moments'[q] = IF q = p THEN moments[q] \cup {g} ELSE moments[q]
  BY <1>1 DEF StatusInv, LaneTypeOK
<1>4. LaneTypeOK'
  <2>1. /\ lane' = [q \in Projects |-> lane'[q]] /\ kept' = [q \in Projects |-> kept'[q]]
        /\ moments' = [q \in Projects |-> moments'[q]]
    BY <1>1 DEF StatusInv, LaneTypeOK
  <2>2. \A q \in Projects : /\ lane'[q] \in Generations \cup {None}
                            /\ moments'[q] \subseteq Generations \cup {None}
                            /\ kept'[q] \subseteq Generations
                            /\ lane'[q] # None => lane'[q] \in kept'[q]
    BY <1>3 DEF StatusInv, LaneTypeOK
  <2>3. report'.at # "idle" => \A q \in Projects : lane'[q] \in moments'[q]
    BY <1>2, <1>3 DEF StatusInv, LaneTypeOK
  <2> QED BY <2>1, <2>2, <2>3 DEF LaneTypeOK
<1>5. NumbersInv'
  <2> SUFFICES ASSUME NEW q \in Projects, NEW x \in kept'[q] \cup moments'[q],
                      NEW y \in kept'[q] \cup moments'[q]
               PROVE  /\ x # None => lane'[q] # None /\ x.number <= lane'[q].number
                      /\ x # None /\ y # None /\ x.number = y.number => x = y
    BY DEF NumbersInv
  <2>1. CASE q # p
    <3>1. lane'[q] = lane[q] /\ x \in kept[q] \cup moments[q] /\ y \in kept[q] \cup moments[q]
      BY <1>3, <2>1
    <3> QED BY <3>1 DEF StatusInv, NumbersInv
  <2>2. CASE q = p
    <3>1. lane'[q] = g /\ x \in kept[p] \cup moments[p] \cup {g}
          /\ y \in kept[p] \cup moments[p] \cup {g}
      BY <1>3, <2>2
    <3>2. g # None /\ g.number \in Nat
      BY NoneIsNoGeneration DEF Generations
    <3>3. ASSUME NEW z \in kept[p] \cup moments[p], z # None
          PROVE  z.number \in Nat /\ z.number < g.number
      <4>1. lane[p] # None /\ z.number <= lane[p].number
        BY <3>3 DEF StatusInv, NumbersInv
      <4>2. lane[p].number \in Nat /\ z.number \in Nat
        BY <3>3, <4>1 DEF StatusInv, LaneTypeOK, Generations
      <4>3. g.number = lane[p].number + 1
        BY <1>1, <4>1
      <4> QED BY <4>1, <4>2, <4>3
    <3>4. x # None => lane'[q] # None /\ x.number <= lane'[q].number
      BY <3>1, <3>2, <3>3
    <3>5. x # None /\ y # None /\ x.number = y.number => x = y
      <4>1. CASE x \in kept[p] \cup moments[p] /\ y \in kept[p] \cup moments[p]
        BY <4>1 DEF StatusInv, NumbersInv
      <4>2. CASE x = g \/ y = g
        BY <3>1, <3>2, <3>3, <4>2
      <4> QED BY <3>1, <4>1, <4>2
    <3> QED BY <3>4, <3>5
  <2> QED BY <2>1, <2>2
<1>6. HeldInv' /\ LoadedInv'
  <2>1. \A q \in Projects : moments[q] \subseteq moments'[q]
    BY <1>3
  <2>2. report.at = "pinned" => G!Turn \in Projects
    BY TurnIsAsked DEF StatusInv, HeldInv
  <2>3. G!Turn' = G!Turn
    BY <1>2 DEF G!Turn
  <2>4. HeldInv'
    BY <1>2, <2>1, <2>2, <2>3 DEF StatusInv, HeldInv
  <2>5. LoadedInv'
    BY <1>2, <2>1 DEF StatusInv, LoadedInv, ReportTypeOK
  <2> QED BY <2>4, <2>5
<1> QED BY <1>2, <1>4, <1>5, <1>6
        DEF StatusInv, ReportTypeOK, CoverageInv, DaemonInv, G!StatusIsHonest

\* The collector takes what no pointer names: what was read stays read.
LEMMA CollectStep == ASSUME StatusInv, NEW p \in Projects, G!Collect(p) PROVE StatusInv'
<1>1. PICK g \in kept[p] \ {lane[p]} : kept' = [kept EXCEPT ![p] = @ \ {g}]
  BY DEF G!Collect
<1>2. UNCHANGED <<report, control, lane, moments>> /\ report.at # "ended"
  BY DEF G!Collect
<1>3. \A q \in Projects : /\ kept'[q] \subseteq kept[q]
                          /\ lane[q] \in kept[q] => lane[q] \in kept'[q]
  BY <1>1 DEF StatusInv, LaneTypeOK
<1>4. LaneTypeOK'
  <2>1. kept' = [q \in Projects |-> kept'[q]]
    BY <1>1 DEF StatusInv, LaneTypeOK
  <2> QED BY <1>2, <1>3, <2>1 DEF StatusInv, LaneTypeOK
<1>5. NumbersInv'
  BY <1>2, <1>3 DEF StatusInv, NumbersInv
<1>6. HeldInv'
  BY <1>2 DEF StatusInv, HeldInv, G!Turn
<1> QED BY <1>2, <1>4, <1>5, <1>6
        DEF StatusInv, ReportTypeOK, CoverageInv, DaemonInv, LoadedInv, G!StatusIsHonest

\* What stays true while the call moves on alone.
LEMMA DiskIsKept ==
    ASSUME StatusInv, G!Keep, ReportTypeOK', report.at # "idle"
    PROVE  LaneTypeOK' /\ NumbersInv' /\ UNCHANGED <<lane, kept, control, moments>>
BY DEF G!Keep, StatusInv, LaneTypeOK, NumbersInv

\* A refusal ends the call with what it has read.
LEMMA RefuseStep ==
    ASSUME StatusInv, NEW code, report.at # "idle", G!Refuse(code), G!Keep, code # "OK",
           code = "INTERNAL_ERROR" =>
             \E p \in report.todo : None \in moments[p] \/ \E g, h \in moments[p] : g # h,
           code = "SNAPSHOT_CORRUPT" =>
             \E p \in Projects : \E g \in moments[p] : g # None /\ g.coverage = 0,
           code = "DAEMON_UNAVAILABLE" => report.include_daemon /\ ~control
    PROVE  StatusInv'
<1>1. /\ report'.at = "ended" /\ report'.code = code
      /\ report'.todo = report.todo /\ report'.loaded = report.loaded
      /\ report'.include_daemon = report.include_daemon
      /\ ReportTypeOK'
  BY DEF G!Refuse, StatusInv, ReportTypeOK, Calls
<1>2. LaneTypeOK' /\ NumbersInv' /\ UNCHANGED <<lane, kept, control, moments>>
  BY <1>1, DiskIsKept
<1>3. HeldInv' /\ CoverageInv' /\ DaemonInv'
  BY <1>1 DEF HeldInv, CoverageInv, DaemonInv
<1>4. LoadedInv'
  BY <1>1, <1>2 DEF StatusInv, LoadedInv
<1>5. G!StatusIsHonest'
  BY <1>1, <1>2, <1>4 DEF G!StatusIsHonest, LoadedInv
<1> QED BY <1>1, <1>2, <1>3, <1>4, <1>5 DEF StatusInv

\* A call names its scope, and the moments of the call begin.
LEMMA BeginStep == ASSUME StatusInv, G!Begin PROVE StatusInv'
<1>1. PICK scope \in (SUBSET Projects) \ {{}}, daemon \in BOOLEAN :
        report' = [G!NoReport EXCEPT !.at = "load", !.todo = scope, !.include_daemon = daemon]
  BY DEF G!Begin
<1>2. /\ report'.at = "load" /\ report'.loaded = {} /\ report'.daemon = None /\ ReportTypeOK'
  BY <1>1 DEF G!NoReport, ReportTypeOK, Calls
<1>3. /\ moments' = [p \in Projects |-> {lane[p]}] /\ lane' = lane /\ kept' = kept
  BY DEF G!Begin
<1>4. LaneTypeOK'
  BY <1>3 DEF StatusInv, LaneTypeOK
<1>5. NumbersInv'
  <2>1. \A p \in Projects : \A g \in moments'[p] : g # None => g \in kept[p]
    BY <1>3 DEF StatusInv, LaneTypeOK
  <2> QED BY <1>3, <2>1 DEF StatusInv, NumbersInv
<1> QED BY <1>2, <1>4, <1>5
        DEF StatusInv, HeldInv, CoverageInv, DaemonInv, LoadedInv, G!StatusIsHonest

\* The pointer of the next project names a generation of the call's time, or there is none.
LEMMA ReadPointerStep == ASSUME StatusInv, G!ReadPointer PROVE StatusInv'
<1>1. G!Turn \in report.todo /\ G!Turn \in Projects
  BY TurnIsAsked DEF StatusInv, G!ReadPointer
<1> DEFINE p == G!Turn
<1>2. /\ report.at = "load" /\ report.todo # {} /\ G!Keep
      /\ \/ lane[p] = None /\ G!Refuse("INTERNAL_ERROR")
         \/ /\ lane[p] # None
            /\ report' = [report EXCEPT !.at = "pinned", !.held = lane[p].number]
  BY DEF G!ReadPointer
<1>3. lane[p] \in moments[p] /\ p \in report.todo
  BY <1>1, <1>2 DEF StatusInv, LaneTypeOK
<1>4. CASE lane[p] = None /\ G!Refuse("INTERNAL_ERROR")
  BY <1>2, <1>3, <1>4, RefuseStep
<1>5. CASE /\ lane[p] # None
           /\ report' = [report EXCEPT !.at = "pinned", !.held = lane[p].number]
  <2>1. /\ report'.at = "pinned" /\ report'.todo = report.todo
        /\ report'.held = lane[p].number /\ report'.loaded = report.loaded
        /\ report'.daemon = report.daemon
    BY <1>5 DEF StatusInv, ReportTypeOK
  <2>2. ReportTypeOK'
    BY <1>5, <2>1 DEF StatusInv, ReportTypeOK, Calls
  <2>3. LaneTypeOK' /\ NumbersInv' /\ UNCHANGED <<lane, kept, control, moments>>
    BY <1>2, <2>2, DiskIsKept
  <2>4. HeldInv'
    <3>1. G!Turn' = p
      BY <2>1 DEF G!Turn
    <3> HIDE DEF p
    <3> QED BY <1>2, <1>3, <1>5, <2>1, <2>3, <3>1 DEF HeldInv
  <2>5. LoadedInv'
    BY <2>1, <2>3 DEF StatusInv, LoadedInv
  <2>6. CoverageInv' /\ DaemonInv' /\ G!StatusIsHonest'
    BY <1>2, <2>1 DEF StatusInv, CoverageInv, DaemonInv, G!StatusIsHonest
  <2> QED BY <2>2, <2>3, <2>4, <2>5, <2>6 DEF StatusInv
<1> QED BY <1>2, <1>4, <1>5

\* The generation of that number is the one that the pointer named, unless it is gone.
LEMMA LoadPinnedStep == ASSUME StatusInv, G!LoadPinned PROVE StatusInv'
<1>1. report.at = "pinned" /\ report.todo # {} /\ G!Keep
  BY DEF G!LoadPinned, StatusInv, HeldInv
<1>2. G!Turn \in report.todo /\ G!Turn \in Projects
  BY <1>1, TurnIsAsked DEF StatusInv
<1>3. PICK p \in Projects : p = G!Turn
  BY <1>2
<1>4. PICK h \in moments[p] : h # None /\ h.number = report.held
  BY <1>1, <1>3 DEF StatusInv, HeldInv
<1>5. \/ (\A g \in kept[p] : g.number # report.held) /\ G!Refuse("INTERNAL_ERROR")
      \/ \E g \in kept[p] :
           /\ g.number = report.held
           /\ report' = [report EXCEPT !.at = "load", !.todo = @ \ {p}, !.held = None,
                                      !.loaded = @ \cup {<<p, g>>}]
  BY <1>3 DEF G!LoadPinned
<1>6. CASE (\A g \in kept[p] : g.number # report.held) /\ G!Refuse("INTERNAL_ERROR")
  <2>1. lane[p] \in moments[p]
    BY <1>1 DEF StatusInv, LaneTypeOK
  <2>2. lane[p] # h
    BY <1>4, <1>6 DEF StatusInv, LaneTypeOK
  <2> QED BY <1>1, <1>2, <1>3, <1>4, <1>6, <2>1, <2>2, RefuseStep
<1>7. ASSUME NEW g \in kept[p], g.number = report.held,
             report' = [report EXCEPT !.at = "load", !.todo = @ \ {p}, !.held = None,
                                      !.loaded = @ \cup {<<p, g>>}]
      PROVE  StatusInv'
  <2>1. /\ report'.at = "load" /\ report'.todo = report.todo \ {p}
        /\ report'.loaded = report.loaded \cup {<<p, g>>} /\ report'.daemon = report.daemon
    BY <1>7 DEF StatusInv, ReportTypeOK
  <2>2. g \in Generations /\ g # None
    BY NoneIsNoGeneration DEF StatusInv, LaneTypeOK
  <2>3. g \in moments[p]
    <3>1. g = h
      BY <1>4, <1>7, <2>2 DEF StatusInv, NumbersInv
    <3> QED BY <3>1
  <2>4. ReportTypeOK'
    <3>1. report'.todo \subseteq Projects /\ report'.loaded \subseteq Projects \X Generations
      BY <2>1, <2>2 DEF StatusInv, ReportTypeOK
    <3>2. report' = [at |-> report'.at, todo |-> report'.todo, held |-> report'.held,
                     loaded |-> report'.loaded, coverage |-> report'.coverage,
                     include_daemon |-> report'.include_daemon, daemon |-> report'.daemon,
                     freshness |-> report'.freshness, code |-> report'.code]
      BY <1>7 DEF StatusInv, ReportTypeOK
    <3> QED BY <2>1, <3>1, <3>2 DEF ReportTypeOK, Calls
  <2>5. LaneTypeOK' /\ NumbersInv' /\ UNCHANGED <<lane, kept, control, moments>>
    BY <1>1, <2>4, DiskIsKept
  <2>6. LoadedInv'
    BY <2>1, <2>3, <2>5 DEF StatusInv, LoadedInv
  <2>7. HeldInv' /\ CoverageInv' /\ DaemonInv' /\ G!StatusIsHonest'
    BY <1>1, <2>1 DEF StatusInv, HeldInv, CoverageInv, DaemonInv, G!StatusIsHonest
  <2> QED BY <2>4, <2>5, <2>6, <2>7 DEF StatusInv
<1> QED BY <1>5, <1>6, <1>7

\* The coverage of an answer is that of its most limited member.
LEMMA AggregateStep == ASSUME StatusInv, G!Aggregate PROVE StatusInv'
<1>1. CASE 0 \in G!Blocks /\ G!Refuse("SNAPSHOT_CORRUPT")
  <2>1. PICK g \in report.loaded : g[2].coverage = 0
    BY <1>1 DEF G!Blocks
  <2>2. g[1] \in Projects /\ g[2] \in moments[g[1]] /\ g[2] # None
    BY NoneIsNoGeneration DEF StatusInv, ReportTypeOK, LoadedInv
  <2> QED BY <1>1, <2>1, <2>2, RefuseStep DEF G!Aggregate
<1>2. CASE 0 \notin G!Blocks
  <2>1. PICK worst \in G!Blocks :
          /\ \A c \in G!Blocks : c <= worst
          /\ report' = [report EXCEPT !.coverage = worst, !.at = "daemon"]
    BY <1>2 DEF G!Aggregate
  <2>2. /\ report'.at = "daemon" /\ report'.todo = {} /\ report'.loaded = report.loaded
        /\ report'.coverage = worst /\ report'.daemon = report.daemon
    BY <2>1 DEF G!Aggregate, StatusInv, ReportTypeOK
  <2>3. ReportTypeOK'
    BY <2>1, <2>2 DEF StatusInv, ReportTypeOK, Calls
  <2>4. LaneTypeOK' /\ NumbersInv' /\ UNCHANGED <<lane, kept, control, moments>>
    BY <2>3, DiskIsKept DEF G!Aggregate
  <2>5. \A g \in report.loaded : g[2].coverage \in 1..worst
    <3>1. \A c \in G!Blocks : c \in 0..3
      BY DEF G!Blocks, StatusInv, ReportTypeOK, Generations
    <3>2. \A c \in G!Blocks : c \in 1..worst
      BY <1>2, <2>1, <3>1
    <3> QED BY <3>2 DEF G!Blocks
  <2>6. HeldInv' /\ CoverageInv' /\ DaemonInv' /\ G!StatusIsHonest'
    BY <2>2, <2>5 DEF G!Aggregate, StatusInv, HeldInv, CoverageInv, DaemonInv, G!StatusIsHonest
  <2>7. LoadedInv'
    BY <2>2, <2>4 DEF StatusInv, LoadedInv
  <2> QED BY <2>3, <2>4, <2>6, <2>7 DEF StatusInv
<1> QED BY <1>1, <1>2 DEF G!Aggregate

\* The daemon is asked where the call wants it and there is one.
LEMMA AskDaemonStep == ASSUME StatusInv, G!AskDaemon PROVE StatusInv'
<1>1. CASE report.include_daemon /\ ~control /\ G!Refuse("DAEMON_UNAVAILABLE")
  BY <1>1, RefuseStep DEF G!AskDaemon
<1>2. ASSUME NEW section, report' = [report EXCEPT !.daemon = section, !.at = "resolve"],
             \/ section = report.daemon /\ section = None
             \/ /\ report.include_daemon /\ control
                /\ section \in Reports \cup {G!Unavailable}
      PROVE  StatusInv'
  <2>1. /\ report'.at = "resolve" /\ report'.todo = report.todo
        /\ report'.loaded = report.loaded /\ report'.daemon = section
        /\ report'.coverage = report.coverage /\ report'.include_daemon = report.include_daemon
    BY <1>2 DEF G!AskDaemon, StatusInv, ReportTypeOK
  <2>2. ReportTypeOK'
    BY <1>2, <2>1 DEF StatusInv, ReportTypeOK, Calls
  <2>3. LaneTypeOK' /\ NumbersInv' /\ UNCHANGED <<lane, kept, control, moments>>
    BY <2>2, DiskIsKept DEF G!AskDaemon
  <2>4. HeldInv' /\ CoverageInv' /\ DaemonInv' /\ LoadedInv' /\ G!StatusIsHonest'
    BY <1>2, <2>1, <2>3
       DEF G!AskDaemon, StatusInv, HeldInv, CoverageInv, DaemonInv, LoadedInv, G!StatusIsHonest
  <2> QED BY <2>2, <2>3, <2>4 DEF StatusInv
<1>3. report.daemon = None /\ [report EXCEPT !.daemon = None, !.at = "resolve"]
                              = [report EXCEPT !.at = "resolve"]
  BY DEF G!AskDaemon, StatusInv, DaemonInv, ReportTypeOK
<1> QED BY <1>1, <1>2, <1>3 DEF G!AskDaemon

\* Fresh takes a daemon that was heard and the digest of an inventory that it recomputed.
LEMMA FreshHasEvidence ==
    ASSUME G!ResolveFreshness = "fresh"
    PROVE  /\ report.daemon # None /\ report.daemon.available
           /\ report.daemon.mode = "inventory_hash" /\ report.daemon.proof = "digest"
<1>1. G!VerificationMode = "inventory_hash"
  BY DEF G!ResolveFreshness
<1> QED BY <1>1 DEF G!VerificationMode, G!Heard

\* The answer of a call that has read everything.
LEMMA ReportStep == ASSUME StatusInv, G!Report PROVE StatusInv'
<1>1. /\ report.at = "resolve" /\ report'.at = "ended" /\ report'.code = "OK"
      /\ report'.freshness = G!ResolveFreshness
      /\ report'.todo = report.todo /\ report'.loaded = report.loaded
      /\ report'.coverage = report.coverage /\ report'.daemon = report.daemon
      /\ report'.include_daemon = report.include_daemon
  BY DEF G!Report, StatusInv, ReportTypeOK
<1>2. ReportTypeOK'
  BY <1>1 DEF G!Report, StatusInv, ReportTypeOK, Calls
<1>3. LaneTypeOK' /\ NumbersInv' /\ UNCHANGED <<lane, kept, control, moments>>
  BY <1>1, <1>2, DiskIsKept DEF G!Report
<1>4. HeldInv' /\ CoverageInv' /\ DaemonInv' /\ LoadedInv'
  BY <1>1, <1>3 DEF StatusInv, HeldInv, CoverageInv, DaemonInv, LoadedInv
<1>5. report'.freshness = "fresh" =>
        /\ report'.include_daemon /\ control'
        /\ report'.daemon \in Reports /\ report'.daemon.available
        /\ report'.daemon.mode = "inventory_hash" /\ report'.daemon.proof = "digest"
  BY <1>1, <1>3, FreshHasEvidence DEF StatusInv, DaemonInv, G!Unavailable
<1>6. G!StatusIsHonest'
  BY <1>1, <1>4, <1>5 DEF G!StatusIsHonest, CoverageInv, LoadedInv
<1> QED BY <1>2, <1>3, <1>4, <1>6 DEF StatusInv

\* However the publisher moves the pointers of the scope and the collector removes what they
\* named, graph_status names generations that were current during the call, claims no better
\* coverage than its members have, says fresh only where the daemon says so of a recomputed
\* inventory, and fails only for the causes that the property lists (status.py, runtime.py).
THEOREM StatusesAreHonest == RuntimeSpec => []StatusIsHonest
<1>1. RuntimeInit => StatusInv
  BY StatusInit DEF RuntimeInit
<1>2. StatusInv /\ [RuntimeNext]_runtimeVars => StatusInv'
  <2>1. ASSUME StatusInv, UNCHANGED statusOnly PROVE StatusInv'
    <3>1. UNCHANGED <<lane, kept, control, report, moments>>
      BY <2>1 DEF statusOnly
    <3>2. ReportTypeOK' /\ LaneTypeOK' /\ NumbersInv'
      BY <2>1, <3>1 DEF StatusInv, ReportTypeOK, LaneTypeOK, NumbersInv
    <3>3. HeldInv'
      <4>1. G!Turn' = G!Turn
        BY <3>1 DEF G!Turn
      <4> QED BY <2>1, <3>1, <4>1 DEF StatusInv, HeldInv
    <3>4. CoverageInv' /\ DaemonInv' /\ LoadedInv' /\ G!StatusIsHonest'
      BY <2>1, <3>1 DEF StatusInv, CoverageInv, DaemonInv, LoadedInv, G!StatusIsHonest
    <3> QED BY <3>2, <3>3, <3>4 DEF StatusInv
  <2>2. [RuntimeNext]_runtimeVars => G!StatusNext \/ UNCHANGED statusOnly
    BY DEF RuntimeNext, RetentionStep, ShardStep, CursorStep, CallStep, StatusStep, ChangesStep,
           runtimeVars
  <2>3. ASSUME StatusInv, G!StatusNext PROVE StatusInv'
    BY <2>3, PublishStep, CollectStep, BeginStep, ReadPointerStep, LoadPinnedStep, AggregateStep,
       AskDaemonStep, ReportStep DEF G!StatusNext
  <2> QED BY <2>1, <2>2, <2>3
<1>3. StatusInv => StatusIsHonest
  BY DEF StatusInv, StatusIsHonest
<1> QED BY <1>1, <1>2, <1>3, PTL DEF RuntimeSpec, runtimeVars

----------------------------------------------------------------------------
(* One call over the registry. *)

\* In a readable document a project of a solution is listed by one row, and the location of the
\* project is what that row binds.
LEMMA LocationIsBound ==
    ASSUME NEW d \in Documents, A!Readable(d), NEW s, NEW i \in A!RowsOf(d, s),
           NEW p \in d.rows[i].projs
    PROVE  A!Location(d, s, p) = [proj |-> p, root |-> d.rows[i].root, inst |-> d.rows[i].inst]
<1> DEFINE S == {j \in A!RowsOf(d, s) : p \in d.rows[j].projs}
<1>1. S = {i}
  BY DEF A!Readable, A!RowsOf
<1>2. i \in Nat
  BY AccessAssumption DEF A!AccessParameters, A!RowsOf
<1>3. A!Min(S) = i
  <2> HIDE DEF S
  <2>1. \A x \in S : i <= x
    BY <1>1, <1>2
  <2>2. \A x : x \in S <=> x = i
    BY <1>1
  <2> QED BY <2>1, <2>2 DEF A!Min
<1> QED BY <1>3 DEF A!Location

\* A handler gets beyond its checks with projects that the document binds and the token covers.
LEMMA ResolvedIsCovered ==
    ASSUME NEW a, NEW t, NEW d, A!Resolve(a, t, d).code = "OK"
    PROVE  /\ "read" \in t.caps /\ a.sol \in t.sols
           /\ A!Resolve(a, t, d).projs \subseteq A!SolutionProjects(d, a.sol) \cap t.projs
           /\ A!Resolve(a, t, d).projs = IF a.projs = None
                                       THEN A!SolutionProjects(d, a.sol) \cap t.projs ELSE a.projs
<1>1. /\ A!ToolCapability(a.tool) \in t.caps /\ a.sol \in t.sols
      /\ a.tool \notin {"reconcile", "verify"}
      /\ A!Resolve(a, t, d) = A!ResolveProjects(a, t, d) /\ A!ResolveProjects(a, t, d).code = "OK"
  BY DEF A!Resolve
<1>2. A!ToolCapability(a.tool) = "read"
  BY <1>1 DEF A!ToolCapability
<1> QED BY <1>1, <1>2 DEF A!ResolveProjects

\* What a document without the hidden parts still shows.
LEMMA VisibleShows ==
    ASSUME NEW d \in Documents, NEW t, NEW s \in t.sols
    PROVE  /\ A!RowsOf(A!Visible(d, t), s) = A!RowsOf(d, s)
           /\ A!SolutionProjects(A!Visible(d, t), s) = A!SolutionProjects(d, s) \cap t.projs
<1> DEFINE v == A!Visible(d, t)
           seen == {i \in DOMAIN d.rows : d.rows[i].sol \in t.sols}
<1>1. v.rows = [i \in seen |-> [d.rows[i] EXCEPT !.projs = @ \cap t.projs]]
  <2>1. d = [sound |-> d.sound, rows |-> d.rows]
    BY AccessAssumption DEF A!AccessParameters
  <2> QED BY <2>1 DEF A!Visible
<1>2. \A i \in seen : v.rows[i].sol = d.rows[i].sol /\ v.rows[i].projs = d.rows[i].projs \cap t.projs
  <2> SUFFICES ASSUME NEW i \in seen
               PROVE  /\ v.rows[i].sol = d.rows[i].sol
                      /\ v.rows[i].projs = d.rows[i].projs \cap t.projs
    OBVIOUS
  <2> DEFINE r == d.rows[i]
  <2>1. r = [sol |-> r.sol, inst |-> r.inst, repo |-> r.repo, root |-> r.root, projs |-> r.projs]
    <3>1. i \in DOMAIN d.rows
      OBVIOUS
    <3>2. \A j \in DOMAIN d.rows :
             d.rows[j] = [sol |-> d.rows[j].sol, inst |-> d.rows[j].inst, repo |-> d.rows[j].repo,
                          root |-> d.rows[j].root, projs |-> d.rows[j].projs]
      BY AccessAssumption DEF A!AccessParameters
    <3> QED BY <3>1, <3>2
  <2>2. v.rows[i] = [r EXCEPT !.projs = @ \cap t.projs]
    BY <1>1
  <2> HIDE DEF r, v
  <2>3. v.rows[i].sol = r.sol /\ v.rows[i].projs = r.projs \cap t.projs
    BY <2>1, <2>2
  <2> QED BY <2>3 DEF r
<1>3. DOMAIN v.rows = seen
  BY <1>1
<1> HIDE DEF v
<1>4. A!RowsOf(v, s) = A!RowsOf(d, s)
  BY <1>2, <1>3 DEF A!RowsOf
<1>5. A!SolutionProjects(v, s) = A!SolutionProjects(d, s) \cap t.projs
  <2>1. A!RowsOf(d, s) \subseteq seen
    BY DEF A!RowsOf
  <2>2. \A i \in A!RowsOf(d, s) : v.rows[i].projs = d.rows[i].projs \cap t.projs
    BY <1>2, <2>1
  <2> QED BY <1>4, <2>2 DEF A!SolutionProjects
<1> QED BY <1>4, <1>5 DEF v

\* A handler answers a document without the hidden parts as it does the whole one.
LEMMA HiddenIsAbsent ==
    ASSUME NEW a, NEW t, NEW d \in Documents
    PROVE  A!Resolve(a, t, A!Visible(d, t)) = A!Resolve(a, t, d)
<1>1. CASE a.sol \notin t.sols
  BY <1>1 DEF A!Resolve
<1>2. CASE a.sol \in t.sols
  <2>1. A!Known(A!Visible(d, t), a.sol) <=> A!Known(d, a.sol)
    BY <1>2, VisibleShows DEF A!Known
  <2>2. A!ResolveProjects(a, t, A!Visible(d, t)) = A!ResolveProjects(a, t, d)
    BY <1>2, VisibleShows DEF A!ResolveProjects
  <2> QED BY <2>1, <2>2 DEF A!Resolve
<1> QED BY <1>1, <1>2

CallShape(c) ==
    c = [at |-> c.at, ask |-> c.ask, doc |-> c.doc, todo |-> c.todo, reads |-> c.reads,
         code |-> c.code]

Resolved(c) == A!Resolve(c.ask, A!ScopeOf(c.ask.value), c.doc)

\* What a call is to read and what it has read are what its document and its token gave it.
Reading(c) ==
    /\ Resolved(c).code = "OK"
    /\ c.todo \cup {x.proj : x \in c.reads} = Resolved(c).projs
    /\ \A x \in c.reads : x = A!Location(c.doc, c.ask.sol, x.proj)

\* A call whose handler has begun keeps one document, which was the registry in its time.
CallInv(c) ==
    /\ CallShape(c)
    /\ c.at \in {"down", "refused", "ready", "boundary", "context"} => c.doc = None
    /\ c.at \in {"handler", "load"} => c.doc # None
    /\ c.doc = None \/ c.at = "handler" => c.reads = {}
    /\ c.doc # None => c.doc \in Documents /\ c.doc \in during /\ A!Readable(c.doc)
    /\ c.reads # {} \/ c.at = "load" => Reading(c)
    /\ c.at = "ended" /\ c.doc # None =>
         IF Resolved(c).code = "OK" THEN c.code \in {"OK"} \cup A!Failures
                                    ELSE c.code = Resolved(c).code /\ c.reads = {}
    /\ c.at = "ended" /\ c.code = "OK" => c.todo = {}
    /\ c.at # "ended" => c.code # "OK"

AccessInv ==
    /\ registry \in Documents
    /\ call.at \in {"boundary", "context"} => registry \in during
    /\ CallInv(call)

\* Where there is no call, nothing is read.
AccessOK == IF user = "call" THEN AccessInv ELSE call = A!NoCall

\* A call that is down has read nothing.
LEMMA NoCallInv == CallInv(A!NoCall)
BY DEF CallInv, CallShape, A!NoCall

\* A rewritten registry leaves a call with the document that it has.
LEMMA RewriteStep == ASSUME AccessInv, A!Rewrite PROVE AccessInv'
<1>1. /\ call' = call /\ creds' = creds /\ registry' \in Documents
      /\ during' = during \cup {registry'}
  BY DEF A!Rewrite
<1>2. CallInv(call)'
  BY <1>1 DEF AccessInv, CallInv, CallShape, Reading, Resolved, A!ScopeOf
<1> QED BY <1>1, <1>2 DEF AccessInv

\* A step that changes the call alone keeps the invariant if the call it makes is sound.
LEMMA BecomeStep ==
    ASSUME AccessInv, NEW c, A!Become(c), CallInv(c), c.at \in {"boundary", "context"} =>
           call.at \in {"boundary", "context"}
    PROVE  AccessInv'
<1>1. call' = c /\ creds' = creds /\ registry' = registry /\ during' = during
  BY DEF A!Become
<1>2. CallInv(call)'
  BY <1>1 DEF CallInv, CallShape, Reading, Resolved, A!ScopeOf
<1> QED BY <1>1, <1>2 DEF AccessInv

\* What the answer of a call is.
LEMMA AnswerShape ==
    ASSUME CallShape(call), NEW code
    PROVE  /\ CallShape(A!Answer(code))
           /\ A!Answer(code).at = "ended" /\ A!Answer(code).code = code
           /\ A!Answer(code).ask = call.ask /\ A!Answer(code).doc = call.doc
           /\ A!Answer(code).todo = call.todo /\ A!Answer(code).reads = call.reads
<1> DEFINE c == A!Answer(code)
<1>1. c = [call EXCEPT !.at = "ended", !.code = code]
  BY DEF A!Answer
<1> HIDE DEF c
<1>2. /\ c.at = "ended" /\ c.code = code /\ c.ask = call.ask /\ c.doc = call.doc
      /\ c.todo = call.todo /\ c.reads = call.reads /\ CallShape(c)
  BY <1>1 DEF CallShape
<1> QED BY <1>2 DEF c

\* A call that is refused before its handler has no document.
LEMMA TurnedAway ==
    ASSUME AccessInv, NEW code, call.at \in {"boundary", "context"}, code # "OK",
           A!Become(A!Answer(code))
    PROVE  AccessInv'
<1>1. CallShape(call)
  BY DEF AccessInv, CallInv
<1>2. CallInv(A!Answer(code))
  BY <1>1, AnswerShape DEF AccessInv, CallInv
<1> QED BY <1>1, <1>2, AnswerShape, BecomeStep

\* The process starts, or refuses to.
LEMMA StartStep == ASSUME AccessInv, A!Start PROVE AccessInv'
<1>1. PICK at \in {"ready", "refused"} : call' = [call EXCEPT !.at = at]
  BY DEF A!Start
<1>2. call.at = "down" /\ UNCHANGED <<registry, creds, during>>
  BY DEF A!Start
<1>3. CallInv([call EXCEPT !.at = at])
  BY <1>2 DEF AccessInv, CallInv, CallShape
<1> QED BY <1>1, <1>2, <1>3, BecomeStep DEF A!Become, A!Start, AccessInv, CallInv, CallShape

\* A call arrives, and the moments of it begin.
LEMMA ArriveStep == ASSUME AccessInv, A!Arrive PROVE AccessInv'
<1>1. PICK at \in {"boundary", "context"}, a \in Asks :
        call' = [A!NoCall EXCEPT !.at = at, !.ask = a]
  BY DEF A!Arrive
<1>2. registry' = registry /\ during' = {registry}
  BY DEF A!Arrive
<1>3. CallInv(call)'
  BY <1>1 DEF CallInv, CallShape, A!NoCall
<1> QED BY <1>2, <1>3 DEF AccessInv

\* The boundary lets a tool call pass, or answers it.
LEMMA CrossBoundaryStep == ASSUME AccessInv, A!CrossBoundary PROVE AccessInv'
<1>1. ASSUME A!Become([call EXCEPT !.at = "context"]) PROVE AccessInv'
  <2>1. CallInv([call EXCEPT !.at = "context"])
    BY DEF A!CrossBoundary, AccessInv, CallInv, CallShape
  <2> QED BY <1>1, <2>1, BecomeStep DEF A!CrossBoundary
<1>2. ASSUME A!Become(A!Answer(A!Boundary(call.ask))), A!Boundary(call.ask) # "pass"
      PROVE  AccessInv'
  <2>1. A!Boundary(call.ask) # "OK"
    BY DEF A!Boundary
  <2> QED BY <1>2, <2>1, TurnedAway DEF A!CrossBoundary
<1>3. ASSUME A!Become(A!Answer("NO_TOOL")) PROVE AccessInv'
  BY <1>3, TurnedAway DEF A!CrossBoundary
<1> QED BY <1>1, <1>2, <1>3 DEF A!CrossBoundary

\* A call takes the registry as it is now, or is refused.
LEMMA ContextStep == ASSUME AccessInv, A!Context PROVE AccessInv'
<1>1. ASSUME A!Readable(registry), A!Become([call EXCEPT !.at = "handler", !.doc = registry])
      PROVE  AccessInv'
  <2>1. registry \in Documents /\ registry \in during /\ registry # None
    BY AccessAssumption DEF A!AccessParameters, A!Context, AccessInv
  <2> DEFINE c == [call EXCEPT !.at = "handler", !.doc = registry]
  <2>2. c = [call EXCEPT !.at = "handler", !.doc = registry]
    OBVIOUS
  <2> HIDE DEF c
  <2>3. /\ c.at = "handler" /\ c.doc = registry /\ c.reads = {} /\ c.code # "OK"
        /\ CallShape(c)
    BY <2>2 DEF A!Context, AccessInv, CallInv, CallShape
  <2>4. CallInv(c)
    BY <1>1, <2>1, <2>3 DEF CallInv
  <2>5. A!Become(c)
    BY <1>1 DEF c
  <2> QED BY <2>3, <2>4, <2>5, BecomeStep
<1>2. ASSUME NEW code \in {"UNAUTHENTICATED", "SNAPSHOT_UNAVAILABLE"}, A!Become(A!Answer(code))
      PROVE  AccessInv'
  BY <1>2, TurnedAway DEF A!Context
<1> QED BY <1>1, <1>2 DEF A!Context

\* The handler takes up what it resolved, or answers that there is nothing to take up.
LEMMA HandleStep == ASSUME AccessInv, A!Handle PROVE AccessInv'
<1>1. /\ call.at = "handler" /\ call.reads = {} /\ call.doc # None /\ CallShape(call)
      /\ call.doc \in Documents /\ call.doc \in during /\ A!Readable(call.doc)
      /\ call.code # "OK"
  BY DEF A!Handle, AccessInv, CallInv
<1>2. ASSUME Resolved(call).code # "OK", A!Become(A!Answer(Resolved(call).code))
      PROVE  AccessInv'
  <2> DEFINE c == A!Answer(Resolved(call).code)
  <2>1. /\ c.at = "ended" /\ c.code = Resolved(call).code /\ c.ask = call.ask
        /\ c.doc = call.doc /\ c.reads = {} /\ CallShape(c)
    BY <1>1, AnswerShape
  <2>2. A!Become(c)
    BY <1>2
  <2> HIDE DEF c
  <2>3. Resolved(c) = Resolved(call)
    BY <2>1 DEF Resolved
  <2>4. CallInv(c)
    BY <1>1, <1>2, <2>1, <2>3 DEF CallInv
  <2> QED BY <2>1, <2>2, <2>4, BecomeStep
<1>3. ASSUME Resolved(call).code = "OK",
             A!Become([call EXCEPT !.at = "load", !.todo = Resolved(call).projs])
      PROVE  AccessInv'
  <2> DEFINE c == [call EXCEPT !.at = "load", !.todo = Resolved(call).projs]
  <2>1. A!Become(c) /\ c = [call EXCEPT !.at = "load", !.todo = Resolved(call).projs]
    BY <1>3
  <2> HIDE DEF c
  <2>2. /\ c.at = "load" /\ c.todo = Resolved(call).projs /\ c.ask = call.ask
        /\ c.doc = call.doc /\ c.reads = {} /\ c.code = call.code /\ CallShape(c)
    BY <1>1, <2>1 DEF CallShape
  <2>3. Resolved(c) = Resolved(call)
    BY <2>2 DEF Resolved
  <2>4. Reading(c)
    BY <1>3, <2>2, <2>3 DEF Reading
  <2>5. CallInv(c)
    BY <1>1, <2>2, <2>4 DEF CallInv
  <2> QED BY <2>1, <2>2, <2>5, BecomeStep
<1> QED BY <1>2, <1>3 DEF A!Handle, Resolved

\* What holds of a call that reads.
LEMMA LoadingCall ==
    ASSUME AccessInv, call.at = "load"
    PROVE  /\ CallShape(call) /\ Reading(call) /\ call.code # "OK"
           /\ call.doc # None /\ call.doc \in Documents /\ call.doc \in during
           /\ A!Readable(call.doc)
BY DEF AccessInv, CallInv

\* Another project is read, from the document that the call began with.
LEMMA LoadStep == ASSUME AccessInv, NEW p \in call.todo, A!Load(p) PROVE AccessInv'
<1> DEFINE x == A!Location(call.doc, call.ask.sol, p)
           c == [call EXCEPT !.todo = @ \ {p}, !.reads = @ \cup {x}]
<1>1. call.at = "load" /\ A!Become(c) /\ c = [call EXCEPT !.todo = @ \ {p}, !.reads = @ \cup {x}]
  BY DEF A!Load
<1>2. x.proj = p
  BY DEF A!Location
<1> HIDE DEF c, x
<1>3. /\ c.at = "load" /\ c.todo = call.todo \ {p} /\ c.reads = call.reads \cup {x}
      /\ c.ask = call.ask /\ c.doc = call.doc /\ c.code = call.code /\ CallShape(c)
  BY <1>1, LoadingCall DEF CallShape
<1>4. Resolved(c) = Resolved(call)
  BY <1>3 DEF Resolved
<1>5. Reading(c)
  <2>1. c.todo \cup {y.proj : y \in c.reads} = call.todo \cup {y.proj : y \in call.reads}
    BY <1>2, <1>3
  <2>2. \A y \in c.reads : y = A!Location(c.doc, c.ask.sol, y.proj)
    BY <1>1, <1>2, <1>3, LoadingCall DEF Reading, x
  <2> QED BY <1>1, <1>4, <2>1, <2>2, LoadingCall DEF Reading
<1>6. CallInv(c)
  BY <1>1, <1>3, <1>5, LoadingCall DEF CallInv
<1> QED BY <1>1, <1>3, <1>6, BecomeStep

\* A call that reads ends with an answer or without one.
LEMMA EndStep ==
    ASSUME AccessInv, call.at = "load", NEW code \in {"OK"} \cup A!Failures,
           code = "OK" => call.todo = {}, A!Become(A!Answer(code))
    PROVE  AccessInv'
<1> DEFINE c == A!Answer(code)
<1>1. /\ c.at = "ended" /\ c.code = code /\ c.ask = call.ask /\ c.doc = call.doc
      /\ c.todo = call.todo /\ c.reads = call.reads /\ CallShape(c) /\ A!Become(c)
  BY LoadingCall, AnswerShape
<1> HIDE DEF c
<1>2. Resolved(c) = Resolved(call) /\ Resolved(call).code = "OK"
  BY <1>1, LoadingCall DEF Resolved, Reading
<1>3. Reading(c)
  BY <1>1, <1>2, LoadingCall DEF Reading
<1>4. CallInv(c)
  BY <1>1, <1>2, <1>3, LoadingCall DEF CallInv
<1> QED BY <1>1, <1>4, BecomeStep

\* The invariant holds along every call, and where there is none.
LEMMA AccessInvariance == RuntimeSpec => []AccessOK
<1>1. RuntimeInit => AccessOK
  <2>1. A!AccessInit => AccessInv
    BY NoCallInv DEF A!AccessInit, AccessInv, A!NoCall
  <2> QED BY <2>1 DEF RuntimeInit, NoAccess, AccessOK
<1>2. AccessOK /\ [RuntimeNext]_runtimeVars => AccessOK'
  <2> SUFFICES ASSUME AccessOK, [RuntimeNext]_runtimeVars PROVE AccessOK'
    OBVIOUS
  <2>1. CASE user = "call" /\ A!AccessNext /\ user' = user
    BY <2>1, RewriteStep, StartStep, ArriveStep, CrossBoundaryStep, ContextStep, HandleStep,
       LoadStep, EndStep DEF A!AccessNext, A!LoadFails, A!Serve, A!Failures, AccessOK
  <2>2. CASE UNCHANGED <<user, accessOnly>>
    <3>1. AccessInv => AccessInv'
      BY <2>2 DEF accessOnly, AccessInv, CallInv, CallShape, Reading, Resolved, A!ScopeOf
    <3> QED BY <2>2, <3>1 DEF accessOnly, AccessOK
  <2>3. (user = "call" /\ A!AccessNext /\ user' = user) \/ UNCHANGED <<user, accessOnly>>
    BY DEF RuntimeNext, RetentionStep, ShardStep, CursorStep, CallStep, StatusStep, ChangesStep,
           runtimeVars
  <2> QED BY <2>1, <2>2, <2>3
<1> QED BY <1>1, <1>2, PTL DEF RuntimeSpec, runtimeVars

\* However often the registry is rewritten during a call, what the call reads is where one of
\* its documents bound it, and nothing that its token does not cover (context.py, registry.py).
THEOREM ReadsAreBound == RuntimeSpec => []ServedAsBound
<1>1. AccessInv => A!ServedAsBound
  <2> SUFFICES ASSUME AccessInv, call.reads # {} PROVE A!ServedAsBound
    BY DEF A!ServedAsBound
  <2> DEFINE t == A!ScopeOf(call.ask.value)
             d == call.doc
             s == call.ask.sol
             read == {x.proj : x \in call.reads}
  <2>1. /\ d \in Documents /\ d \in during /\ A!Readable(d) /\ Reading(call)
        /\ call.at = "ended" /\ call.code = "OK" => call.todo = {}
        /\ call.at # "ended" => call.code # "OK"
    BY DEF AccessInv, CallInv
  <2>2. /\ "read" \in t.caps /\ s \in t.sols
        /\ Resolved(call).projs \subseteq A!SolutionProjects(d, s) \cap t.projs
        /\ Resolved(call).projs = IF call.ask.projs = None
                                THEN A!SolutionProjects(d, s) \cap t.projs ELSE call.ask.projs
    <3>1. A!Resolve(call.ask, t, d).code = "OK"
      BY <2>1 DEF Reading, Resolved
    <3> HIDE DEF t, d
    <3>2. /\ "read" \in t.caps /\ s \in t.sols
          /\ A!Resolve(call.ask, t, d).projs \subseteq A!SolutionProjects(d, s) \cap t.projs
          /\ A!Resolve(call.ask, t, d).projs = IF call.ask.projs = None
                              THEN A!SolutionProjects(d, s) \cap t.projs ELSE call.ask.projs
      BY <3>1, ResolvedIsCovered
    <3>3. Resolved(call) = A!Resolve(call.ask, t, d)
      BY DEF Resolved, t, d
    <3> QED BY <3>2, <3>3
  <2>3. read \subseteq Resolved(call).projs /\ (call.code = "OK" => read = Resolved(call).projs)
    BY <2>1 DEF Reading
  <2>4. ASSUME NEW x \in call.reads, NEW i \in A!RowsOf(d, s), x.proj \in d.rows[i].projs
        PROVE  x.root = d.rows[i].root /\ x.inst = d.rows[i].inst
    <3>1. x = [proj |-> x.proj, root |-> d.rows[i].root, inst |-> d.rows[i].inst]
      BY <2>1, <2>4, LocationIsBound DEF Reading
    <3> QED BY <3>1
  <2> HIDE DEF t, d, s, read
  <2>5. read \subseteq A!SolutionProjects(d, s) /\ read \subseteq t.projs
    BY <2>2, <2>3
  <2>6. call.code = "OK" => read = IF call.ask.projs = None
                                   THEN A!SolutionProjects(d, s) \cap t.projs ELSE call.ask.projs
    BY <2>2, <2>3
  <2> QED BY <2>1, <2>2, <2>4, <2>5, <2>6 DEF A!ServedAsBound, t, d, s, read
<1>2. call = A!NoCall => A!ServedAsBound
  BY DEF A!NoCall, A!ServedAsBound
<1>3. AccessOK => ServedAsBound
  BY <1>1, <1>2 DEF AccessOK, ServedAsBound
<1> QED BY <1>3, AccessInvariance, PTL

\* The answer to a call never depends on what its token does not see (context.py).
THEOREM HiddenPartsAreAbsent == RuntimeSpec => []HiddenLooksAbsent
<1>1. AccessInv => A!HiddenLooksAbsent
  <2> SUFFICES ASSUME AccessInv, call.at = "ended", call.doc # None PROVE A!HiddenLooksAbsent
    BY DEF A!HiddenLooksAbsent
  <2>1. /\ call.doc \in Documents
        /\ IF Resolved(call).code = "OK" THEN call.code \in {"OK"} \cup A!Failures
           ELSE call.code = Resolved(call).code /\ call.reads = {}
    BY DEF AccessInv, CallInv
  <2> QED BY <2>1, HiddenIsAbsent DEF A!HiddenLooksAbsent, Resolved
<1>2. call = A!NoCall => A!HiddenLooksAbsent
  BY DEF A!NoCall, A!HiddenLooksAbsent
<1>3. AccessOK => HiddenLooksAbsent
  BY <1>1, <1>2 DEF AccessOK, HiddenLooksAbsent
<1> QED BY <1>3, AccessInvariance, PTL

----------------------------------------------------------------------------
(* One comparison. *)

\* The instance counts as the library does.
LEMMA SameCounting ==
    ASSUME NEW S
    PROVE  (D!IsFiniteSet(S) <=> IsFiniteSet(S)) /\ D!Cardinality(S) = Cardinality(S)
<1>1. D!IsFiniteSet(S) <=> IsFiniteSet(S)
  BY DEF D!IsFiniteSet, IsFiniteSet
<1>2. D!Cardinality(S) = Cardinality(S)
  BY Zenon DEF D!Cardinality, Cardinality
<1> QED BY <1>1, <1>2

IsGraph(f) == f = [i \in DOMAIN f |-> f[i]] /\ IsFiniteSet(DOMAIN f)

\* Sets that correspond to each other have as many members.
LEMMA SameNumber ==
    ASSUME NEW S, NEW T, IsFiniteSet(S), NEW f, f \in [S -> T],
           \A x, y \in S : f[x] = f[y] => x = y, \A t \in T : \E x \in S : f[x] = t
    PROVE  IsFiniteSet(T) /\ Cardinality(T) = Cardinality(S)
<1>1. f \in Bijection(S, T)
  BY DEF Bijection, Injection, Surjection, IsInjective
<1> QED BY <1>1, FS_Bijection, Zenon DEF ExistsBijection

\* Sets with nothing in common are counted together.
LEMMA TwoCounts ==
    ASSUME NEW S, NEW T, IsFiniteSet(S), IsFiniteSet(T), S \cap T = {}
    PROVE  IsFiniteSet(S \cup T) /\ Cardinality(S \cup T) = Cardinality(S) + Cardinality(T)
<1>1. Cardinality(S \cap T) = 0
  BY FS_EmptySet
<1> QED BY <1>1, FS_Union, FS_CardinalityType

\* The schema of a scope that has one is that of each of its members.
LEMMA OneSchema ==
    ASSUME NEW side, IsFiniteSet(DOMAIN side), D!SchemaOf(side) # None, NEW p \in DOMAIN side
    PROVE  side[p].schema = D!SchemaOf(side)
<1> DEFINE majors == {side[q].schema : q \in DOMAIN side}
           f == [q \in DOMAIN side |-> side[q].schema]
<1>1. IsFiniteSet(majors)
  <2>1. f \in Surjection(DOMAIN side, majors)
    BY DEF Surjection
  <2> QED BY <2>1, FS_Surjection
<1>2. D!SchemaOf(side) = IF Cardinality(majors) = 1 THEN CHOOSE m \in majors : TRUE ELSE None
  BY SameCounting DEF D!SchemaOf
<1> HIDE DEF majors
<1>3. Cardinality(majors) = 1 /\ D!SchemaOf(side) = CHOOSE m \in majors : TRUE
  BY <1>2
<1>4. PICK m : majors = {m}
  BY <1>1, <1>3, FS_Singleton
<1>5. (CHOOSE x \in majors : TRUE) = m
  BY <1>4
<1> QED BY <1>3, <1>4, <1>5 DEF majors

\* The parts of a difference.
LEMMA DifferenceHas ==
    ASSUME NEW h, NEW b
    PROVE  LET d == D!DiffKind(h, b) IN
           /\ DOMAIN d.added = DOMAIN h \ DOMAIN b
           /\ DOMAIN d.removed = DOMAIN b \ DOMAIN h
           /\ DOMAIN d.modified = {k \in DOMAIN h \cap DOMAIN b : h[k] # b[k]}
           /\ \A k \in DOMAIN d.added : d.added[k] = h[k]
           /\ \A k \in DOMAIN d.modified : d.modified[k] = h[k]
           /\ d["added"] = d.added /\ d["removed"] = d.removed /\ d["modified"] = d.modified
BY DEF D!DiffKind, D!On

\* A difference turns the baseline into the head.
LEMMA PatchIsComplete ==
    ASSUME NEW h, NEW b, IsGraph(h), IsGraph(b)
    PROVE  D!Applied(b, D!DiffKind(h, b)) = h
<1> DEFINE d == D!DiffKind(h, b)
           ids == (DOMAIN b \ DOMAIN d.removed) \cup DOMAIN d.added
           f == [k \in ids |-> IF k \in DOMAIN d.added THEN d.added[k]
                              ELSE IF k \in DOMAIN d.modified THEN d.modified[k] ELSE b[k]]
<1>1. D!Applied(b, d) = f
  BY DEF D!Applied
<1>2. /\ DOMAIN d.added = DOMAIN h \ DOMAIN b
      /\ DOMAIN d.removed = DOMAIN b \ DOMAIN h
      /\ DOMAIN d.modified = {k \in DOMAIN h \cap DOMAIN b : h[k] # b[k]}
      /\ \A k \in DOMAIN d.added : d.added[k] = h[k]
      /\ \A k \in DOMAIN d.modified : d.modified[k] = h[k]
  BY DifferenceHas
<1> HIDE DEF d
<1>3. ids = DOMAIN h
  BY <1>2
<1>4. \A k \in ids : f[k] = h[k]
  BY <1>2
<1>5. f = [k \in ids |-> f[k]]
  OBVIOUS
<1> HIDE DEF f, ids
<1>6. f = [k \in DOMAIN h |-> h[k]]
  BY <1>3, <1>4, <1>5
<1> QED BY <1>1, <1>6 DEF IsGraph, d

\* What project p changes in one part of one kind.
Changed(p, x) == DOMAIN D!DiffKind(head[p][x[2]], base[p][x[2]])[x[1]]
Marked(ps, x) == UNION {{p} \X Changed(p, x) : p \in ps}

Comparable ==
    /\ base # None /\ DOMAIN head = DOMAIN base
    /\ D!SchemaOf(head) = D!SchemaOf(base) /\ D!SchemaOf(head) # None

\* The comparison is of the two scopes of the call, is under way only if they can be compared,
\* has found the difference of every project it has come to, and counted what it found.
ChangesInv ==
    /\ head \in Heads /\ base \in Heads \cup Baselines \cup {None}
    /\ asked # "engine" => base \in {None, head}
    /\ outcome \notin {"comparing", "ok"} => diff = <<>>
    /\ outcome \in {"comparing", "ok"} => Comparable
    /\ outcome = "ok" => DOMAIN diff = DOMAIN head
    /\ DOMAIN diff \subseteq DOMAIN head
    /\ \A p \in DOMAIN diff : diff[p] = [k \in D!Kinds |-> D!DiffKind(head[p][k], base[p][k])]
    /\ totals = [x \in D!Parts \X D!Kinds |-> totals[x]]
    /\ \A x \in D!Parts \X D!Kinds :
         /\ IsFiniteSet(Marked(DOMAIN diff, x))
         /\ totals[x] = Cardinality(Marked(DOMAIN diff, x))

\* Sides are finite.
LEMMA SidesAreGraphs ==
    ASSUME NEW side \in Heads \cup Baselines
    PROVE  /\ IsFiniteSet(DOMAIN side)
           /\ \A p \in DOMAIN side, k \in D!Kinds : IsGraph(side[p][k])
BY ChangesAssumption, SameCounting, Zenon DEF D!ChangesParameters, IsGraph

\* One more project is counted beside those before it.
LEMMA MarkedGrows ==
    ASSUME NEW ps, NEW p, p \notin ps, NEW x, IsFiniteSet(Marked(ps, x)), IsFiniteSet(Changed(p, x))
    PROVE  /\ IsFiniteSet(Marked(ps \cup {p}, x))
           /\ Cardinality(Marked(ps \cup {p}, x)) =
                Cardinality(Marked(ps, x)) + Cardinality(Changed(p, x))
<1> DEFINE new == {p} \X Changed(p, x)
           f == [i \in Changed(p, x) |-> <<p, i>>]
<1>1. IsFiniteSet(new) /\ Cardinality(new) = Cardinality(Changed(p, x))
  <2>1. f \in [Changed(p, x) -> new] /\ \A i, j \in Changed(p, x) : f[i] = f[j] => i = j
    OBVIOUS
  <2>2. \A t \in new : \E i \in Changed(p, x) : f[i] = t
    OBVIOUS
  <2> HIDE DEF f, new
  <2> QED BY <2>1, <2>2, SameNumber
<1>2. Marked(ps \cup {p}, x) = Marked(ps, x) \cup new
  BY DEF Marked
<1>3. Marked(ps, x) \cap new = {}
  <2>1. \A z \in Marked(ps, x) : z[1] \in ps
    BY DEF Marked
  <2>2. \A z \in new : z[1] = p
    OBVIOUS
  <2> QED BY <2>1, <2>2
<1> HIDE DEF new
<1> QED BY <1>1, <1>2, <1>3, TwoCounts

\* What one project changes is finite.
LEMMA ChangedIsFinite ==
    ASSUME NEW p, NEW k, NEW part \in D!Parts, IsGraph(head[p][k]), IsGraph(base[p][k])
    PROVE  IsFiniteSet(Changed(p, <<part, k>>))
<1> DEFINE h == head[p][k]
           b == base[p][k]
           d == D!DiffKind(h, b)
<1>1. Changed(p, <<part, k>>) = DOMAIN d[part]
  BY DEF Changed
<1>2. /\ DOMAIN d.added = DOMAIN h \ DOMAIN b
      /\ DOMAIN d.removed = DOMAIN b \ DOMAIN h
      /\ DOMAIN d.modified = {i \in DOMAIN h \cap DOMAIN b : h[i] # b[i]}
      /\ d["added"] = d.added /\ d["removed"] = d.removed /\ d["modified"] = d.modified
  BY DifferenceHas
<1>3. IsFiniteSet(DOMAIN h) /\ IsFiniteSet(DOMAIN b)
  BY DEF IsGraph
<1> HIDE DEF h, b, d
<1>4. DOMAIN d[part] \subseteq DOMAIN h \/ DOMAIN d[part] \subseteq DOMAIN b
  BY <1>2 DEF D!Parts
<1> QED BY <1>1, <1>3, <1>4, FS_Subset

\* Nothing is compared at the start.
LEMMA ChangesInit == D!ChangesInit => ChangesInv
<1> SUFFICES ASSUME D!ChangesInit PROVE ChangesInv
  OBVIOUS
<1>1. DOMAIN diff = {} /\ diff = <<>>
  BY DEF D!ChangesInit
<1>2. \A x : Marked(DOMAIN diff, x) = {}
  BY <1>1 DEF Marked
<1>3. \A x \in D!Parts \X D!Kinds : totals[x] = 0 /\ totals = [y \in D!Parts \X D!Kinds |-> totals[y]]
  BY DEF D!ChangesInit, D!NoTotals
<1>4. totals = [y \in D!Parts \X D!Kinds |-> totals[y]]
  BY DEF D!ChangesInit, D!NoTotals
<1>5. head \in Heads /\ base \in Heads \cup Baselines \cup {None} /\ outcome = "none"
      /\ (asked # "engine" => base = None)
  BY DEF D!ChangesInit
<1> QED BY <1>1, <1>2, <1>3, <1>4, <1>5, FS_EmptySet DEF ChangesInv

\* A comparison that is refused has a status of its own.
LEMMA CompareStep == ASSUME ChangesInv, D!Compare PROVE ChangesInv'
<1>1. outcome' = D!StatusOf /\ UNCHANGED <<head, base, asked, diff, totals>>
  BY DEF D!Compare
<1>2. diff = <<>>
  BY DEF D!Compare, ChangesInv
<1>3. D!StatusOf # "ok" /\ (D!StatusOf = "comparing" => Comparable)
  BY DEF D!StatusOf, Comparable
<1> QED BY <1>1, <1>2, <1>3 DEF ChangesInv, Comparable, D!SchemaOf, Marked, Changed

\* The tool can name only the pinned scope.
LEMMA ChooseStep == ASSUME ChangesInv, D!Choose PROVE ChangesInv'
<1>1. /\ outcome' = "chosen" /\ UNCHANGED <<head, asked, diff, totals>>
      /\ base' \in {None, head}
  BY DEF D!Choose
<1>2. diff = <<>> /\ DOMAIN diff = {}
  BY DEF D!Choose, ChangesInv
<1>3. \A x : Marked(DOMAIN diff, x)' = {} /\ Marked(DOMAIN diff, x) = {}
  BY <1>1, <1>2 DEF Marked
<1> QED BY <1>1, <1>2, <1>3 DEF ChangesInv

\* Both sides of a comparison that is under way are finite, project by project.
LEMMA BothAreGraphs ==
    ASSUME ChangesInv, outcome \in {"comparing", "ok"}, NEW p \in DOMAIN head, NEW k \in D!Kinds
    PROVE  IsGraph(head[p][k]) /\ IsGraph(base[p][k])
<1>1. head \in Heads \cup Baselines /\ base \in Heads \cup Baselines /\ p \in DOMAIN base
  BY DEF ChangesInv, Comparable
<1> QED BY <1>1, SidesAreGraphs

\* The next project is compared and what it changes is counted.
LEMMA DiffProjectStep == ASSUME ChangesInv, D!DiffProject PROVE ChangesInv'
<1> DEFINE found(p) == [k \in D!Kinds |-> D!DiffKind(head[p][k], base[p][k])]
<1>1. PICK p \in DOMAIN head \ DOMAIN diff :
        /\ diff' = [q \in DOMAIN diff \cup {p} |-> IF q = p THEN found(p) ELSE diff[q]]
        /\ totals' = [x \in D!Parts \X D!Kinds |->
                        totals[x] + D!Cardinality(DOMAIN found(p)[x[2]][x[1]])]
  BY Zenon DEF D!DiffProject
<1>2. outcome = "comparing" /\ UNCHANGED <<head, base, asked, outcome>>
  BY DEF D!DiffProject
<1>3. DOMAIN diff' = DOMAIN diff \cup {p}
  BY <1>1
<1>4. \A q \in DOMAIN diff' : diff'[q] = found(q)
  BY <1>1 DEF ChangesInv
<1>5. ASSUME NEW x \in D!Parts \X D!Kinds
      PROVE  /\ IsFiniteSet(Marked(DOMAIN diff', x))
             /\ totals'[x] = Cardinality(Marked(DOMAIN diff', x))
  <2>1. x[1] \in D!Parts /\ x[2] \in D!Kinds /\ x = <<x[1], x[2]>>
    OBVIOUS
  <2>2. IsFiniteSet(Changed(p, x))
    <3>1. IsGraph(head[p][x[2]]) /\ IsGraph(base[p][x[2]])
      BY <1>2, <2>1, BothAreGraphs
    <3>2. IsFiniteSet(Changed(p, <<x[1], x[2]>>))
      BY <2>1, <3>1, ChangedIsFinite
    <3> QED BY <2>1, <3>2
  <2>3. DOMAIN found(p)[x[2]][x[1]] = Changed(p, x)
    BY <2>1 DEF Changed
  <2>4. totals'[x] = totals[x] + Cardinality(Changed(p, x))
    BY <1>1, <2>3, SameCounting
  <2>5. IsFiniteSet(Marked(DOMAIN diff, x)) /\ totals[x] = Cardinality(Marked(DOMAIN diff, x))
    BY DEF ChangesInv
  <2> QED BY <1>1, <1>3, <2>2, <2>4, <2>5, MarkedGrows
<1>6. (\A x \in D!Parts \X D!Kinds :
         /\ IsFiniteSet(Marked(DOMAIN diff, x))
         /\ totals[x] = Cardinality(Marked(DOMAIN diff, x)))'
  BY <1>2, <1>5 DEF Marked, Changed
<1>7. totals' = [x \in D!Parts \X D!Kinds |-> totals'[x]]
  BY <1>1
<1>8. Comparable' <=> Comparable
  BY <1>2 DEF Comparable, D!SchemaOf
<1>9. (\A q \in DOMAIN diff : diff[q] = [k \in D!Kinds |-> D!DiffKind(head[q][k], base[q][k])])'
  BY <1>2, <1>4
<1>10. DOMAIN diff' \subseteq DOMAIN head'
  BY <1>1, <1>2, <1>3 DEF ChangesInv
<1> QED BY <1>2, <1>6, <1>7, <1>8, <1>9, <1>10 DEF ChangesInv

\* A comparison is complete when every project has been compared.
LEMMA ComparedStep == ASSUME ChangesInv, D!Compared PROVE ChangesInv'
<1>1. /\ outcome = "comparing" /\ outcome' = "ok" /\ DOMAIN diff = DOMAIN head
      /\ UNCHANGED <<head, base, asked, diff, totals>>
  BY DEF D!Compared
<1>2. Comparable' <=> Comparable
  BY <1>1 DEF Comparable, D!SchemaOf
<1> QED BY <1>1, <1>2 DEF ChangesInv, Marked, Changed

\* The facts of a side.
LEMMA FactIs ==
    ASSUME NEW side, NEW k, NEW z
    PROVE  z \in D!FactsOf(side, k) <=>
             \E p \in DOMAIN side : \E i \in DOMAIN side[p][k] : z = <<p, i, side[p][k][i]>>
BY DEF D!FactsOf

\* The difference of one project, by its parts.
LEMMA FoundIs ==
    ASSUME ChangesInv, NEW p \in DOMAIN diff, NEW k \in D!Kinds
    PROVE  /\ diff[p][k] = D!DiffKind(head[p][k], base[p][k])
           /\ DOMAIN diff[p][k].added = DOMAIN head[p][k] \ DOMAIN base[p][k]
           /\ DOMAIN diff[p][k].modified =
                {i \in DOMAIN head[p][k] \cap DOMAIN base[p][k] : head[p][k][i] # base[p][k][i]}
           /\ \A i \in DOMAIN diff[p][k].added : diff[p][k].added[i] = head[p][k][i]
           /\ \A i \in DOMAIN diff[p][k].modified : diff[p][k].modified[i] = head[p][k][i]
           /\ Changed(p, <<"added", k>>) = DOMAIN head[p][k] \ DOMAIN base[p][k]
           /\ Changed(p, <<"removed", k>>) = DOMAIN base[p][k] \ DOMAIN head[p][k]
           /\ Changed(p, <<"modified", k>>) =
                {i \in DOMAIN head[p][k] \cap DOMAIN base[p][k] : head[p][k][i] # base[p][k][i]}
<1> DEFINE d == D!DiffKind(head[p][k], base[p][k])
<1>1. diff[p][k] = d
  BY DEF ChangesInv
<1>2. /\ DOMAIN d.added = DOMAIN head[p][k] \ DOMAIN base[p][k]
      /\ DOMAIN d.removed = DOMAIN base[p][k] \ DOMAIN head[p][k]
      /\ DOMAIN d.modified =
           {i \in DOMAIN head[p][k] \cap DOMAIN base[p][k] : head[p][k][i] # base[p][k][i]}
      /\ \A i \in DOMAIN d.added : d.added[i] = head[p][k][i]
      /\ \A i \in DOMAIN d.modified : d.modified[i] = head[p][k][i]
      /\ d["added"] = d.added /\ d["removed"] = d.removed /\ d["modified"] = d.modified
  BY DifferenceHas
<1>3. \A part : Changed(p, <<part, k>>) = DOMAIN d[part]
  BY DEF Changed
<1> HIDE DEF d
<1> QED BY <1>1, <1>2, <1>3 DEF d

\* A complete comparison answers with what the head has and the baseline has not.
LEMMA FactsAreNew ==
    ASSUME ChangesInv, outcome = "ok", NEW k \in D!Kinds
    PROVE  D!ChangeFacts(k) = D!FactsOf(head, k) \ D!FactsOf(base, k)
<1>1. DOMAIN diff = DOMAIN head /\ DOMAIN base = DOMAIN head
  BY DEF ChangesInv, Comparable
<1>2. \A z : z \in D!ChangeFacts(k) <=>
        \E p \in DOMAIN head :
          \/ \E i \in DOMAIN diff[p][k].added : z = <<p, i, diff[p][k].added[i]>>
          \/ \E i \in DOMAIN diff[p][k].modified : z = <<p, i, diff[p][k].modified[i]>>
  BY <1>1 DEF D!ChangeFacts
<1>3. \A z : z \in D!ChangeFacts(k) <=>
        \E p \in DOMAIN head : \E i \in DOMAIN head[p][k] :
          /\ z = <<p, i, head[p][k][i]>>
          /\ i \in DOMAIN base[p][k] => head[p][k][i] # base[p][k][i]
  <2>1. ASSUME NEW p \in DOMAIN head, NEW z
        PROVE  (\/ \E i \in DOMAIN diff[p][k].added : z = <<p, i, diff[p][k].added[i]>>
                \/ \E i \in DOMAIN diff[p][k].modified : z = <<p, i, diff[p][k].modified[i]>>)
               <=> \E i \in DOMAIN head[p][k] :
                     /\ z = <<p, i, head[p][k][i]>>
                     /\ i \in DOMAIN base[p][k] => head[p][k][i] # base[p][k][i]
    <3> DEFINE h == head[p][k]
               b == base[p][k]
               d == diff[p][k]
    <3>1. p \in DOMAIN diff
      BY <1>1
    <3>2. /\ DOMAIN d.added = DOMAIN h \ DOMAIN b
          /\ DOMAIN d.modified = {i \in DOMAIN h \cap DOMAIN b : h[i] # b[i]}
          /\ \A i \in DOMAIN d.added : d.added[i] = h[i]
          /\ \A i \in DOMAIN d.modified : d.modified[i] = h[i]
      BY <3>1, FoundIs, Zenon
    <3> HIDE DEF h, b, d
    <3>3. \A i : i \in DOMAIN d.added <=> i \in DOMAIN h /\ i \notin DOMAIN b
      BY <3>2
    <3>4. \A i : i \in DOMAIN d.modified <=> i \in DOMAIN h /\ i \in DOMAIN b /\ h[i] # b[i]
      BY <3>2
    <3>5. (\/ \E i \in DOMAIN d.added : z = <<p, i, d.added[i]>>
           \/ \E i \in DOMAIN d.modified : z = <<p, i, d.modified[i]>>)
          <=> \E i \in DOMAIN h : z = <<p, i, h[i]>> /\ (i \in DOMAIN b => h[i] # b[i])
      BY <3>2, <3>3, <3>4, Zenon
    <3> QED BY <3>5 DEF h, b, d
  <2> DEFINE Parts(p, z) == \/ \E i \in DOMAIN diff[p][k].added : z = <<p, i, diff[p][k].added[i]>>
                            \/ \E i \in DOMAIN diff[p][k].modified :
                                 z = <<p, i, diff[p][k].modified[i]>>
             New(p, z) == \E i \in DOMAIN head[p][k] :
                            /\ z = <<p, i, head[p][k][i]>>
                            /\ i \in DOMAIN base[p][k] => head[p][k][i] # base[p][k][i]
  <2>2. \A p \in DOMAIN head : \A z : Parts(p, z) <=> New(p, z)
    BY <2>1, Zenon
  <2>3. \A z : z \in D!ChangeFacts(k) <=> \E p \in DOMAIN head : Parts(p, z)
    BY <1>2, Zenon
  <2> HIDE DEF Parts, New
  <2>4. \A z : z \in D!ChangeFacts(k) <=> \E p \in DOMAIN head : New(p, z)
    BY <2>2, <2>3, Zenon
  <2> QED BY <2>4, Zenon DEF New
<1>4. ASSUME NEW p \in DOMAIN head, NEW i \in DOMAIN head[p][k]
      PROVE  <<p, i, head[p][k][i]>> \in D!FactsOf(base, k) <=>
               i \in DOMAIN base[p][k] /\ head[p][k][i] = base[p][k][i]
  BY <1>1, FactIs
<1>5. \A z : z \in D!ChangeFacts(k) <=> z \in D!FactsOf(head, k) /\ z \notin D!FactsOf(base, k)
  BY <1>3, <1>4, FactIs
<1> QED BY <1>5

\* The marks of a complete comparison and the facts that one side has alone correspond.
LEMMA MarksAreFacts ==
    ASSUME NEW k, NEW this, NEW that, DOMAIN this = DOMAIN that,
           NEW only, IsFiniteSet(only),
           \A z : z \in only <=>
             \E p \in DOMAIN this : \E i \in DOMAIN this[p][k] :
               /\ z = <<p, i>>
               /\ i \in DOMAIN that[p][k] => this[p][k][i] # that[p][k][i]
    PROVE  Cardinality(D!FactsOf(this, k) \ D!FactsOf(that, k)) = Cardinality(only)
<1> DEFINE new == D!FactsOf(this, k) \ D!FactsOf(that, k)
           f == [z \in only |-> <<z[1], z[2], this[z[1]][k][z[2]]>>]
<1>1. ASSUME NEW p \in DOMAIN this, NEW i \in DOMAIN this[p][k]
      PROVE  <<p, i, this[p][k][i]>> \in D!FactsOf(that, k) <=>
               i \in DOMAIN that[p][k] /\ this[p][k][i] = that[p][k][i]
  BY FactIs
<1>2. \A z : z \in new <=>
        \E p \in DOMAIN this : \E i \in DOMAIN this[p][k] :
          /\ z = <<p, i, this[p][k][i]>>
          /\ i \in DOMAIN that[p][k] => this[p][k][i] # that[p][k][i]
  BY <1>1, FactIs
<1> HIDE DEF new
<1>3. f \in [only -> new]
  BY <1>2
<1>4. \A x, y \in only : f[x] = f[y] => x = y
  OBVIOUS
<1>5. \A t \in new : \E z \in only : f[z] = t
  <2> SUFFICES ASSUME NEW t \in new PROVE \E z \in only : f[z] = t
    OBVIOUS
  <2>1. PICK p \in DOMAIN this : \E i \in DOMAIN this[p][k] :
          /\ t = <<p, i, this[p][k][i]>>
          /\ i \in DOMAIN that[p][k] => this[p][k][i] # that[p][k][i]
    BY <1>2
  <2>2. PICK i \in DOMAIN this[p][k] :
          /\ t = <<p, i, this[p][k][i]>>
          /\ i \in DOMAIN that[p][k] => this[p][k][i] # that[p][k][i]
    BY <2>1
  <2>3. <<p, i>> \in only /\ f[<<p, i>>] = t
    BY <2>2
  <2> QED BY <2>3
<1> HIDE DEF f
<1>6. IsFiniteSet(only)
  OBVIOUS
<1>7. Cardinality(new) = Cardinality(only)
  BY ONLY <1>3, <1>4, <1>5, <1>6, SameNumber
<1> QED BY <1>7 DEF new

\* The totals of a complete comparison count those facts.
LEMMA TotalsCount ==
    ASSUME ChangesInv, outcome = "ok", NEW k \in D!Kinds
    PROVE  LET new == D!FactsOf(head, k) \ D!FactsOf(base, k)
               old == D!FactsOf(base, k) \ D!FactsOf(head, k)
           IN  /\ totals[<<"added", k>>] + totals[<<"modified", k>>] = Cardinality(new)
               /\ totals[<<"removed", k>>] + totals[<<"modified", k>>] = Cardinality(old)
<1> DEFINE M(part) == Marked(DOMAIN diff, <<part, k>>)
<1>1. DOMAIN diff = DOMAIN head /\ DOMAIN base = DOMAIN head
  BY DEF ChangesInv, Comparable
<1>2. \A part \in D!Parts : IsFiniteSet(M(part)) /\ totals[<<part, k>>] = Cardinality(M(part))
  BY DEF ChangesInv
<1>3. \A part, z : z \in M(part) <=>
        \E p \in DOMAIN head : \E i \in Changed(p, <<part, k>>) : z = <<p, i>>
  BY <1>1 DEF Marked
<1> HIDE DEF M
<1>4. ASSUME NEW p \in DOMAIN head
       PROVE  /\ Changed(p, <<"added", k>>) = DOMAIN head[p][k] \ DOMAIN base[p][k]
              /\ Changed(p, <<"removed", k>>) = DOMAIN base[p][k] \ DOMAIN head[p][k]
              /\ Changed(p, <<"modified", k>>) =
                   {i \in DOMAIN head[p][k] \cap DOMAIN base[p][k] : head[p][k][i] # base[p][k][i]}
  <2>1. p \in DOMAIN diff
    BY <1>1
  <2> QED BY <2>1, FoundIs, Zenon
<1>5. \A z : z \in M("added") <=>
        \E p \in DOMAIN head : \E i \in DOMAIN head[p][k] : z = <<p, i>> /\ i \notin DOMAIN base[p][k]
  BY <1>3, <1>4
<1>6. \A z : z \in M("removed") <=>
        \E p \in DOMAIN head : \E i \in DOMAIN base[p][k] : z = <<p, i>> /\ i \notin DOMAIN head[p][k]
  BY <1>3, <1>4
<1>7. \A z : z \in M("modified") <=>
        \E p \in DOMAIN head : \E i \in DOMAIN head[p][k] :
          z = <<p, i>> /\ i \in DOMAIN base[p][k] /\ head[p][k][i] # base[p][k][i]
  BY <1>3, <1>4
<1>8. /\ M("added") \cap M("modified") = {} /\ M("removed") \cap M("modified") = {}
  BY <1>5, <1>6, <1>7
<1>9. /\ IsFiniteSet(M("added") \cup M("modified"))
      /\ Cardinality(M("added") \cup M("modified")) =
           totals[<<"added", k>>] + totals[<<"modified", k>>]
      /\ IsFiniteSet(M("removed") \cup M("modified"))
      /\ Cardinality(M("removed") \cup M("modified")) =
           totals[<<"removed", k>>] + totals[<<"modified", k>>]
  BY <1>2, <1>8, TwoCounts DEF D!Parts
<1>10. \A z : z \in M("added") \cup M("modified") <=>
        \E p \in DOMAIN head : \E i \in DOMAIN head[p][k] :
          z = <<p, i>> /\ (i \in DOMAIN base[p][k] => head[p][k][i] # base[p][k][i])
  BY <1>5, <1>7
<1>11. \A z : z \in M("removed") \cup M("modified") <=>
        \E p \in DOMAIN base : \E i \in DOMAIN base[p][k] :
          z = <<p, i>> /\ (i \in DOMAIN head[p][k] => base[p][k][i] # head[p][k][i])
  BY <1>1, <1>6, <1>7
<1>12. Cardinality(D!FactsOf(head, k) \ D!FactsOf(base, k)) =
         Cardinality(M("added") \cup M("modified"))
  BY <1>1, <1>9, <1>10, MarksAreFacts
<1>13. Cardinality(D!FactsOf(base, k) \ D!FactsOf(head, k)) =
         Cardinality(M("removed") \cup M("modified"))
  BY <1>1, <1>9, <1>11, MarksAreFacts
<1> QED BY <1>9, <1>12, <1>13

\* What holds of a comparison that is done.
LEMMA ChangesAreSafe == ASSUME ChangesInv PROVE D!ChangesAreExact
<1>1. ASSUME outcome = "ok" PROVE DOMAIN head = DOMAIN base /\ (asked # "engine" => base = head)
  BY <1>1 DEF ChangesInv, Comparable
<1>2. ASSUME outcome = "ok", NEW p \in DOMAIN head, NEW q \in DOMAIN head
      PROVE  head[p].schema = base[q].schema /\ head[p].schema # None
  <2>1. IsFiniteSet(DOMAIN head) /\ IsFiniteSet(DOMAIN base)
    BY <1>2, SidesAreGraphs DEF ChangesInv, Comparable
  <2> QED BY <1>1, <1>2, <2>1, OneSchema DEF ChangesInv, Comparable
<1>3. ASSUME outcome = "ok", NEW p \in DOMAIN head, NEW k \in D!Kinds
      PROVE  D!Applied(base[p][k], diff[p][k]) = head[p][k]
  <2>1. p \in DOMAIN diff
    BY <1>3 DEF ChangesInv
  <2>2. diff[p][k] = D!DiffKind(head[p][k], base[p][k])
    BY <1>3, <2>1, FoundIs, Zenon
  <2>3. IsGraph(head[p][k]) /\ IsGraph(base[p][k])
    BY <1>3, BothAreGraphs
  <2> QED BY <2>2, <2>3, PatchIsComplete
<1>4. ASSUME outcome = "ok", NEW k \in D!Kinds
      PROVE  LET new == D!FactsOf(head, k) \ D!FactsOf(base, k)
                 old == D!FactsOf(base, k) \ D!FactsOf(head, k)
             IN  /\ D!ChangeFacts(k) = new
                 /\ totals[<<"added", k>>] + totals[<<"modified", k>>] = D!Cardinality(new)
                 /\ totals[<<"removed", k>>] + totals[<<"modified", k>>] = D!Cardinality(old)
  BY <1>4, FactsAreNew, TotalsCount, SameCounting
<1>5. outcome \notin {"ok", "comparing"} => diff = <<>>
  BY DEF ChangesInv
<1> QED BY <1>1, <1>2, <1>3, <1>4, <1>5 DEF D!ChangesAreExact

\* A comparison is a complete and minimal patch, of comparable scopes only, and the tool
\* compares with no baseline that it has not pinned (changes.py).
THEOREM ComparisonsAreExact == RuntimeSpec => []ChangesAreExact
<1> DEFINE I == user = "changes" => ChangesInv
<1>1. RuntimeInit => I
  BY ChangesInit DEF RuntimeInit
<1>2. I /\ [RuntimeNext]_runtimeVars => I'
  <2> SUFFICES ASSUME I, [RuntimeNext]_runtimeVars PROVE I'
    OBVIOUS
  <2>1. CASE user = "changes" /\ D!ChangesNext /\ user' = user
    BY <2>1, ChooseStep, CompareStep, DiffProjectStep, ComparedStep DEF D!ChangesNext
  <2>2. CASE UNCHANGED <<user, changesOnly>>
    <3>1. UNCHANGED <<head, base, asked, diff, totals, outcome>> /\ user' = user
      BY <2>2 DEF changesOnly
    <3>2. Comparable' <=> Comparable
      BY <3>1 DEF Comparable, D!SchemaOf
    <3>3. ChangesInv => ChangesInv'
      BY <3>1, <3>2 DEF ChangesInv, Marked, Changed
    <3> QED BY <3>1, <3>3
  <2>3. (user = "changes" /\ D!ChangesNext /\ user' = user) \/ UNCHANGED <<user, changesOnly>>
    BY DEF RuntimeNext, RetentionStep, ShardStep, CursorStep, CallStep, StatusStep, ChangesStep,
           runtimeVars
  <2> QED BY <2>1, <2>2, <2>3
<1>3. I => ChangesAreExact
  BY ChangesAreSafe DEF ChangesAreExact
<1> QED BY <1>1, <1>2, <1>3, PTL DEF RuntimeSpec, runtimeVars

----------------------------------------------------------------------------
(* GenerationRetention and SnapshotCache: lists, by their length. *)

\* A set that has 0 and, with a number, the next one, has every number.
LEMMA Counting ==
    ASSUME NEW Goal, 0 \in Goal, \A k \in Nat : k \in Goal => k + 1 \in Goal
    PROVE  \A k \in Nat : k \in Goal
<1> DEFINE M == Nat \ Goal
<1>1. ASSUME M # {} PROVE FALSE
  <2>1. PICK l \in M : \A j \in M : l <= j
    <3>1. M \subseteq Nat
      OBVIOUS
    <3> HIDE DEF M
    <3> QED BY <1>1, <3>1, LeastIsMember
  <2>2. l \in Nat /\ l # 0
    BY <2>1
  <2>3. l - 1 \in Nat /\ (l - 1) + 1 = l /\ ~(l <= l - 1)
    BY <2>2
  <2>4. l - 1 \in Goal
    BY <2>1, <2>3
  <2>5. (l - 1) + 1 \in Goal
    BY <2>3, <2>4
  <2> QED BY <2>1, <2>3, <2>5
<1> QED BY <1>1

\* f starts with r and goes on by H, which sees the number too, up to n.
Goes(f, r, H, n) == f[0] = r /\ \A k \in 1..n : f[k] = H[<<k, f[k - 1]>>]

\* There is such a function.
LEMMA GoesOn ==
    ASSUME NEW V, NEW r \in V, NEW H, NEW n \in Nat,
           \A k \in 1..n : \A v \in V : H[<<k, v>>] \in V
    PROVE  \E f \in [0..n -> V] : Goes(f, r, H, n)
<1> DEFINE Part(m) == \E f \in [0..m -> V] : Goes(f, r, H, m)
           Goal == {m \in Nat : m <= n => Part(m)}
<1>1. Part(0)
  <2>1. [k \in 0..0 |-> r] \in [0..0 -> V] /\ Goes([k \in 0..0 |-> r], r, H, 0)
    BY DEF Goes
  <2> QED BY <2>1
<1>2. ASSUME NEW m \in Nat, m + 1 <= n, Part(m) PROVE Part(m + 1)
  <2>1. PICK f \in [0..m -> V] : Goes(f, r, H, m)
    BY <1>2
  <2>2. H[<<m + 1, f[m]>>] \in V
    BY <1>2
  <2> DEFINE last == H[<<m + 1, f[m]>>]
             g == [k \in 0..(m + 1) |-> IF k = m + 1 THEN last ELSE f[k]]
  <2>3. g \in [0..(m + 1) -> V]
    BY <2>2
  <2>4. Goes(g, r, H, m + 1)
    <3>1. g[0] = r
      BY <2>1 DEF Goes
    <3>2. ASSUME NEW k \in 1..(m + 1) PROVE g[k] = H[<<k, g[k - 1]>>]
      <4>1. CASE k = m + 1
        BY <4>1
      <4>2. CASE k \in 1..m
        <5>1. f[k] = H[<<k, f[k - 1]>>]
          BY <2>1, <4>2 DEF Goes
        <5>2. k # m + 1 /\ k - 1 # m + 1 /\ k - 1 \in 0..(m + 1) /\ k \in 0..(m + 1)
          BY <4>2
        <5> HIDE DEF last
        <5>3. g[k] = f[k] /\ g[k - 1] = f[k - 1]
          BY <5>2
        <5> QED BY <5>1, <5>3
      <4> QED BY <4>1, <4>2
    <3> HIDE DEF g
    <3> QED BY <3>1, <3>2 DEF Goes
  <2> QED BY <2>3, <2>4
<1>3. \A m \in Nat : m \in Goal
  <2>1. 0 \in Goal /\ \A m \in Nat : m \in Goal => m + 1 \in Goal
    <3> HIDE DEF Part
    <3> QED BY <1>1, <1>2
  <2> HIDE DEF Goal
  <2> QED BY <2>1, Counting
<1> HIDE DEF Part
<1>4. Part(n)
  BY <1>3
<1> QED BY <1>4 DEF Part

\* A set of lists that has the empty one and, with a list, every list that is longer by one
\* element has every list.
LEMMA Growing ==
    ASSUME NEW U, NEW Goal, <<>> \in Goal,
           \A s \in Seq(U) : s \in Goal => \A e \in U : Append(s, e) \in Goal
    PROVE  \A s \in Seq(U) : s \in Goal
<1> DEFINE M == {n \in Nat : \A s \in Seq(U) : Len(s) = n => s \in Goal}
<1>1. 0 \in M
  <2>1. \A s \in Seq(U) : Len(s) = 0 => s = <<>>
    OBVIOUS
  <2> QED BY <2>1
<1>2. ASSUME NEW n \in Nat, n \in M PROVE n + 1 \in M
  <2> SUFFICES ASSUME NEW s \in Seq(U), Len(s) = n + 1 PROVE s \in Goal
    OBVIOUS
  <2> DEFINE t == SubSeq(s, 1, n)
             e == s[n + 1]
  <2>1. t \in Seq(U) /\ Len(t) = n /\ e \in U /\ s = Append(t, e)
    OBVIOUS
  <2>2. t \in Goal
    BY <1>2, <2>1
  <2> HIDE DEF t, e
  <2> QED BY <2>1, <2>2
<1>3. \A n \in Nat : n \in M
  <2> HIDE DEF M
  <2> QED BY <1>1, <1>2, Counting
<1> QED BY <1>3

\* The function under Kept, and the one under WeightOf.
Picks(f, s, X) ==
    f = [i \in 0..Len(s) |->
            IF i = 0 THEN <<>>
            ELSE IF s[i] \in X THEN Append(f[i - 1], s[i]) ELSE f[i - 1]]
Sums(f, es) == f = [i \in 0..Len(es) |-> IF i = 0 THEN 0 ELSE f[i - 1] + es[i].size]

Agree(s, t, n) == \A i \in 1..n : s[i] = t[i]

\* As far as two lists agree, so do these functions.
LEMMA PicksAgree ==
    ASSUME NEW s, NEW t, NEW X, NEW f, NEW g, Picks(f, s, X), Picks(g, t, X),
           NEW n \in Nat, Len(s) \in Nat, Len(t) \in Nat, n <= Len(s), n <= Len(t), Agree(s, t, n)
    PROVE  f[n] = g[n]
<1> DEFINE Goal == {k \in Nat : k <= n => f[k] = g[k]}
<1>1. /\ \A k \in 0..Len(s) : f[k] = IF k = 0 THEN <<>>
                ELSE IF s[k] \in X THEN Append(f[k - 1], s[k]) ELSE f[k - 1]
      /\ \A k \in 0..Len(t) : g[k] = IF k = 0 THEN <<>>
                ELSE IF t[k] \in X THEN Append(g[k - 1], t[k]) ELSE g[k - 1]
  BY Zenon DEF Picks
<1>2. 0 \in Goal
  BY <1>1
<1>3. ASSUME NEW k \in Nat, k \in Goal PROVE k + 1 \in Goal
  <2> SUFFICES ASSUME k + 1 <= n PROVE f[k + 1] = g[k + 1]
    OBVIOUS
  <2>1. k + 1 \in 0..Len(s) /\ k + 1 \in 0..Len(t) /\ k + 1 # 0 /\ (k + 1) - 1 = k
        /\ k + 1 \in 1..n /\ f[k] = g[k]
    BY <1>3
  <2>2. s[k + 1] = t[k + 1]
    BY <2>1 DEF Agree
  <2> QED BY <1>1, <2>1, <2>2
<1>4. \A k \in Nat : k \in Goal
  <2> HIDE DEF Goal
  <2> QED BY <1>2, <1>3, Counting
<1> QED BY <1>4

LEMMA SumsAgree ==
    ASSUME NEW s, NEW t, NEW f, NEW g, Sums(f, s), Sums(g, t),
           NEW n \in Nat, Len(s) \in Nat, Len(t) \in Nat, n <= Len(s), n <= Len(t), Agree(s, t, n)
    PROVE  f[n] = g[n]
<1> DEFINE Goal == {k \in Nat : k <= n => f[k] = g[k]}
<1>1. /\ \A k \in 0..Len(s) : f[k] = IF k = 0 THEN 0 ELSE f[k - 1] + s[k].size
      /\ \A k \in 0..Len(t) : g[k] = IF k = 0 THEN 0 ELSE g[k - 1] + t[k].size
  BY Zenon DEF Sums
<1>2. 0 \in Goal
  BY <1>1
<1>3. ASSUME NEW k \in Nat, k \in Goal PROVE k + 1 \in Goal
  <2> SUFFICES ASSUME k + 1 <= n PROVE f[k + 1] = g[k + 1]
    OBVIOUS
  <2>1. k + 1 \in 0..Len(s) /\ k + 1 \in 0..Len(t) /\ k + 1 # 0 /\ (k + 1) - 1 = k
        /\ k + 1 \in 1..n /\ f[k] = g[k]
    BY <1>3
  <2>2. s[k + 1] = t[k + 1]
    BY <2>1 DEF Agree
  <2> QED BY <1>1, <2>1, <2>2
<1>4. \A k \in Nat : k \in Goal
  <2> HIDE DEF Goal
  <2> QED BY <1>2, <1>3, Counting
<1> QED BY <1>4

\* Kept and WeightOf are what their recursions say.
LEMMA KeptIs ==
    ASSUME NEW U, NEW s \in Seq(U), NEW X
    PROVE  \E f : Picks(f, s, X) /\ Kept(s, X) = f[Len(s)] /\ f[Len(s)] \in Seq(U)
<1> DEFINE V == Seq(U)
           n == Len(s)
           H == [p \in (1..n) \X V |-> IF s[p[1]] \in X THEN Append(p[2], s[p[1]]) ELSE p[2]]
<1>1. n \in Nat /\ <<>> \in V /\ \A k \in 1..n : s[k] \in U
  OBVIOUS
<1>2. \A k \in 1..n : \A v \in V : H[<<k, v>>] = IF s[k] \in X THEN Append(v, s[k]) ELSE v
  OBVIOUS
<1>3. \A k \in 1..n : \A v \in V : H[<<k, v>>] \in V
  <2> SUFFICES ASSUME NEW k \in 1..n, NEW v \in V PROVE H[<<k, v>>] \in V
    OBVIOUS
  <2>1. s[k] \in U /\ Append(v, s[k]) \in V
    BY <1>1
  <2>2. H[<<k, v>>] = IF s[k] \in X THEN Append(v, s[k]) ELSE v
    BY <1>2
  <2> HIDE DEF H, V
  <2> QED BY <2>1, <2>2
<1>4. PICK f \in [0..n -> V] : Goes(f, <<>>, H, n)
  <2> HIDE DEF H, V, n
  <2> QED BY <1>1, <1>3, GoesOn
<1> HIDE DEF H, V
<1>5. \A k \in 0..n : f[k] = IF k = 0 THEN <<>>
                              ELSE IF s[k] \in X THEN Append(f[k - 1], s[k]) ELSE f[k - 1]
  <2>1. f[0] = <<>> /\ \A k \in 1..n : f[k] = H[<<k, f[k - 1]>>]
    BY <1>4, Zenon DEF Goes
  <2>2. ASSUME NEW k \in 1..n
        PROVE  f[k] = IF s[k] \in X THEN Append(f[k - 1], s[k]) ELSE f[k - 1]
    <3>1. k - 1 \in 0..n
      BY <1>1
    <3>2. f[k - 1] \in V
      BY <1>4, <3>1
    <3> QED BY <1>2, <2>1, <3>2
  <2>3. \A k \in 0..n : k = 0 \/ k \in 1..n
    BY <1>1
  <2>4. \A k \in 1..n : k # 0
    BY <1>1
  <2> QED BY <2>1, <2>2, <2>3, <2>4, Zenon
<1>6. Picks(f, s, X)
  <2>1. f = [k \in 0..n |-> f[k]]
    BY <1>4
  <2> QED BY <1>5, <2>1 DEF Picks
<1> DEFINE g == CHOOSE h : Picks(h, s, X)
<1>7. Picks(g, s, X)
  BY <1>6
<1>8. Kept(s, X) = g[Len(s)]
  BY Zenon DEF Kept, Picks
<1> HIDE DEF g
<1>9. f[n] = g[n]
  BY <1>1, <1>6, <1>7, PicksAgree DEF Agree
<1>10. f[n] \in V
  BY <1>1, <1>4
<1> QED BY <1>7, <1>8, <1>9, <1>10 DEF V

LEMMA WeightIs ==
    ASSUME NEW s \in Seq(Entry)
    PROVE  \E f : Sums(f, s) /\ WeightOf(s) = f[Len(s)] /\ f[Len(s)] \in Nat
<1> DEFINE n == Len(s)
           H == [p \in (1..n) \X Nat |-> p[2] + s[p[1]].size]
<1>1. n \in Nat /\ 0 \in Nat /\ \A k \in 1..n : s[k].size \in Nat
  <2>1. \A e \in Entry : e.size \in Nat
    BY LruAssumption DEF Entry
  <2> QED BY <2>1
<1>2. \A k \in 1..n : \A v \in Nat : H[<<k, v>>] = v + s[k].size
  OBVIOUS
<1> HIDE DEF H
<1>3. \A k \in 1..n : \A v \in Nat : H[<<k, v>>] \in Nat
  <2> SUFFICES ASSUME NEW k \in 1..n, NEW v \in Nat PROVE H[<<k, v>>] \in Nat
    OBVIOUS
  <2>1. H[<<k, v>>] = v + s[k].size /\ s[k].size \in Nat
    BY <1>1, <1>2
  <2> QED BY <2>1
<1>4. PICK f \in [0..n -> Nat] : Goes(f, 0, H, n)
  <2> HIDE DEF H, n
  <2> QED BY <1>1, <1>3, GoesOn
<1>5. \A k \in 0..n : f[k] = IF k = 0 THEN 0 ELSE f[k - 1] + s[k].size
  <2> SUFFICES ASSUME NEW k \in 1..n PROVE f[k] = f[k - 1] + s[k].size
    BY <1>4 DEF Goes
  <2> HIDE DEF H
  <2>1. f[k - 1] \in Nat /\ f[k] = H[<<k, f[k - 1]>>]
    BY <1>1, <1>4 DEF Goes
  <2> QED BY <1>2, <2>1
<1>6. Sums(f, s)
  <2>1. f = [k \in 0..n |-> f[k]]
    BY <1>4
  <2> QED BY <1>5, <2>1 DEF Sums
<1> DEFINE g == CHOOSE h : Sums(h, s)
<1>7. Sums(g, s)
  BY <1>6
<1>8. WeightOf(s) = g[Len(s)]
  BY Zenon DEF WeightOf, Sums
<1> HIDE DEF g
<1>9. f[n] = g[n]
  BY <1>1, <1>6, <1>7, SumsAgree DEF Agree
<1> QED BY <1>1, <1>4, <1>7, <1>8, <1>9

\* Nothing is kept of nothing.
LEMMA KeptNothing == \A X : Kept(<<>>, X) = <<>>
<1> SUFFICES ASSUME NEW X PROVE Kept(<<>>, X) = <<>>
  OBVIOUS
<1>1. <<>> \in Seq({}) /\ 0 \in 0..Len(<<>>) /\ Len(<<>>) = 0
  OBVIOUS
<1>2. PICK h : Picks(h, <<>>, X) /\ Kept(<<>>, X) = h[Len(<<>>)]
  BY <1>1, KeptIs
<1>3. h[0] = <<>>
  BY <1>1, <1>2, Zenon DEF Picks
<1> QED BY <1>1, <1>2, <1>3

\* Of a list that is longer by one element.
LEMMA KeptAppend ==
    ASSUME NEW U, NEW s \in Seq(U), NEW e \in U, NEW X
    PROVE  /\ Kept(s, X) \in Seq(U)
           /\ e \in X => Kept(Append(s, e), X) = Append(Kept(s, X), e)
           /\ e \notin X => Kept(Append(s, e), X) = Kept(s, X)
<1> DEFINE t == Append(s, e)
           n == Len(s)
<1>1. n \in Nat /\ n + 1 \in Nat /\ t \in Seq(U) /\ Len(t) = n + 1 /\ t[n + 1] = e /\ Agree(s, t, n)
      /\ n <= Len(s) /\ n <= Len(t)
  BY DEF Agree
<1>2. PICK f : Picks(f, s, X) /\ Kept(s, X) = f[n] /\ f[n] \in Seq(U)
  BY KeptIs
<1>3. PICK g : Picks(g, t, X) /\ Kept(t, X) = g[Len(t)]
  BY <1>1, KeptIs
<1>4. f[n] = g[n]
  <2> HIDE DEF t, n
  <2> QED BY <1>1, <1>2, <1>3, PicksAgree
<1>5. g[n + 1] = IF t[n + 1] \in X THEN Append(g[n], t[n + 1]) ELSE g[n]
  <2>1. \A k \in 0..Len(t) : g[k] = IF k = 0 THEN <<>>
                ELSE IF t[k] \in X THEN Append(g[k - 1], t[k]) ELSE g[k - 1]
    BY <1>3, Zenon DEF Picks
  <2>2. n + 1 \in 0..Len(t) /\ n + 1 # 0 /\ (n + 1) - 1 = n
    BY <1>1
  <2> HIDE DEF t, n
  <2> QED BY <2>1, <2>2
<1> HIDE DEF t
<1>6. Kept(t, X) = IF e \in X THEN Append(Kept(s, X), e) ELSE Kept(s, X)
  BY <1>1, <1>2, <1>3, <1>4, <1>5
<1> QED BY <1>2, <1>6 DEF t

LEMMA WeightAppend ==
    ASSUME NEW s \in Seq(Entry), NEW e \in Entry
    PROVE  /\ WeightOf(s) \in Nat
           /\ WeightOf(Append(s, e)) = WeightOf(s) + e.size
<1> DEFINE t == Append(s, e)
           n == Len(s)
<1>1. n \in Nat /\ n + 1 \in Nat /\ t \in Seq(Entry) /\ Len(t) = n + 1 /\ t[n + 1] = e
      /\ Agree(s, t, n) /\ n <= Len(s) /\ n <= Len(t)
  BY DEF Agree
<1>2. PICK f : Sums(f, s) /\ WeightOf(s) = f[n] /\ f[n] \in Nat
  BY WeightIs
<1>3. PICK g : Sums(g, t) /\ WeightOf(t) = g[Len(t)]
  BY <1>1, WeightIs
<1>4. f[n] = g[n]
  <2> HIDE DEF t, n
  <2> QED BY <1>1, <1>2, <1>3, SumsAgree
<1>5. g[n + 1] = g[n] + t[n + 1].size
  <2>1. \A k \in 0..Len(t) : g[k] = IF k = 0 THEN 0 ELSE g[k - 1] + t[k].size
    BY <1>3, Zenon DEF Sums
  <2>2. n + 1 \in 0..Len(t) /\ n + 1 # 0 /\ (n + 1) - 1 = n
    BY <1>1
  <2> HIDE DEF t, n
  <2> QED BY <2>1, <2>2
<1> HIDE DEF t
<1>6. WeightOf(t) = WeightOf(s) + e.size
  BY <1>1, <1>2, <1>3, <1>4, <1>5
<1> QED BY <1>2, <1>6 DEF t

\* What KeptAppend says of one list, one element and one set.
Appends(s, e, X) ==
    /\ e \in X => Kept(Append(s, e), X) = Append(Kept(s, X), e)
    /\ e \notin X => Kept(Append(s, e), X) = Kept(s, X)

LEMMA KeptAppends ==
    \A U : \A s \in Seq(U) : \A e \in U : \A X : Kept(s, X) \in Seq(U) /\ Appends(s, e, X)
BY KeptAppend DEF Appends

Weighs(s, e) == WeightOf(Append(s, e)) = WeightOf(s) + e.size

LEMMA WeightAppends == \A s \in Seq(Entry) : \A e \in Entry : Weighs(s, e) /\ e.size \in Nat
<1>1. \A e \in Entry : e.size \in Nat
  BY LruAssumption DEF Entry
<1> QED BY <1>1, WeightAppend DEF Weighs

LEMMA WeightOfNothing == WeightOf(<<>>) = 0
<1>1. PICK h : Sums(h, <<>>) /\ WeightOf(<<>>) = h[Len(<<>>)]
  <2>1. <<>> \in Seq(Entry)
    OBVIOUS
  <2> QED BY <2>1, WeightIs
<1>2. 0 \in 0..Len(<<>>) /\ Len(<<>>) = 0
  OBVIOUS
<1>3. h[0] = 0
  BY <1>1, <1>2, Zenon DEF Sums
<1> QED BY <1>1, <1>2, <1>3

\* An equality that is not used to rewrite.
Same(s, t) == s = t

\* What is kept of two lists one after the other, and of what was kept before.
LEMMA KeptConcat ==
    ASSUME NEW U, NEW s \in Seq(U), NEW X
    PROVE  \A t \in Seq(U) : Kept(s \o t, X) = Kept(s, X) \o Kept(t, X)
<1> DEFINE Goal == {t \in Seq(U) : Kept(s \o t, X) = Kept(s, X) \o Kept(t, X)}
<1>1. Kept(<<>>, X) = <<>> /\ Kept(s, X) \in Seq(U)
  BY KeptNothing, KeptIs
<1>2. <<>> \in Goal
  <2>1. s \o <<>> = s /\ Kept(s, X) \o <<>> = Kept(s, X)
    BY <1>1
  <2> QED BY <1>1, <2>1
<1>3. ASSUME NEW t \in Seq(U), t \in Goal, NEW e \in U PROVE Append(t, e) \in Goal
  <2>1. PICK st \in Seq(U) : Same(st, s \o t)
    <3>1. s \o t \in Seq(U) /\ Same(s \o t, s \o t)
      BY DEF Same
    <3> QED BY <3>1, Zenon
  <2>2. s \o Append(t, e) = Append(st, e) /\ Append(t, e) \in Seq(U)
    BY <2>1 DEF Same
  <2>3. Appends(st, e, X)
    BY KeptAppends, Zenon
  <2>4. /\ e \in X => Kept(Append(t, e), X) = Append(Kept(t, X), e)
        /\ e \notin X => Kept(Append(t, e), X) = Kept(t, X)
        /\ Kept(t, X) \in Seq(U)
    BY KeptAppend
  <2>5. Kept(s, X) \o Append(Kept(t, X), e) = Append(Kept(s, X) \o Kept(t, X), e)
    BY <1>1, <2>4
  <2>6. Kept(st, X) = Kept(s, X) \o Kept(t, X)
    BY <1>3, <2>1 DEF Same
  <2>7. Kept(s \o Append(t, e), X) = Kept(s, X) \o Kept(Append(t, e), X)
    <3>1. CASE e \in X
      BY <2>2, <2>3, <2>4, <2>5, <2>6, <3>1, Zenon DEF Appends
    <3>2. CASE e \notin X
      BY <2>2, <2>3, <2>4, <2>6, <3>2, Zenon DEF Appends
    <3> QED BY <3>1, <3>2
  <2> QED BY <2>2, <2>7
<1>4. \A t \in Seq(U) : t \in Goal
  <2> HIDE DEF Goal
  <2> QED BY <1>2, <1>3, Growing
<1> QED BY <1>4

LEMMA KeptTwice ==
    ASSUME NEW U, NEW X, NEW Y, NEW Z, \A e : e \in Z <=> e \in X /\ e \in Y
    PROVE  \A s \in Seq(U) : Kept(Kept(s, X), Y) = Kept(s, Z)
<1> DEFINE Goal == {s \in Seq(U) : Kept(Kept(s, X), Y) = Kept(s, Z)}
<1>1. ASSUME NEW s \in Seq(U), s \in Goal, NEW e \in U PROVE Append(s, e) \in Goal
  <2>1. /\ Kept(s, X) \in Seq(U)
        /\ e \in X => Kept(Append(s, e), X) = Append(Kept(s, X), e)
        /\ e \notin X => Kept(Append(s, e), X) = Kept(s, X)
    BY KeptAppend
  <2>2. Appends(s, e, Z)
    BY KeptAppends, Zenon
  <2>3. PICK ks \in Seq(U) : ks = Kept(s, X)
    BY <2>1
  <2>4. Appends(ks, e, Y)
    BY KeptAppends, Zenon
  <2>5. Kept(ks, Y) = Kept(s, Z)
    BY <1>1, <2>3
  <2>6. e \in Z <=> e \in X /\ e \in Y
    OBVIOUS
  <2>7. Kept(Kept(Append(s, e), X), Y) = Kept(Append(s, e), Z)
    BY <2>1, <2>2, <2>3, <2>4, <2>5, <2>6 DEF Appends
  <2> QED BY <2>7
<1>2. <<>> \in Goal
  BY KeptNothing
<1>3. \A s \in Seq(U) : s \in Goal
  <2> HIDE DEF Goal
  <2> QED BY <1>1, <1>2, Growing
<1> QED BY <1>3

\* A list without a member of X, and one with a single member of X.
LEMMA KeptFew ==
    ASSUME NEW U, NEW X
    PROVE  \A s \in Seq(U) :
              /\ (\A i \in DOMAIN s : s[i] \notin X) => Kept(s, X) = <<>>
              /\ \A i \in DOMAIN s : s[i] \in X =>
                    Kept(s, X) # <<>> /\ \A y : Kept(s, X) = <<y>> => s[i] = y
<1> DEFINE Zero(s) == (\A i \in DOMAIN s : s[i] \notin X) => Kept(s, X) = <<>>
           One(s, i) == s[i] \in X =>
                            Kept(s, X) # <<>> /\ \A y : Kept(s, X) = <<y>> => s[i] = y
           Goal == {s \in Seq(U) : Zero(s) /\ \A i \in DOMAIN s : One(s, i)}
<1>1. ASSUME NEW s \in Seq(U), s \in Goal, NEW e \in U PROVE Append(s, e) \in Goal
  <2> DEFINE t == Append(s, e)
  <2>1. t \in Seq(U) /\ DOMAIN s = 1..Len(s) /\ DOMAIN t = 1..(Len(s) + 1) /\ Len(s) \in Nat
        /\ t[Len(s) + 1] = e /\ \A i \in DOMAIN s : t[i] = s[i]
    OBVIOUS
  <2>2. /\ Kept(s, X) \in Seq(U)
        /\ e \in X => Kept(t, X) = Append(Kept(s, X), e)
        /\ e \notin X => Kept(t, X) = Kept(s, X)
    BY KeptAppend
  <2> HIDE DEF t
  <2>3. Zero(t)
    <3> SUFFICES ASSUME \A i \in DOMAIN t : t[i] \notin X PROVE Kept(t, X) = <<>>
      OBVIOUS
    <3>1. e \notin X /\ \A i \in DOMAIN s : s[i] \notin X
      BY <2>1
    <3>2. Kept(s, X) = <<>>
      BY <1>1, <3>1
    <3> QED BY <2>2, <3>1, <3>2
  <2>4. ASSUME NEW i \in DOMAIN t PROVE One(t, i)
    <3> SUFFICES ASSUME t[i] \in X
                 PROVE  Kept(t, X) # <<>> /\ \A y : Kept(t, X) = <<y>> => t[i] = y
      OBVIOUS
    <3>1. CASE i \in DOMAIN s
      <4>1. t[i] = s[i] /\ One(s, i)
        BY <1>1, <2>1, <3>1
      <4>2. Kept(s, X) # <<>> /\ \A y : Kept(s, X) = <<y>> => s[i] = y
        BY <4>1
      <4>3. CASE e \in X
        <5>1. Kept(t, X) = Append(Kept(s, X), e) /\ Len(Kept(s, X)) \in Nat /\ Len(Kept(s, X)) # 0
          BY <2>2, <4>2, <4>3
        <5>2. Len(Kept(t, X)) = Len(Kept(s, X)) + 1
          BY <2>2, <5>1
        <5>3. Len(Kept(t, X)) # 1 /\ Len(Kept(t, X)) # 0
          BY <5>1, <5>2
        <5>4. Len(<<>>) = 0 /\ \A y : Len(<<y>>) = 1
          OBVIOUS
        <5> QED BY <5>3, <5>4
      <4>4. CASE e \notin X
        BY <2>2, <4>1, <4>2, <4>4
      <4> QED BY <4>3, <4>4
    <3>2. CASE i \notin DOMAIN s
      <4>1. i = Len(s) + 1 /\ t[i] = e /\ e \in X
        BY <2>1, <3>2
      <4>2. Kept(t, X) = Append(Kept(s, X), e)
        BY <2>2, <4>1
      <4>3. Append(Kept(s, X), e) # <<>> /\ \A y : Append(Kept(s, X), e) = <<y>> => e = y
        <5>1. PICK k \in Seq(U) : k = Kept(s, X)
          BY <2>2
        <5>2. Append(k, e) # <<>> /\ \A y : Append(k, e) = <<y>> => e = y
          <6>1. Append(k, e)[Len(k) + 1] = e /\ Len(Append(k, e)) = Len(k) + 1 /\ Len(k) \in Nat
            OBVIOUS
          <6>2. ASSUME NEW y, Append(k, e) = <<y>> PROVE e = y
            <7>1. Len(<<y>>) = 1 /\ <<y>>[1] = y
              OBVIOUS
            <7> QED BY <6>1, <6>2, <7>1
          <6>3. Len(<<>>) = 0
            OBVIOUS
          <6> QED BY <6>1, <6>2, <6>3
        <5> QED BY <5>1, <5>2
      <4> QED BY <4>1, <4>2, <4>3
    <3> QED BY <3>1, <3>2
  <2>5. /\ Append(s, e) \in Seq(U) /\ Zero(Append(s, e))
        /\ \A i \in DOMAIN Append(s, e) : One(Append(s, e), i)
    <3> HIDE DEF Zero, One
    <3> QED BY <2>1, <2>3, <2>4 DEF t
  <2> HIDE DEF Zero, One
  <2> QED BY <2>5
<1>2. <<>> \in Goal
  <2>1. DOMAIN <<>> = {} /\ <<>> \in Seq(U)
    OBVIOUS
  <2> QED BY <2>1, KeptNothing
<1>3. \A s \in Seq(U) : s \in Goal
  <2> HIDE DEF Goal
  <2> QED BY <1>1, <1>2, Growing
<1> QED BY <1>3

\* What entries weigh: two lists one after the other, and a list in two parts.
LEMMA WeightConcat ==
    ASSUME NEW s \in Seq(Entry)
    PROVE  \A t \in Seq(Entry) : WeightOf(s \o t) = WeightOf(s) + WeightOf(t)
<1> DEFINE Goal == {t \in Seq(Entry) : WeightOf(s \o t) = WeightOf(s) + WeightOf(t)}
<1>1. <<>> \in Goal
  <2>1. s \o <<>> = s /\ <<>> \in Seq(Entry)
    OBVIOUS
  <2>2. WeightOf(<<>>) = 0 /\ WeightOf(s) \in Nat
    BY WeightIs, WeightOfNothing, Zenon
  <2> QED BY <2>1, <2>2
<1>2. ASSUME NEW t \in Seq(Entry), t \in Goal, NEW e \in Entry PROVE Append(t, e) \in Goal
  <2>1. PICK st \in Seq(Entry) : Same(st, s \o t)
    <3>1. s \o t \in Seq(Entry) /\ Same(s \o t, s \o t)
      BY DEF Same
    <3> QED BY <3>1, Zenon
  <2>2. s \o Append(t, e) = Append(st, e) /\ Append(t, e) \in Seq(Entry)
    BY <2>1 DEF Same
  <2>3. Weighs(st, e) /\ Weighs(t, e) /\ e.size \in Nat
    BY WeightAppends, Zenon
  <2>4. WeightOf(s) \in Nat /\ WeightOf(t) \in Nat
    BY WeightIs, Zenon
  <2>5. WeightOf(st) = WeightOf(s) + WeightOf(t)
    BY <1>2, <2>1 DEF Same
  <2>6. WeightOf(s \o Append(t, e)) = WeightOf(s) + WeightOf(Append(t, e))
    BY <2>2, <2>3, <2>4, <2>5 DEF Weighs
  <2> QED BY <2>2, <2>6
<1>3. \A t \in Seq(Entry) : t \in Goal
  <2> HIDE DEF Goal
  <2> QED BY <1>1, <1>2, Growing
<1> QED BY <1>3

LEMMA WeightParts ==
    ASSUME NEW X, NEW Y, \A e \in Entry : e \in Y <=> e \notin X
    PROVE  \A s \in Seq(Entry) : WeightOf(Kept(s, X)) + WeightOf(Kept(s, Y)) = WeightOf(s)
<1> DEFINE Goal == {s \in Seq(Entry) : WeightOf(Kept(s, X)) + WeightOf(Kept(s, Y)) = WeightOf(s)}
<1>1. <<>> \in Goal
  <2>1. Kept(<<>>, X) = <<>> /\ Kept(<<>>, Y) = <<>> /\ <<>> \in Seq(Entry)
    BY KeptNothing
  <2> QED BY <2>1, WeightOfNothing
<1>2. ASSUME NEW s \in Seq(Entry), s \in Goal, NEW e \in Entry PROVE Append(s, e) \in Goal
  <2>1. Kept(s, X) \in Seq(Entry) /\ Appends(s, e, X) /\ Kept(s, Y) \in Seq(Entry) /\ Appends(s, e, Y)
    BY KeptAppends, Zenon
  <2>2. PICK x \in Seq(Entry) : Same(x, Kept(s, X))
    BY <2>1, Zenon DEF Same
  <2>3. PICK y \in Seq(Entry) : Same(y, Kept(s, Y))
    BY <2>1, Zenon DEF Same
  <2>4. /\ Weighs(x, e) /\ Weighs(y, e) /\ Weighs(s, e) /\ e.size \in Nat
        /\ WeightOf(x) \in Nat /\ WeightOf(y) \in Nat /\ WeightOf(s) \in Nat
    BY WeightAppends, WeightIs, Zenon
  <2>5. WeightOf(x) + WeightOf(y) = WeightOf(s)
    BY <1>2, <2>2, <2>3 DEF Same
  <2>6. WeightOf(Kept(Append(s, e), X)) + WeightOf(Kept(Append(s, e), Y)) = WeightOf(Append(s, e))
    <3>1. CASE e \in X
      <4>1. Kept(Append(s, e), X) = Append(x, e) /\ Kept(Append(s, e), Y) = y
        BY <2>1, <2>2, <2>3, <3>1, Zenon DEF Appends, Same
      <4>2. WeightOf(Append(x, e)) + WeightOf(y) = WeightOf(Append(s, e))
        BY <2>4, <2>5 DEF Weighs
      <4> QED BY <4>1, <4>2, Zenon
    <3>2. CASE e \notin X
      <4>1. Kept(Append(s, e), Y) = Append(y, e) /\ Kept(Append(s, e), X) = x
        BY <2>1, <2>2, <2>3, <3>2, Zenon DEF Appends, Same
      <4>2. WeightOf(x) + WeightOf(Append(y, e)) = WeightOf(Append(s, e))
        BY <2>4, <2>5 DEF Weighs
      <4> QED BY <4>1, <4>2, Zenon
    <3> QED BY <3>1, <3>2
  <2>7. Append(s, e) \in Seq(Entry)
    OBVIOUS
  <2> QED BY <2>6, <2>7
<1>3. \A s \in Seq(Entry) : s \in Goal
  <2> HIDE DEF Goal
  <2> QED BY <1>1, <1>2, Growing
<1> QED BY <1>3

\* The keys of entries, of entries one longer, and of the entries of some keys.
LEMMA KeysAppend ==
    /\ KeysOf(<<>>) = <<>>
    /\ \A s \in Seq(Entry) : KeysOf(s) \in Seq(Keys)
    /\ \A s \in Seq(Entry) : \A e \in Entry : KeysOf(Append(s, e)) = Append(KeysOf(s), e.key)
<1>1. KeysOf(<<>>) = <<>>
  BY DEF KeysOf
<1>2. ASSUME NEW s \in Seq(Entry) PROVE KeysOf(s) \in Seq(Keys)
  <2>1. DOMAIN s = 1..Len(s) /\ Len(s) \in Nat /\ \A i \in 1..Len(s) : s[i] \in Entry
    OBVIOUS
  <2>2. \A e \in Entry : e.key \in Keys
    BY DEF Entry
  <2> QED BY <2>1, <2>2 DEF KeysOf
<1>3. ASSUME NEW s \in Seq(Entry), NEW e \in Entry PROVE KeysOf(Append(s, e)) = Append(KeysOf(s), e.key)
  <2>1. /\ DOMAIN Append(s, e) = 1..(Len(s) + 1) /\ Len(s) \in Nat /\ DOMAIN s = 1..Len(s)
        /\ \A i \in 1..Len(s) : Append(s, e)[i] = s[i]
        /\ Append(s, e)[Len(s) + 1] = e
    OBVIOUS
  <2>2. PICK ks \in Seq(Keys) : Same(ks, KeysOf(s))
    BY <1>2, Zenon DEF Same
  <2>3. Len(ks) = Len(s) /\ \A i \in 1..Len(s) : ks[i] = s[i].key
    BY <2>1, <2>2 DEF Same, KeysOf
  <2>4. Append(ks, e.key) = [i \in 1..(Len(s) + 1) |-> Append(s, e)[i].key]
    BY <2>1, <2>3
  <2> QED BY <2>1, <2>2, <2>4 DEF Same, KeysOf
<1> QED BY <1>1, <1>2, <1>3

OfKeys(Y) == {e \in Entry : e.key \in Y}

LEMMA KeysKept ==
    ASSUME NEW Y
    PROVE  \A s \in Seq(Entry) : KeysOf(Kept(s, OfKeys(Y))) = Kept(KeysOf(s), Y)
<1> DEFINE Goal == {s \in Seq(Entry) : KeysOf(Kept(s, OfKeys(Y))) = Kept(KeysOf(s), Y)}
<1>1. <<>> \in Goal
  <2>1. Kept(<<>>, OfKeys(Y)) = <<>> /\ Kept(<<>>, Y) = <<>> /\ KeysOf(<<>>) = <<>>
    BY KeptNothing, KeysAppend, Zenon
  <2> QED BY <2>1
<1>2. ASSUME NEW s \in Seq(Entry), s \in Goal, NEW e \in Entry PROVE Append(s, e) \in Goal
  <2>1. Kept(s, OfKeys(Y)) \in Seq(Entry) /\ Appends(s, e, OfKeys(Y)) /\ KeysOf(s) \in Seq(Keys)
    BY KeptAppends, KeysAppend, Zenon
  <2>2. PICK x \in Seq(Entry) : Same(x, Kept(s, OfKeys(Y)))
    BY <2>1, Zenon DEF Same
  <2>3. PICK ks \in Seq(Keys) : Same(ks, KeysOf(s))
    BY <2>1, Zenon DEF Same
  <2>4. e.key \in Keys /\ (e \in OfKeys(Y) <=> e.key \in Y)
    BY DEF OfKeys, Entry
  <2>5. Appends(ks, e.key, Y)
    BY <2>4, KeptAppends, Zenon
  <2>6. KeysOf(Append(s, e)) = Append(ks, e.key) /\ KeysOf(Append(x, e)) = Append(KeysOf(x), e.key)
    BY <2>3, KeysAppend, Zenon DEF Same
  <2>7. KeysOf(x) = Kept(ks, Y)
    BY <1>2, <2>2, <2>3 DEF Same
  <2>8. KeysOf(Kept(Append(s, e), OfKeys(Y))) = Kept(KeysOf(Append(s, e)), Y)
    <3>1. CASE e \in OfKeys(Y)
      BY <2>1, <2>2, <2>4, <2>5, <2>6, <2>7, <3>1, Zenon DEF Appends, Same
    <3>2. CASE e \notin OfKeys(Y)
      BY <2>1, <2>2, <2>4, <2>5, <2>6, <2>7, <3>2, Zenon DEF Appends, Same
    <3> QED BY <3>1, <3>2
  <2>9. Append(s, e) \in Seq(Entry)
    OBVIOUS
  <2> QED BY <2>8, <2>9
<1>3. \A s \in Seq(Entry) : s \in Goal
  <2> HIDE DEF Goal
  <2> QED BY <1>1, <1>2, Growing
<1> QED BY <1>3

----------------------------------------------------------------------------
(* GenerationRetention and SnapshotCache: the entries and their history. *)

\* The entries are the end of the history, in which no key comes twice.
Once(r) == \A k \in Keys : Kept(r, {k}) = <<>> \/ Kept(r, {k}) = <<k>>
Lined(es, r) ==
    /\ es \in Seq(Entry) /\ r \in Seq(Keys) /\ Once(r)
    /\ \E old \in Seq(Keys) : r = old \o KeysOf(es)

But(k) == Keys \ {k}

LEMMA LinedKept ==
    ASSUME NEW es, NEW r, NEW Y, Lined(es, r)
    PROVE  Lined(Kept(es, OfKeys(Y)), Kept(r, Y))
<1> DEFINE f == Kept(es, OfKeys(Y))
           q == Kept(r, Y)
<1>1. es \in Seq(Entry) /\ r \in Seq(Keys) /\ KeysOf(es) \in Seq(Keys)
  BY KeysAppend DEF Lined
<1>2. f \in Seq(Entry) /\ q \in Seq(Keys)
  BY <1>1, KeptIs
<1>3. Once(q)
  <2> SUFFICES ASSUME NEW k \in Keys PROVE Kept(q, {k}) = <<>> \/ Kept(q, {k}) = <<k>>
    BY DEF Once
  <2>1. CASE k \in Y
    <3>1. \A e : e \in {k} <=> e \in Y /\ e \in {k}
      BY <2>1
    <3>2. Kept(q, {k}) = Kept(r, {k})
      BY <1>1, <3>1, KeptTwice
    <3> QED BY <3>2 DEF Lined, Once
  <2>2. CASE k \notin Y
    <3>1. \A e : e \in {} <=> e \in Y /\ e \in {k}
      BY <2>2
    <3>2. Kept(q, {k}) = Kept(r, {})
      BY <1>1, <3>1, KeptTwice
    <3>3. Kept(r, {}) = <<>>
      BY <1>1, KeptFew
    <3> QED BY <3>2, <3>3
  <2> QED BY <2>1, <2>2
<1>4. \E old \in Seq(Keys) : q = old \o KeysOf(f)
  <2>1. PICK old \in Seq(Keys) : r = old \o KeysOf(es)
    BY DEF Lined
  <2>2. q = Kept(old, Y) \o Kept(KeysOf(es), Y)
    BY <1>1, <2>1, KeptConcat
  <2>3. Kept(KeysOf(es), Y) = KeysOf(f)
    BY <1>1, KeysKept
  <2>4. Kept(old, Y) \in Seq(Keys)
    BY KeptIs
  <2> QED BY <2>2, <2>3, <2>4
<1> QED BY <1>2, <1>3, <1>4 DEF Lined

LEMMA LinedUse ==
    ASSUME NEW es, NEW r, NEW e \in Entry, Lined(es, r)
    PROVE  Lined(Append(Kept(es, OfKeys(But(e.key))), e), Append(Kept(r, But(e.key)), e.key))
<1> DEFINE f == Kept(es, OfKeys(But(e.key)))
           q == Kept(r, But(e.key))
           ek == e.key
<1>1. Lined(f, q)
  BY LinedKept
<1>2. f \in Seq(Entry) /\ q \in Seq(Keys) /\ ek \in Keys /\ KeysOf(f) \in Seq(Keys)
  BY <1>1, KeysAppend DEF Lined, Entry
<1>3. Append(f, e) \in Seq(Entry) /\ Append(q, ek) \in Seq(Keys)
  <2> HIDE DEF f, q, ek
  <2> QED BY <1>2
<1>4. Once(Append(q, ek))
  <2> SUFFICES ASSUME NEW k \in Keys
               PROVE  Kept(Append(q, ek), {k}) = <<>> \/ Kept(Append(q, ek), {k}) = <<k>>
    BY DEF Once
  <2> DEFINE X == {k}
  <2>1. Appends(q, ek, X)
    <3> HIDE DEF q, ek, X
    <3> QED BY <1>2, KeptAppends, Zenon
  <2>2. Kept(q, X) = <<>> \/ Kept(q, X) = <<k>>
    BY <1>1 DEF Lined, Once
  <2>3. CASE k = ek
    <3>1. \A x : x \in {} <=> x \in But(ek) /\ x \in X
      BY <2>3 DEF But
    <3>2. Kept(q, X) = Kept(r, {})
      <4>1. r \in Seq(Keys)
        BY DEF Lined
      <4> DEFINE Y == But(ek)
                 Z == {}
      <4>2. \A x : x \in Z <=> x \in Y /\ x \in X
        BY <3>1
      <4> HIDE DEF X, Y, Z
      <4>3. Kept(Kept(r, Y), X) = Kept(r, Z)
        BY <4>1, <4>2, KeptTwice
      <4> QED BY <4>3 DEF Y, Z
    <3>3. Kept(r, {}) = <<>>
      BY KeptFew DEF Lined
    <3>4. Kept(Append(q, ek), X) = Append(Kept(q, X), ek)
      BY <2>1, <2>3 DEF Appends
    <3>5. Append(<<>>, ek) = <<ek>>
      OBVIOUS
    <3> HIDE DEF q, ek
    <3> QED BY <2>3, <3>2, <3>3, <3>4, <3>5
  <2>4. CASE k # ek
    BY <2>1, <2>2, <2>4 DEF Appends
  <2> QED BY <2>3, <2>4
<1>5. \E old \in Seq(Keys) : Append(q, ek) = old \o KeysOf(Append(f, e))
  <2>1. PICK old \in Seq(Keys) : q = old \o KeysOf(f)
    BY <1>1 DEF Lined
  <2>2. KeysOf(Append(f, e)) = Append(KeysOf(f), ek)
    BY <1>2, KeysAppend
  <2>3. PICK ks \in Seq(Keys) : ks = KeysOf(f)
    BY <1>2
  <2>4. Append(old \o ks, ek) = old \o Append(ks, ek)
    <3> HIDE DEF f, q, ek
    <3>1. ek \in Keys
      BY <1>2
    <3> QED BY <3>1
  <2> QED BY <2>1, <2>2, <2>3, <2>4
<1> HIDE DEF f, q, ek
<1>6. Lined(Append(f, e), Append(q, ek))
  BY <1>3, <1>4, <1>5 DEF Lined
<1> QED BY <1>6 DEF f, q, ek

\* The oldest entry goes; the history stays.
LEMMA LinedTail ==
    ASSUME NEW es, NEW r, Lined(es, r), es # <<>>
    PROVE  Lined(Tail(es), r) /\ WeightOf(es) = Head(es).size + WeightOf(Tail(es))
<1>1. es \in Seq(Entry) /\ r \in Seq(Keys)
  BY DEF Lined
<1> DEFINE h == Head(es)
           t == Tail(es)
<1>2. /\ h \in Entry /\ t \in Seq(Entry) /\ es = <<h>> \o t
      /\ <<h>> \in Seq(Entry) /\ <<h>> = Append(<<>>, h)
  BY <1>1
<1> HIDE DEF h, t
<1>3. WeightOf(es) = h.size + WeightOf(t)
  <2>1. <<>> \in Seq(Entry)
    OBVIOUS
  <2>2. Weighs(<<>>, h) /\ h.size \in Nat
    BY <1>2, <2>1, WeightAppends, Zenon
  <2>3. WeightOf(<<h>>) = h.size
    BY <1>2, <2>2, WeightOfNothing DEF Weighs
  <2>4. WeightOf(<<h>> \o t) = WeightOf(<<h>>) + WeightOf(t)
    BY <1>2, WeightConcat, Zenon
  <2> QED BY <1>2, <2>3, <2>4
<1>4. \E old \in Seq(Keys) : r = old \o KeysOf(t)
  <2>1. PICK old \in Seq(Keys) : r = old \o KeysOf(es)
    BY DEF Lined
  <2>2. KeysOf(es) = <<h.key>> \o KeysOf(t) /\ h.key \in Keys
    BY <1>2 DEF KeysOf, Entry
  <2>3. PICK ks \in Seq(Keys) : ks = KeysOf(t)
    BY <1>2, KeysAppend
  <2>4. r = Append(old, h.key) \o ks /\ Append(old, h.key) \in Seq(Keys)
    BY <2>1, <2>2, <2>3
  <2> QED BY <2>3, <2>4
<1>5. Lined(t, r)
  BY <1>1, <1>2, <1>4 DEF Lined
<1> QED BY <1>3, <1>5 DEF h, t

\* What the entries of a key weigh: there is one of them at most.
LEMMA WeightOfKey ==
    ASSUME NEW es, NEW r, Lined(es, r), NEW k \in Keys
    PROVE  /\ (\A i \in DOMAIN es : es[i].key # k) => WeightOf(Kept(es, OfKeys({k}))) = 0
           /\ \A i \in DOMAIN es : es[i].key = k => WeightOf(Kept(es, OfKeys({k}))) = es[i].size
<1> DEFINE X == OfKeys({k})
           f == Kept(es, X)
<1>1. es \in Seq(Entry) /\ r \in Seq(Keys) /\ KeysOf(es) \in Seq(Keys)
  BY KeysAppend DEF Lined
<1>2. f \in Seq(Entry)
  BY <1>1, KeptIs
<1>3. \A i \in DOMAIN es : es[i] \in X <=> es[i].key = k
  BY <1>1 DEF OfKeys
<1>4. KeysOf(f) = Kept(KeysOf(es), {k})
  BY <1>1, KeysKept
<1>5. PICK old \in Seq(Keys) : r = old \o KeysOf(es)
  BY DEF Lined
<1>6. Kept(r, {k}) = Kept(old, {k}) \o KeysOf(f)
  <2> DEFINE Y == {k}
             ks == KeysOf(es)
  <2>1. r = old \o ks /\ ks \in Seq(Keys)
    BY <1>1, <1>5
  <2> HIDE DEF Y, ks
  <2>2. Kept(old \o ks, Y) = Kept(old, Y) \o Kept(ks, Y)
    BY <2>1, KeptConcat
  <2> QED BY <1>4, <2>1, <2>2 DEF Y, ks
<1>7. Kept(old, {k}) \in Seq(Keys) /\ KeysOf(f) \in Seq(Keys)
  BY <1>2, KeptIs, KeysAppend
<1>8. Len(f) = 0 \/ Len(f) = 1
  <2>1. Len(Kept(r, {k})) = 0 \/ Len(Kept(r, {k})) = 1
    BY DEF Lined, Once
  <2>2. PICK a \in Seq(Keys) : Same(a, Kept(old, {k}))
    BY <1>7, Zenon DEF Same
  <2>3. PICK b \in Seq(Keys) : Same(b, KeysOf(f))
    BY <1>7, Zenon DEF Same
  <2>4. Len(a \o b) = 0 \/ Len(a \o b) = 1
    BY <1>6, <2>1, <2>2, <2>3 DEF Same
  <2>5. Len(b) = 0 \/ Len(b) = 1
    <3> DEFINE m == Len(a)
               n == Len(b)
    <3>1. Len(a \o b) = m + n /\ m \in Nat /\ n \in Nat
      OBVIOUS
    <3>2. m + n = 0 \/ m + n = 1
      BY <2>4, <3>1, Zenon
    <3> HIDE DEF m, n
    <3>3. n = 0 \/ n = 1
      BY <3>1, <3>2
    <3> QED BY <3>3 DEF n
  <2>6. Len(b) = Len(f)
    BY <1>2, <2>3 DEF Same, KeysOf
  <2> QED BY <2>5, <2>6
<1>9. ASSUME \A i \in DOMAIN es : es[i].key # k PROVE WeightOf(f) = 0
  <2>1. f = <<>>
    BY <1>1, <1>3, <1>9, KeptFew
  <2> QED BY <2>1, WeightOfNothing
<1>10. ASSUME NEW i \in DOMAIN es, es[i].key = k PROVE WeightOf(f) = es[i].size
  <2>1. f # <<>> /\ \A y : f = <<y>> => es[i] = y
    <3>1. es[i] \in X
      BY <1>3, <1>10
    <3> HIDE DEF X
    <3> QED BY <1>1, <3>1, KeptFew
  <2>2. f = <<f[1]>> /\ f[1] \in Entry
    <3> HIDE DEF f
    <3> QED BY <1>2, <1>8, <2>1
  <2> DEFINE y == f[1]
  <2>3. f = <<y>> /\ y \in Entry /\ es[i] = y /\ <<y>> = Append(<<>>, y) /\ <<>> \in Seq(Entry)
    <3> HIDE DEF f
    <3> QED BY <2>1, <2>2
  <2> HIDE DEF y
  <2>4. Weighs(<<>>, y) /\ y.size \in Nat
    BY <2>3, WeightAppends, Zenon
  <2> QED BY <2>3, <2>4, WeightOfNothing DEF Weighs
<1> QED BY <1>9, <1>10

\* The length of a list in two parts.
LEMMA LenParts ==
    ASSUME NEW U, NEW X, NEW Y, \A e \in U : e \in Y <=> e \notin X
    PROVE  \A s \in Seq(U) : Len(Kept(s, X)) + Len(Kept(s, Y)) = Len(s)
<1> DEFINE Goal == {s \in Seq(U) : Len(Kept(s, X)) + Len(Kept(s, Y)) = Len(s)}
<1>1. <<>> \in Goal
  <2>1. Kept(<<>>, X) = <<>> /\ Kept(<<>>, Y) = <<>> /\ <<>> \in Seq(U) /\ Len(<<>>) = 0
    BY KeptNothing
  <2> QED BY <2>1
<1>2. ASSUME NEW s \in Seq(U), s \in Goal, NEW e \in U PROVE Append(s, e) \in Goal
  <2>1. Kept(s, X) \in Seq(U) /\ Appends(s, e, X) /\ Kept(s, Y) \in Seq(U) /\ Appends(s, e, Y)
    BY KeptAppends, Zenon
  <2>2. PICK x \in Seq(U) : Same(x, Kept(s, X))
    BY <2>1, Zenon DEF Same
  <2>3. PICK y \in Seq(U) : Same(y, Kept(s, Y))
    BY <2>1, Zenon DEF Same
  <2>4. /\ Len(Append(x, e)) = Len(x) + 1 /\ Len(Append(y, e)) = Len(y) + 1
        /\ Len(Append(s, e)) = Len(s) + 1 /\ Append(s, e) \in Seq(U)
        /\ Len(x) \in Nat /\ Len(y) \in Nat /\ Len(s) \in Nat
    OBVIOUS
  <2>5. Len(x) + Len(y) = Len(s)
    BY <1>2, <2>2, <2>3 DEF Same
  <2>6. Len(Kept(Append(s, e), X)) + Len(Kept(Append(s, e), Y)) = Len(Append(s, e))
    <3>1. CASE e \in X
      <4>1. Kept(Append(s, e), X) = Append(x, e) /\ Kept(Append(s, e), Y) = y
        BY <2>1, <2>2, <2>3, <3>1, Zenon DEF Appends, Same
      <4>2. Len(Append(x, e)) + Len(y) = Len(Append(s, e))
        BY <2>4, <2>5
      <4> QED BY <4>1, <4>2, Zenon
    <3>2. CASE e \notin X
      <4>1. Kept(Append(s, e), Y) = Append(y, e) /\ Kept(Append(s, e), X) = x
        BY <2>1, <2>2, <2>3, <3>2, Zenon DEF Appends, Same
      <4>2. Len(x) + Len(Append(y, e)) = Len(Append(s, e))
        BY <2>4, <2>5
      <4> QED BY <4>1, <4>2, Zenon
    <3> QED BY <3>1, <3>2
  <2> QED BY <2>4, <2>6
<1>3. \A s \in Seq(U) : s \in Goal
  <2> HIDE DEF Goal
  <2> QED BY <1>1, <1>2, Growing
<1> QED BY <1>3

----------------------------------------------------------------------------
(* GenerationRetention and SnapshotCache: the operations of Lru. *)

CacheInv == Lined(entries, recent) /\ bytes = WeightOf(entries)

\* Within both limits.
Within(es) == WeightOf(es) <= MaxBytes /\ Len(es) <= MaxEntries

LEMMA BudgetIs ==
    ASSUME CacheInv
    PROVE  (OverBudget <=> ~Within(entries)) /\ (OverBudget => entries # <<>>)
<1>1. bytes \in Nat /\ Len(entries) \in Nat /\ MaxBytes \in Nat \ {0} /\ MaxEntries \in Nat \ {0}
  BY WeightIs, LruAssumption DEF CacheInv, Lined
<1>2. OverBudget <=> ~Within(entries)
  BY <1>1 DEF CacheInv, OverBudget, Within
<1>3. entries = <<>> => bytes = 0 /\ Len(entries) = 0
  BY WeightOfNothing DEF CacheInv
<1> QED BY <1>1, <1>2, <1>3 DEF OverBudget

LEMMA BudgetIsNext ==
    CacheInv' => ((OverBudget <=> ~Within(entries)) /\ (OverBudget => entries # <<>>))'
BY BudgetIs, PTL

\* Two parts of the entries.
LEMMA PartsOf ==
    ASSUME NEW es, NEW r, Lined(es, r), NEW Y, NEW Z, \A k \in Keys : k \in Z <=> k \notin Y
    PROVE  /\ WeightOf(Kept(es, OfKeys(Y))) = WeightOf(es) - WeightOf(Kept(es, OfKeys(Z)))
           /\ Len(Kept(es, OfKeys(Y))) = Len(es) - Len(Kept(es, OfKeys(Z)))
           /\ Within(es) => Within(Kept(es, OfKeys(Y)))
<1> DEFINE X == OfKeys(Y)
           W == OfKeys(Z)
<1>1. es \in Seq(Entry) /\ \A e \in Entry : e \in W <=> e \notin X
  BY DEF Lined, OfKeys, Entry
<1> HIDE DEF X, W
<1>2. WeightOf(Kept(es, X)) + WeightOf(Kept(es, W)) = WeightOf(es)
  BY <1>1, WeightParts
<1>3. Len(Kept(es, X)) + Len(Kept(es, W)) = Len(es)
  BY <1>1, LenParts
<1>4. Kept(es, X) \in Seq(Entry) /\ Kept(es, W) \in Seq(Entry)
  BY <1>1, KeptIs
<1>5. PICK x \in Seq(Entry) : Same(x, Kept(es, X))
  BY <1>4, Zenon DEF Same
<1>6. PICK w \in Seq(Entry) : Same(w, Kept(es, W))
  BY <1>4, Zenon DEF Same
<1>7. WeightOf(x) \in Nat /\ WeightOf(w) \in Nat /\ Len(x) \in Nat /\ Len(w) \in Nat
  BY WeightIs
<1>8. MaxBytes \in Nat /\ MaxEntries \in Nat
  BY LruAssumption
<1>9. WeightOf(x) + WeightOf(w) = WeightOf(es) /\ Len(x) + Len(w) = Len(es)
  BY <1>2, <1>3, <1>5, <1>6, Zenon DEF Same
<1>10. WeightOf(x) = WeightOf(es) - WeightOf(w) /\ Len(x) = Len(es) - Len(w)
  BY <1>7, <1>9
<1>11. Within(es) => Within(x)
  BY <1>7, <1>8, <1>9 DEF Within
<1> QED BY <1>5, <1>6, <1>10, <1>11, Zenon DEF Same, X, W

\* The entries without those of a key that is held, or is not.
LEMMA WithoutIs ==
    ASSUME NEW es, NEW r, Lined(es, r), NEW k \in Keys
    PROVE  /\ Without(es, k) = Kept(es, OfKeys(But(k)))
           /\ Without(es, k) \in Seq(Entry)
           /\ (\A i \in DOMAIN es : es[i].key # k) => WeightOf(Without(es, k)) = WeightOf(es)
           /\ \A i \in DOMAIN es : es[i].key = k =>
                 /\ WeightOf(Without(es, k)) = WeightOf(es) - es[i].size
                 /\ Len(Without(es, k)) < Len(es)
           /\ Within(es) => Within(Without(es, k))
<1>1. {e \in Entry : e.key # k} = OfKeys(But(k))
  BY DEF OfKeys, But, Entry
<1>2. Without(es, k) = Kept(es, OfKeys(But(k)))
  BY <1>1, Zenon DEF Without
<1>3. es \in Seq(Entry)
  BY DEF Lined
<1>4. Without(es, k) \in Seq(Entry)
  BY <1>2, <1>3, KeptIs
<1> DEFINE Y == But(k)
           Z == {k}
           w == Kept(es, OfKeys(Z))
<1>5. \A j \in Keys : j \in Z <=> j \notin Y
  BY DEF But
<1>6. /\ (\A i \in DOMAIN es : es[i].key # k) => WeightOf(w) = 0
      /\ \A i \in DOMAIN es : es[i].key = k => WeightOf(w) = es[i].size
  BY WeightOfKey
<1>7. /\ WeightOf(Kept(es, OfKeys(Y))) = WeightOf(es) - WeightOf(w)
      /\ Len(Kept(es, OfKeys(Y))) = Len(es) - Len(w)
      /\ Within(es) => Within(Kept(es, OfKeys(Y)))
  <2> HIDE DEF Y, Z
  <2> QED BY <1>5, PartsOf
<1>8. WeightOf(es) \in Nat /\ Len(es) \in Nat
  BY <1>3, WeightIs
<1>9. w \in Seq(Entry)
  BY <1>3, KeptIs
<1>10. \A i \in DOMAIN es : es[i].key = k => Len(w) # 0
  <2> SUFFICES ASSUME NEW i \in DOMAIN es, es[i].key = k PROVE w # <<>>
    <3> HIDE DEF w
    <3> QED BY <1>9
  <2>1. es[i] \in OfKeys(Z)
    BY <1>3 DEF OfKeys
  <2> HIDE DEF Z
  <2> QED BY <1>3, <2>1, KeptFew
<1>11. Len(w) \in Nat
  <2> HIDE DEF w
  <2> QED BY <1>9
<1> HIDE DEF Y, w
<1>12. Without(es, k) = Kept(es, OfKeys(Y))
  BY <1>2 DEF Y
<1>13. (\A i \in DOMAIN es : es[i].key # k) => WeightOf(Without(es, k)) = WeightOf(es)
  BY <1>6, <1>7, <1>8, <1>12
<1>14. ASSUME NEW i \in DOMAIN es, es[i].key = k
       PROVE  /\ WeightOf(Without(es, k)) = WeightOf(es) - es[i].size
              /\ Len(Without(es, k)) < Len(es)
  BY <1>6, <1>7, <1>8, <1>10, <1>11, <1>12, <1>14
<1> QED BY <1>2, <1>4, <1>7, <1>12, <1>13, <1>14

\* The entry of a key that is held.
LEMMA AtIs ==
    ASSUME CacheInv, NEW k \in Keys
    PROVE  /\ Holds(k) => /\ At(k) \in DOMAIN entries
                       /\ entries[At(k)] \in Entry /\ entries[At(k)].key = k
           /\ ~Holds(k) => \A i \in DOMAIN entries : entries[i].key # k
<1>1. entries \in Seq(Entry)
  BY DEF CacheInv, Lined
<1>2. Holds(k) => At(k) \in DOMAIN entries /\ entries[At(k)].key = k
  BY DEF Holds, At
<1>3. \A i \in DOMAIN entries : entries[i] \in Entry
  BY <1>1
<1> QED BY <1>2, <1>3, Zenon DEF Holds

LEMMA UsedLined ==
    ASSUME CacheInv, NEW e \in Entry, Used(e.key), entries' = Append(Without(entries, e.key), e)
    PROVE  Lined(entries', recent')
<1>1. Lined(Append(Kept(entries, OfKeys(But(e.key))), e), Append(Kept(recent, But(e.key)), e.key))
  BY LinedUse DEF CacheInv
<1>2. e.key \in Keys
  BY DEF Entry
<1>3. Without(entries, e.key) = Kept(entries, OfKeys(But(e.key)))
  BY <1>2, WithoutIs DEF CacheInv
<1>4. Forget(recent, e.key) = Kept(recent, But(e.key))
  BY Zenon DEF Forget, But
<1> QED BY <1>1, <1>3, <1>4, Zenon DEF Used

LEMMA StoreStep ==
    ASSUME CacheInv, NEW k \in Keys, NEW s \in Sizes, Store(k, s)
    PROVE  CacheInv'
<1> DEFINE e == [key |-> k, size |-> s]
           w == Without(entries, k)
<1>1. e \in Entry /\ e.key = k /\ e.size = s /\ s \in Nat
  BY LruAssumption DEF Entry
<1>2. Lined(entries', recent')
  BY <1>1, UsedLined DEF Store
<1>3. /\ w \in Seq(Entry)
      /\ (\A i \in DOMAIN entries : entries[i].key # k) => WeightOf(w) = WeightOf(entries)
      /\ \A i \in DOMAIN entries :
            entries[i].key = k => WeightOf(w) = WeightOf(entries) - entries[i].size
  BY WithoutIs DEF CacheInv
<1>4. WeightOf(w) = bytes - (IF Holds(k) THEN entries[At(k)].size ELSE 0)
  <2>1. bytes \in Nat
    BY WeightIs DEF CacheInv, Lined
  <2>2. CASE Holds(k)
    BY <1>3, <2>2, AtIs DEF CacheInv
  <2>3. CASE ~Holds(k)
    BY <1>3, <2>1, <2>3, AtIs DEF CacheInv
  <2> QED BY <2>2, <2>3
<1> HIDE DEF e, w
<1>5. WeightOf(Append(w, e)) = WeightOf(w) + s
  BY <1>1, <1>3, WeightAppends DEF Weighs
<1>6. entries' = Append(w, e)
      /\ bytes' = bytes - (IF Holds(k) THEN entries[At(k)].size ELSE 0) + s
  BY DEF Store, e, w
<1> QED BY <1>2, <1>4, <1>5, <1>6 DEF CacheInv

LEMMA TouchStep ==
    ASSUME CacheInv, NEW k \in Keys, Holds(k), Touch(k)
    PROVE  CacheInv' /\ (~OverBudget => ~OverBudget')
<1> DEFINE e == entries[At(k)]
           w == Without(entries, k)
<1>1. e \in Entry /\ e.key = k /\ e.size \in Nat
  BY AtIs, LruAssumption DEF Entry
<1>2. Lined(entries', recent')
  BY <1>1, UsedLined DEF Touch
<1>3. /\ w \in Seq(Entry) /\ WeightOf(w) = WeightOf(entries) - e.size /\ Len(w) < Len(entries)
  BY AtIs, WithoutIs DEF CacheInv
<1>4. /\ bytes \in Nat /\ bytes = WeightOf(entries) /\ WeightOf(w) \in Nat /\ Len(entries) \in Nat
      /\ MaxBytes \in Nat /\ MaxEntries \in Nat
  <2>1. entries \in Seq(Entry) /\ bytes = WeightOf(entries)
    BY DEF CacheInv, Lined
  <2>2. WeightOf(entries) \in Nat
    BY <2>1, WeightIs
  <2>3. WeightOf(w) \in Nat
    BY <1>3, WeightIs
  <2> QED BY <2>1, <2>2, <2>3, LruAssumption
<1> HIDE DEF e, w
<1>5. /\ WeightOf(Append(w, e)) = WeightOf(w) + e.size
      /\ Len(Append(w, e)) = Len(w) + 1 /\ Len(w) \in Nat
  BY <1>1, <1>3, WeightAppends DEF Weighs
<1>6. entries' = Append(w, e) /\ bytes' = bytes
  BY DEF Touch, e, w
<1>7. WeightOf(entries') = bytes /\ Len(entries') <= Len(entries) /\ Len(entries') \in Nat
  BY <1>1, <1>3, <1>4, <1>5, <1>6
<1>8. CacheInv'
  BY <1>2, <1>6, <1>7 DEF CacheInv
<1>9. ~OverBudget => ~OverBudget'
  BY <1>4, <1>6, <1>7 DEF OverBudget
<1> QED BY <1>8, <1>9

LEMMA EvictStep ==
    ASSUME CacheInv, entries # <<>>, EvictOldest
    PROVE  CacheInv'
<1>1. /\ Lined(Tail(entries), recent)
      /\ WeightOf(entries) = Head(entries).size + WeightOf(Tail(entries))
  BY LinedTail DEF CacheInv
<1>2. WeightOf(Tail(entries)) \in Nat /\ Head(entries).size \in Nat
  <2>1. Head(entries) \in Entry
    BY DEF CacheInv, Lined
  <2> QED BY <1>1, <2>1, WeightIs, LruAssumption DEF Lined, Entry
<1>3. bytes' = WeightOf(Tail(entries))
  BY <1>1, <1>2 DEF CacheInv, EvictOldest
<1> QED BY <1>1, <1>3 DEF CacheInv, EvictOldest

\* Dropping the entries of some keys, in the cache and in its history.
LEMMA DropStep ==
    ASSUME CacheInv, NEW Y, NEW Z, \A k \in Keys : k \in Z <=> k \notin Y,
           entries' = Kept(entries, OfKeys(Y)), recent' = Kept(recent, Y),
           bytes' = bytes - WeightOf(Kept(entries, OfKeys(Z)))
    PROVE  CacheInv' /\ (~OverBudget => ~OverBudget')
<1>1. Lined(entries', recent')
  BY LinedKept DEF CacheInv
<1>2. /\ WeightOf(entries') = WeightOf(entries) - WeightOf(Kept(entries, OfKeys(Z)))
      /\ Within(entries) => Within(entries')
  <2>1. Lined(entries, recent)
    BY DEF CacheInv
  <2> QED BY <2>1, PartsOf
<1>3. CacheInv'
  BY <1>1, <1>2 DEF CacheInv
<1>4. (OverBudget <=> ~Within(entries))
  BY BudgetIs
<1>5. (OverBudget <=> ~Within(entries))'
  BY <1>3, BudgetIsNext
<1> QED BY <1>2, <1>3, <1>4, <1>5

LEMMA EmptyStep == (Empty => CacheInv /\ ~OverBudget) /\ (Clear => CacheInv' /\ ~OverBudget')
<1>1. Lined(<<>>, <<>>)
  <2>1. <<>> \in Seq(Entry) /\ <<>> \in Seq(Keys) /\ <<>> = <<>> \o <<>>
    OBVIOUS
  <2>2. Once(<<>>)
    BY KeptNothing DEF Once
  <2> QED BY <2>1, <2>2, KeysAppend DEF Lined
<1>2. 0 <= MaxBytes /\ 0 <= MaxEntries /\ Len(<<>>) = 0
  BY LruAssumption
<1>3. \A b, e : b = 0 /\ e = <<>> => ~(b > MaxBytes \/ Len(e) > MaxEntries)
  BY <1>2, LruAssumption
<1> QED BY <1>1, <1>3, WeightOfNothing DEF Empty, Clear, CacheInv, OverBudget

----------------------------------------------------------------------------
(* GenerationRetention: any number of threads, one lock. *)

RetentionInv ==
    /\ CacheInv
    /\ pc \in [Threads -> {"idle", "load", "put", "evict"}]
    /\ key \in [Threads -> Keys \cup {AnyKey}]
    /\ size \in [Threads -> Sizes \cup {AnySize}]
    /\ \A t \in Threads : pc[t] # "idle" => key[t] \in Keys
    /\ \A t \in Threads : pc[t] = "put" => size[t] \in Sizes
    /\ \A t \in Threads : pc[t] = "evict" <=> lock = t
    /\ lock = NoThread => ~OverBudget

LEMMA RetentionInit == Init => RetentionInv
<1> SUFFICES ASSUME Init PROVE RetentionInv
  OBVIOUS
<1>1. CacheInv /\ ~OverBudget
  BY EmptyStep DEF Init
<1> QED BY <1>1, RetentionAssumption DEF Init, RetentionInv

LEMMA RetentionGet ==
    ASSUME RetentionInv, NEW t \in Threads, NEW k \in Keys, Get(t, k)
    PROVE  RetentionInv'
<1>1. CacheInv' /\ ~OverBudget'
  <2>1. CacheInv /\ ~OverBudget
    BY DEF RetentionInv, Get
  <2>2. CASE Holds(k) /\ Touch(k)
    BY <2>1, <2>2, TouchStep
  <2>3. CASE UNCHANGED lruVars
    BY <2>1, <2>3 DEF lruVars, CacheInv, OverBudget
  <2> QED BY <2>2, <2>3 DEF Get
<1>2. pc' \in [Threads -> {"idle", "load", "put", "evict"}] /\ pc'[t] \in {"idle", "load"}
      /\ \A o \in Threads : o # t => pc'[o] = pc[o]
  BY DEF Get, RetentionInv
<1>3. key' \in [Threads -> Keys \cup {AnyKey}] /\ key'[t] = k
      /\ \A o \in Threads : o # t => key'[o] = key[o]
  BY DEF Get, RetentionInv
<1>4. size' = size /\ lock' = lock /\ lock = NoThread
  BY DEF Get
<1> QED BY <1>1, <1>2, <1>3, <1>4, RetentionAssumption DEF RetentionInv

LEMMA RetentionMove ==
    ASSUME RetentionInv, NEW t \in Threads, Load(t) \/ TooBig(t)
    PROVE  RetentionInv'
<1>1. /\ CacheInv' /\ (~OverBudget => ~OverBudget')
      /\ lock' = lock /\ key' = key /\ pc[t] \in {"load", "put"}
  BY DEF Load, TooBig, lruVars, RetentionInv, CacheInv, OverBudget
<1>2. /\ size' \in [Threads -> Sizes \cup {AnySize}]
      /\ pc' \in [Threads -> {"idle", "load", "put", "evict"}]
      /\ pc'[t] = "idle" \/ (pc'[t] = "put" /\ size'[t] \in Sizes)
      /\ \A o \in Threads : o # t => pc'[o] = pc[o] /\ size'[o] = size[o]
  BY DEF Load, TooBig, RetentionInv
<1> QED BY <1>1, <1>2 DEF RetentionInv

LEMMA RetentionPut ==
    ASSUME RetentionInv, NEW t \in Threads, PutStores(t) \/ PutEvicts(t) \/ PutEnds(t)
    PROVE  RetentionInv'
<1>1. key' = key /\ size' = size
  BY DEF PutStores, PutEvicts, PutEnds
<1>2. CASE PutStores(t)
  <2>1. CacheInv'
    <3>1. CacheInv /\ key[t] \in Keys /\ size[t] \in Sizes /\ Store(key[t], size[t])
      BY <1>2 DEF PutStores, RetentionInv
    <3> QED BY <3>1, StoreStep
  <2>2. /\ pc' \in [Threads -> {"idle", "load", "put", "evict"}] /\ pc'[t] = "evict" /\ pc[t] = "put"
        /\ \A o \in Threads : o # t => pc'[o] = pc[o]
        /\ lock' = t /\ lock = NoThread
    BY <1>2 DEF PutStores, RetentionInv
  <2> QED BY <1>1, <2>1, <2>2, RetentionAssumption DEF RetentionInv
<1>3. CASE PutEvicts(t)
  <2>1. CacheInv'
    <3>1. CacheInv /\ OverBudget /\ EvictOldest
      BY <1>3 DEF PutEvicts, RetentionInv
    <3>2. entries # <<>>
      BY <3>1, BudgetIs
    <3> QED BY <3>1, <3>2, EvictStep
  <2>2. pc' = pc /\ lock' = lock /\ lock = t
    BY <1>3 DEF PutEvicts, RetentionInv
  <2> QED BY <1>1, <2>1, <2>2, RetentionAssumption DEF RetentionInv
<1>4. CASE PutEnds(t)
  <2>1. CacheInv' /\ ~OverBudget'
    BY <1>4 DEF PutEnds, lruVars, RetentionInv, CacheInv, OverBudget
  <2>2. /\ pc' \in [Threads -> {"idle", "load", "put", "evict"}] /\ pc'[t] = "idle"
        /\ \A o \in Threads : o # t => pc'[o] = pc[o]
        /\ lock' = NoThread /\ lock = t
    BY <1>4 DEF PutEnds, RetentionInv
  <2> QED BY <1>1, <2>1, <2>2, RetentionAssumption DEF RetentionInv
<1> QED BY <1>2, <1>3, <1>4

LEMMA RetentionClose ==
    ASSUME RetentionInv, Close
    PROVE  RetentionInv'
<1>1. CacheInv' /\ ~OverBudget'
  BY EmptyStep DEF Close
<1> QED BY <1>1 DEF Close, RetentionInv

----------------------------------------------------------------------------
(* SnapshotCache: one caller. *)

\* The operations of Lru are the same for both caches.
LEMMA LruSame ==
    /\ \A k : C!Holds(k) <=> Holds(k)
    /\ \A k : C!At(k) = At(k)
    /\ \A k, s : C!Store(k, s) <=> Store(k, s)
    /\ \A k : C!Touch(k) <=> Touch(k)
    /\ C!EvictOldest <=> EvictOldest
    /\ (C!Clear <=> Clear) /\ (C!Empty <=> Empty)
    /\ C!OverBudget <=> OverBudget
    /\ \A s, X : C!Kept(s, X) = Kept(s, X)
    /\ \A s : C!WeightOf(s) = WeightOf(s)
    /\ C!Entry = Entry
<1>1. C!Entry = Entry
  BY Zenon DEF C!Entry, Entry
<1>2. \A s, X : C!Kept(s, X) = Kept(s, X)
  BY Zenon DEF C!Kept, Kept
<1>3. \A s : C!WeightOf(s) = WeightOf(s)
  BY Zenon DEF C!WeightOf, WeightOf
<1>4. \A k : C!Holds(k) <=> Holds(k)
  BY Zenon DEF C!Holds, Holds
<1>5. \A k : C!At(k) = At(k)
  BY Zenon DEF C!At, At
<1>6. \A k : (\A es : C!Without(es, k) = Without(es, k)) /\ (C!Used(k) <=> Used(k))
  BY <1>1, <1>2, Zenon DEF C!Without, Without, C!Used, Used, C!Forget, Forget
<1>7. \A k, s : C!Store(k, s) <=> Store(k, s)
  BY <1>4, <1>5, <1>6, Zenon DEF C!Store, Store
<1>8. \A k : C!Touch(k) <=> Touch(k)
  BY <1>5, <1>6, Zenon DEF C!Touch, Touch
<1>9. (C!EvictOldest <=> EvictOldest) /\ (C!Clear <=> Clear) /\ (C!Empty <=> Empty)
      /\ (C!OverBudget <=> OverBudget)
  BY Zenon DEF C!EvictOldest, EvictOldest, C!Clear, Clear, C!Empty, Empty, C!OverBudget, OverBudget
<1> QED BY <1>1, <1>2, <1>3, <1>4, <1>5, <1>7, <1>8, <1>9, Zenon

ShardInv ==
    /\ CacheInv
    /\ place \in {"idle", "evict"} /\ (place = "idle" => ~OverBudget)
    /\ fill \subseteq Keys /\ served.sound

LEMMA ShardInit == C!Init => ShardInv
BY LruSame, EmptyStep DEF C!Init, C!Nothing, ShardInv

\* Dropping one key that is held.
LEMMA ShardDrop ==
    ASSUME CacheInv, NEW k \in Keys, C!Holds(k), C!Drop(k)
    PROVE  CacheInv' /\ (~OverBudget => ~OverBudget')
<1>1. Holds(k) /\ C!At(k) = At(k)
  BY LruSame
<1>2. At(k) \in DOMAIN entries /\ entries[At(k)].key = k
  BY <1>1, AtIs
<1>3. C!Without(entries, k) = Kept(entries, OfKeys(But(k)))
  <2>1. {e \in C!Entry : e.key # k} = OfKeys(But(k))
    <3>1. C!Entry = Entry
      BY LruSame
    <3> QED BY <3>1 DEF OfKeys, But, Entry
  <2> QED BY <2>1, LruSame, Zenon DEF C!Without
<1>4. C!Forget(recent, k) = Kept(recent, But(k))
  BY LruSame, Zenon DEF C!Forget, But
<1> DEFINE Y == But(k)
           Z == {k}
<1>5. \A j \in Keys : j \in Z <=> j \notin Y
  BY DEF But
<1>6. WeightOf(Kept(entries, OfKeys(Z))) = entries[At(k)].size
  BY <1>2, WeightOfKey DEF CacheInv
<1>7. entries' = Kept(entries, OfKeys(Y)) /\ recent' = Kept(recent, Y)
      /\ bytes' = bytes - WeightOf(Kept(entries, OfKeys(Z)))
  BY <1>1, <1>3, <1>4, <1>6 DEF C!Drop
<1> HIDE DEF Y, Z
<1> QED BY <1>5, <1>7, DropStep

LEMMA ShardPut ==
    ASSUME ShardInv, NEW k \in Keys, NEW right \in BOOLEAN, C!PutBody(k, right), place = "idle"
    PROVE  CacheInv' /\ place' \in {"idle", "evict"} /\ (place' = "idle" => ~OverBudget')
<1>1. CASE UNCHANGED <<C!lruVars, spoiled, place>>
  BY <1>1 DEF C!lruVars, ShardInv, CacheInv, OverBudget
<1>2. CASE C!Store(k, SizeOf[k]) /\ place' = "evict"
  <2>1. SizeOf[k] \in Sizes /\ CacheInv
    BY CacheAssumption DEF C!Parameters, ShardInv
  <2>2. Store(k, SizeOf[k])
    BY <1>2, LruSame
  <2> QED BY <1>2, <2>1, <2>2, StoreStep
<1> QED BY <1>1, <1>2 DEF C!PutBody

LEMMA ShardGet ==
    ASSUME ShardInv, NEW k \in Keys, C!GetBody(k), place = "idle"
    PROVE  CacheInv' /\ ~OverBudget' /\ served'.sound
<1>1. CacheInv /\ ~OverBudget
  BY DEF ShardInv
<1>2. CASE UNCHANGED <<C!lruVars, spoiled>> /\ served' = C!Nothing
  BY <1>1, <1>2 DEF C!lruVars, CacheInv, OverBudget, C!Nothing
<1>3. CASE C!Holds(k) /\ C!Drop(k) /\ served' = C!Nothing
  BY <1>1, <1>3, ShardDrop DEF C!Nothing
<1>4. CASE C!Holds(k) /\ k \notin spoiled /\ C!Touch(k)
           /\ served' = [key |-> {k}, sound |-> k \notin spoiled]
  <2>1. Holds(k) /\ Touch(k)
    BY <1>4, LruSame
  <2> QED BY <1>1, <1>4, <2>1, TouchStep
<1> QED BY <1>2, <1>3, <1>4 DEF C!GetBody

LEMMA ShardPublic ==
    ASSUME ShardInv, NEW k \in Keys,
           \/ \E right \in BOOLEAN : C!Put(k, right)
           \/ C!Get(k) \/ C!Lookup(k) \/ C!Invalidate(k) \/ C!Spoil(k)
    PROVE  ShardInv'
<1>1. place = "idle" /\ CacheInv /\ ~OverBudget
  BY DEF C!Put, C!Get, C!Lookup, C!Invalidate, C!Spoil, C!Call, ShardInv
<1>2. ASSUME NEW right \in BOOLEAN, C!Put(k, right) PROVE ShardInv'
  BY <1>1, <1>2, ShardPut DEF C!Put, ShardInv
<1>3. CASE C!Get(k)
  BY <1>1, <1>3, ShardGet DEF C!Get, ShardInv
<1>4. CASE C!Lookup(k)
  <2>1. CacheInv' /\ ~OverBudget' /\ served'.sound
    BY <1>1, <1>4, ShardGet DEF C!Lookup
  <2>2. fill' \subseteq Keys /\ place' = place
    BY <1>4 DEF C!Lookup
  <2> QED BY <1>1, <2>1, <2>2 DEF ShardInv
<1>5. CASE C!Invalidate(k)
  <2>1. CASE C!Holds(k) /\ C!Drop(k)
    BY <1>1, <1>5, <2>1, ShardDrop DEF C!Invalidate, ShardInv
  <2>2. CASE UNCHANGED <<C!lruVars, spoiled>>
    BY <1>1, <1>5, <2>2 DEF C!Invalidate, ShardInv, C!lruVars, CacheInv, OverBudget
  <2> QED BY <1>5, <2>1, <2>2 DEF C!Invalidate
<1>6. CASE C!Spoil(k)
  BY <1>6 DEF C!Spoil, ShardInv, C!lruVars, CacheInv, OverBudget
<1> QED BY <1>2, <1>3, <1>4, <1>5, <1>6

LEMMA ShardFills ==
    ASSUME ShardInv, NEW right \in BOOLEAN, C!LookupFills(right)
    PROVE  ShardInv'
<1>1. PICK k \in Keys : C!PutBody(k, right)
  BY DEF C!LookupFills, ShardInv
<1>2. place = "idle" /\ fill' = {} /\ served' = served
  BY DEF C!LookupFills
<1> QED BY <1>1, <1>2, ShardPut DEF ShardInv

LEMMA ShardGeneration ==
    ASSUME ShardInv, NEW g, C!EvictGeneration(g)
    PROVE  ShardInv'
<1> DEFINE Z == C!DoomedBy(g)
           Y == Keys \ Z
<1>1. place = "idle" /\ CacheInv /\ ~OverBudget
  BY DEF C!EvictGeneration, C!Call, ShardInv
<1>2. \A k \in Keys : k \in Z <=> k \notin Y
  OBVIOUS
<1>3. {e \in C!Entry : e.key \in Y} = OfKeys(Y) /\ {e \in C!Entry : e.key \in Z} = OfKeys(Z)
  <2>1. C!Entry = Entry
    BY LruSame
  <2> QED BY <2>1, Zenon DEF OfKeys
<1>4. /\ entries' = C!Kept(entries, {e \in C!Entry : e.key \in Y}) /\ recent' = C!Kept(recent, Y)
      /\ bytes' = bytes - C!WeightOf(C!Kept(entries, {e \in C!Entry : e.key \in Z}))
      /\ place' = place /\ fill' = fill /\ served' = served
  BY Zenon DEF C!EvictGeneration
<1> HIDE DEF Y, Z
<1>5. /\ entries' = Kept(entries, OfKeys(Y)) /\ recent' = Kept(recent, Y)
      /\ bytes' = bytes - WeightOf(Kept(entries, OfKeys(Z)))
  BY <1>3, <1>4, LruSame, Zenon
<1>6. CacheInv' /\ ~OverBudget'
  BY <1>1, <1>2, <1>5, DropStep
<1> QED BY <1>1, <1>4, <1>6 DEF ShardInv

LEMMA ShardEvict ==
    ASSUME ShardInv, C!Evict
    PROVE  ShardInv'
<1>1. CacheInv /\ (OverBudget => entries # <<>>)
  BY BudgetIs DEF ShardInv
<1>2. place = "evict" /\ fill' = fill /\ served' = served
  BY DEF C!Evict
<1>3. CASE entries # <<>> /\ C!EvictOldest /\ place' = place
  <2>1. CacheInv'
    BY <1>1, <1>3, LruSame, EvictStep
  <2> QED BY <1>2, <1>3, <2>1 DEF ShardInv
<1>4. CASE ~(entries # <<>> /\ C!EvictOver) /\ place' = "idle" /\ UNCHANGED <<C!lruVars, spoiled>>
  <2>1. ~OverBudget
    BY <1>1, <1>4, LruSame DEF C!EvictOver
  <2>2. CacheInv' /\ ~OverBudget'
    BY <1>1, <1>4, <2>1 DEF C!lruVars, CacheInv, OverBudget
  <2> QED BY <1>2, <1>4, <2>2 DEF ShardInv
<1> QED BY <1>3, <1>4 DEF C!Evict

LEMMA ShardClear ==
    ASSUME ShardInv, C!ClearAll
    PROVE  ShardInv'
<1>1. CacheInv' /\ ~OverBudget'
  BY LruSame, EmptyStep DEF C!ClearAll
<1> QED BY <1>1 DEF C!ClearAll, ShardInv

----------------------------------------------------------------------------
(* What both caches keep. *)

\* What the two invariants say of the caches.
LEMMA CachesAreSafe ==
    ASSUME CacheInv, served.sound
    PROVE  BytesExact /\ LeastRecentGoes /\ C!SoundBytes
<1>1. LeastRecentGoes
  <2>1. PICK old \in Seq(Keys) : recent = old \o KeysOf(entries)
    BY DEF CacheInv, Lined
  <2>2. PICK ks \in Seq(Keys) : ks = KeysOf(entries)
    BY KeysAppend DEF CacheInv, Lined
  <2>3. /\ Len(old) \in 0..Len(recent)
        /\ ks = SubSeq(recent, Len(old) + 1, Len(recent))
    BY <2>1, <2>2
  <2> QED BY <2>2, <2>3 DEF LeastRecentGoes
<1> QED BY <1>1 DEF CacheInv, BytesExact, C!SoundBytes

\* Either cache counts its bytes exactly and keeps what was used last, within its limits, over
\* every order of two threads' reads, loads, failures and puts, and every sequence of public
\* calls; and no damaged bytes are handed out (retention.py, cache.py).
THEOREM CachesAreKept == RuntimeSpec => []CachesAreSound
<1> DEFINE I == IF user = "retention" THEN RetentionInv /\ served.sound ELSE ShardInv
<1>1. RuntimeInit => I
  BY RetentionInit, ShardInit DEF RuntimeInit, ShardInv
<1>2. I /\ [RuntimeNext]_runtimeVars => I'
  <2> SUFFICES ASSUME I, [RuntimeNext]_runtimeVars PROVE I'
    OBVIOUS
  <2>1. CASE RetentionStep
    <3>1. user = "retention" /\ user' = user /\ served' = served /\ Next
      BY <2>1 DEF RetentionStep, shardOnly
    <3> QED BY <3>1, RetentionGet, RetentionMove, RetentionPut, RetentionClose DEF Next
  <2>2. CASE ShardStep
    <3>1. user = "shards" /\ user' = user /\ C!Next
      BY <2>2 DEF ShardStep
    <3> QED BY <3>1, ShardPublic, ShardFills, ShardGeneration, ShardEvict, ShardClear DEF C!Next
  <2>3. CASE UNCHANGED <<user, lruVars, retentionOnly, shardOnly>>
    <3>1. /\ user' = user /\ entries' = entries /\ bytes' = bytes /\ recent' = recent
          /\ lock' = lock /\ pc' = pc /\ key' = key /\ size' = size
          /\ place' = place /\ fill' = fill /\ served' = served
      BY <2>3 DEF lruVars, retentionOnly, shardOnly
    <3>2. (CacheInv => CacheInv') /\ (OverBudget' <=> OverBudget)
      BY <3>1 DEF CacheInv, OverBudget
    <3>3. (RetentionInv => RetentionInv') /\ (ShardInv => ShardInv')
      BY <3>1, <3>2 DEF RetentionInv, ShardInv
    <3> QED BY <3>1, <3>3
  <2>4. RetentionStep \/ ShardStep \/ UNCHANGED <<user, lruVars, retentionOnly, shardOnly>>
    BY DEF RuntimeNext, CursorStep, CallStep, StatusStep, ChangesStep, runtimeVars
  <2> QED BY <2>1, <2>2, <2>3, <2>4
<1>3. I => CachesAreSound
  <2>1. CASE user = "retention" /\ RetentionInv /\ served.sound
    BY <2>1, CachesAreSafe DEF CachesAreSound, RetentionInv, WithinBudget
  <2>2. CASE user # "retention" /\ ShardInv
    <3>1. CacheInv /\ served.sound /\ (place = "idle" => ~C!OverBudget)
      BY <2>2, LruSame DEF ShardInv
    <3> QED BY <2>2, <3>1, CachesAreSafe DEF CachesAreSound, C!WithinBudget
  <2> QED BY <2>1, <2>2
<1> QED BY <1>1, <1>2, <1>3, PTL DEF RuntimeSpec, runtimeVars
=============================================================================
