--------------------------- MODULE SnapshotProofs ---------------------------
(***************************************************************************)
(* Theorems about the read path and its recovery for any number of         *)
(* readers, daemons, projects, shards and generations, every retention     *)
(* limit, any amount of damage and any number of attempts.                 *)
(***************************************************************************)
EXTENDS Recovery, WellFoundedInduction, TLAPS

Phases == {"out", "waiting", "in"}
Ats ==
    {"done", "pointer", "catalog", "open", "select", "current", "enter", "validate", "miss",
     "copy", "verify", "absent"}
Vectors == [Projects -> Gens]
Retained == Projects \X Gens \X BOOLEAN
Pins == {NoPin} \cup UNION {[scope -> Gens] : scope \in SUBSET Projects}

Jobs ==
    [at : Ats, tool : {"none", "query", "status", "recover"}, scope : SUBSET Projects,
     pin : Pins, since : Nat, cat : Nat, unopened : SUBSET Projects, lost : SUBSET Projects,
     todo : SUBSET Projects, project : Projects \cup {0}, gen : Gens, left : SUBSET Names,
     bad : BOOLEAN, got : SUBSET Retained,
     code : {"none", "OK", "INTERNAL_ERROR", "SNAPSHOT_UNAVAILABLE", "SNAPSHOT_EXPIRED"},
     cause : {"none", "missing", "damaged", "guard", "pin"}]

TypeOK ==
    /\ phase \in [Members -> Phases]
    /\ pointer \in Vectors
    /\ catalogs \in Seq(Vectors) /\ Current \in Nat \ {0}
    /\ tampered \in Nat
    /\ cache \subseteq Retained
    /\ job \in [Readers -> Jobs]

\* Nobody but Tamper takes or spoils what is current: the collector spares it.
FilesInv ==
    /\ \A k \in 1..Current, p \in Projects : catalogs[k][p] <= pointer[p]
    /\ tampered = 0 =>
         /\ damaged = {}
         /\ CatalogFile(Current) \in disk
         /\ \A p \in Projects :
              GenerationFiles(p, pointer[p]) \cup GenerationFiles(p, catalogs[Current][p])
                 \subseteq disk

\* A retained generation was verified.
CacheInv == \A c \in cache : c[3]

\* The catalog was read: what is pinned is one vector, published during the call.
Pinned(j) ==
    /\ j.tool \in {"query", "recover"}
    /\ j.at \notin {"done", "pointer", "absent"}

\* One project is being read.
Reading(j) == j.at \in {"current", "enter", "validate", "miss", "copy", "verify"}

\* Where a call stands, by the steps it has taken; ph is its phase at the guard, n the number
\* of catalogs published so far and t the number of times files were touched.
PlaceOK(j, ph, n, t) ==
    /\ 1 <= j.since /\ j.since <= n
    /\ j.at = "done" <=> j.code # "none" \/ j.tool = "none"
    /\ ph # "out" => j.at \in {"current", "validate", "copy"}
    /\ j.tool = "recover" =>
         /\ j.at \in {"done", "pointer", "catalog", "open", "select", "absent"}
         /\ j.code # "OK" /\ j.todo = {} /\ j.cause \notin {"guard", "pin"}
    /\ j.at \in {"pointer", "catalog", "open"} => j.tool # "status"
    /\ j.at \in {"current", "enter"} => j.tool = "status"
    /\ j.at = "absent" => j.tool = "recover"
    /\ j.at = "open" => j.unopened # {}
    /\ Pinned(j) => j.since <= j.cat /\ j.cat <= n
    /\ Reading(j) => j.project \in j.todo
    /\ j.bad => t > 0
    /\ \A c \in j.got : c[3]

\* graph_query: what it has and what it reads belong to the vector it pinned.
VectorOK(j, cats) ==
    j.tool = "query" /\ j.at # "done" =>
        /\ j.scope # {} /\ j.pin \in {NoPin} \cup [j.scope -> Gens]
        /\ j.todo \subseteq j.scope
        /\ j.at \in {"pointer", "catalog", "open"} => j.todo = j.scope
        /\ {c[1] : c \in j.got} = j.scope \ j.todo
        /\ Reading(j) => j.gen = cats[j.cat][j.project]
        /\ \A c \in j.got : c[2] = cats[j.cat][c[1]]

\* A member is missing, or a call over a pinned vector failed in its files, only if somebody
\* touched them or the catalog has moved since the call began.
CauseOK(j, n, t) ==
    j.tool \in {"query", "recover"} =>
        /\ j.lost # {} => t > 0 \/ j.since < n
        /\ j.code \notin {"none", "OK"} => j.cause \in {"guard", "pin"} \/ t > 0 \/ j.since < n

Good(j, ph, cats, t) ==
    /\ j \in Jobs
    /\ PlaceOK(j, ph, Len(cats), t)
    /\ VectorOK(j, cats)
    /\ CauseOK(j, Len(cats), t)

IInv ==
    /\ TypeOK /\ FilesInv /\ CacheInv
    /\ \A r \in Readers : Good(job[r], phase[r], catalogs, tampered)

Recs ==
    [state : {"idle", "running", "done"}, policy : Policies, limit : Nat, attempt : Nat,
     begun : Nat, since : Nat, pin : (Projects \X Gens) \cup {<<0, 0>>},
     status : {"none", "served", "partial", "failed"},
     code : {"none", "PROJECT_UNAVAILABLE", "SNAPSHOT_UNAVAILABLE", "SNAPSHOT_CORRUPT",
             "SNAPSHOT_EXPIRED"},
     lost : SUBSET Projects]

\* read_with_recovery: an attempt beyond the first took a new catalog each.
AttemptInv(r) ==
    LET j == job[r]
        q == rec[r]
    IN
    /\ q.state = "running" /\ q.pin = <<0, 0>> =>
         /\ j.tool = "recover" /\ j.at # "absent" /\ j.since = q.since
         /\ q.status = "none"
         /\ q.attempt <= q.limit
         /\ tampered > 0 \/ q.since + 1 >= q.begun + q.attempt
    /\ q.status = "failed" => tampered > 0 \/ Current >= q.begun + q.limit
    /\ q.status = "partial" => q.policy = "allow_partial" /\ (tampered > 0 \/ Current > q.since)

\* require_generation: the lane had moved on when the directory was found absent.
AbsenceInv(r) ==
    LET q == rec[r]
        behind == pointer[q.pin[1]] > q.pin[2]
    IN
    /\ job[r].at = "absent" => q.state = "running" /\ q.pin # <<0, 0>>
    /\ q.pin # <<0, 0>> =>
         /\ pointer[q.pin[1]] >= q.pin[2]
         /\ q.state = "running" => job[r].at = "absent" /\ (tampered > 0 \/ behind)
         /\ q.code = "SNAPSHOT_EXPIRED" => behind
         /\ q.code = "SNAPSHOT_UNAVAILABLE" => tampered > 0

RInv ==
    /\ IInv
    /\ rec \in [Readers -> Recs]
    /\ \A r \in Readers : AttemptInv(r) /\ AbsenceInv(r)

----------------------------------------------------------------------------
(* Helpers. *)

\* Every set of numbers that is not empty has a least member, which is Min.
LEMMA MinIsLeast ==
    ASSUME NEW S, S \subseteq Nat, S # {}
    PROVE  Min(S) \in S /\ \A y \in S : Min(S) <= y
<1> DEFINE R == OpToRel(<, Nat)
<1>1. \E x \in S : \A y \in S : ~ (<<y, x>> \in R)
  <2>1. IsWellFoundedOn(R, Nat)
    BY NatLessThanWellFounded
  <2> HIDE DEF R
  <2> QED BY <2>1, WFMin
<1>2. \A x, y \in S : <<y, x>> \in R <=> y < x
  BY DEF OpToRel
<1> HIDE DEF R
<1>3. \E x \in S : \A y \in S : x <= y
  <2>1. PICK x \in S : \A y \in S : ~ (<<y, x>> \in R)
    BY <1>1, Zenon
  <2>2. \A y \in S : ~ (y < x)
    BY <1>2, <2>1, Zenon
  <2> QED BY <2>2
<1> QED BY <1>3 DEF Min

\* A good call stays good when another catalog is published or files are touched.
LEMMA GoodStays ==
    ASSUME NEW j, NEW ph, NEW cats \in Seq(Vectors), NEW t \in Nat, NEW u \in Nat,
           NEW more \in Seq(Vectors), t <= u, Len(cats) <= Len(more),
           \A k \in 1..Len(cats) : more[k] = cats[k],
           Good(j, ph, cats, t)
    PROVE  Good(j, ph, more, u)
<1> USE DEF Good
<1>1. PlaceOK(j, ph, Len(more), u)
  BY DEF PlaceOK, Pinned, Reading, Jobs
<1>2. VectorOK(j, more)
  <2> SUFFICES ASSUME j.tool = "query", j.at # "done" PROVE VectorOK(j, more)
    BY DEF VectorOK
  <2>1. CASE Pinned(j)
    <3>1. j.cat \in 1..Len(cats)
      BY <2>1 DEF PlaceOK, Jobs
    <3> QED BY <3>1 DEF VectorOK
  <2>2. CASE ~Pinned(j)
    <3>1. j.at \in {"pointer", "absent"}
      BY <2>2 DEF Pinned
    <3>2. j.at = "pointer"
      BY <3>1 DEF PlaceOK
    <3>3. j.got = {}
      <4>1. {c[1] : c \in j.got} = {}
        BY <3>2 DEF VectorOK
      <4> QED BY <4>1
    <3> QED BY <3>2, <3>3 DEF VectorOK, Reading
  <2> QED BY <2>1, <2>2
<1>3. CauseOK(j, Len(more), u)
  BY DEF CauseOK, Jobs
<1> QED BY <1>1, <1>2, <1>3

\* A step of one call that leaves the files alone.
LEMMA CallStep ==
    ASSUME IInv, NEW r \in Readers, NEW x,
           job' = [job EXCEPT ![r] = x],
           phase' \in [Members -> Phases],
           \A m \in Members \ {r} : phase'[m] = phase[m],
           UNCHANGED diskVars,
           cache' \subseteq Retained, \A c \in cache' : c[3],
           Good(x, phase'[r], catalogs, tampered)
    PROVE  IInv'
<1>1. TypeOK'
  BY DEF IInv, TypeOK, diskVars, Good, Current
<1>2. FilesInv'
  BY DEF IInv, FilesInv, diskVars, CatalogFile, GenerationFiles, Current
<1>3. \A q \in Readers : Good(job'[q], phase'[q], catalogs', tampered')
  <2> TAKE q \in Readers
  <2>1. CASE q = r
    BY <2>1 DEF IInv, TypeOK, diskVars
  <2>2. CASE q # r
    BY <2>2 DEF IInv, TypeOK, diskVars, Members
  <2> QED BY <2>1, <2>2
<1> QED
  BY <1>1, <1>2, <1>3 DEF IInv, CacheInv

\* A step of the daemon or of the process that touches files.
LEMMA OutsideStep ==
    ASSUME IInv, TypeOK', FilesInv', UNCHANGED <<cache, job>>,
           \A r \in Readers : phase'[r] = phase[r],
           tampered <= tampered', Current <= Current',
           \A k \in 1..Current : catalogs'[k] = catalogs[k]
    PROVE  IInv'
<1>1. \A r \in Readers : Good(job'[r], phase'[r], catalogs', tampered')
  BY GoodStays DEF IInv, TypeOK, Current
<1> QED
  BY <1>1 DEF IInv, CacheInv

----------------------------------------------------------------------------
(* The steps of a call. *)

\* A call that raises, or answers one of the snapshot codes.
Raised(j, code, cause) ==
    [NoJob EXCEPT !.tool = j.tool, !.since = j.since, !.code = code, !.cause = cause]

\* The record of a call that has not begun has the type of a call.
LEMMA NoJobType == NoJob \in Jobs
  BY SnapshotAssumption DEF NoJob, Jobs, Ats, Pins, Gens, NoPin

\* A call ends badly in a good state, if there is a reason for its cause.
LEMMA RaisedGood ==
    ASSUME NEW j, NEW ph, NEW cats \in Seq(Vectors), NEW t \in Nat, Good(j, ph, cats, t),
           j.at # "done",
           NEW code \in {"INTERNAL_ERROR", "SNAPSHOT_UNAVAILABLE", "SNAPSHOT_EXPIRED"},
           NEW cause \in {"missing", "damaged", "guard", "pin"},
           cause \in {"guard", "pin"} => j.tool # "recover",
           cause \in {"missing", "damaged"} /\ j.tool \in {"query", "recover"} =>
              t > 0 \/ j.since < Len(cats)
    PROVE  Good(Raised(j, code, cause), "out", cats, t)
<1> DEFINE x == Raised(j, code, cause)
<1>1. x \in Jobs
  BY NoJobType DEF Raised, Good, Jobs
<1>2. /\ x.at = "done" /\ x.tool = j.tool /\ x.since = j.since /\ x.code = code
      /\ x.cause = cause /\ x.todo = {} /\ x.lost = {} /\ x.got = {} /\ x.bad = FALSE
  BY DEF Raised, NoJob
<1> HIDE DEF x
<1>3. PlaceOK(x, "out", Len(cats), t)
  BY <1>2 DEF Good, PlaceOK, Pinned, Reading
<1>4. VectorOK(x, cats)
  BY <1>2 DEF VectorOK
<1>5. CauseOK(x, Len(cats), t)
  BY <1>2 DEF CauseOK
<1> QED BY <1>1, <1>3, <1>4, <1>5 DEF Good, x

\* What Fail does to a call, as one assignment.
LEMMA FailAssigns ==
    ASSUME NEW r \in Readers, NEW cause, Fail(r, cause)
    PROVE  job' = [job EXCEPT ![r] = Raised(job[r], "INTERNAL_ERROR", cause)]
  BY DEF Fail, Done, Raised

\* What the invariant says about one call.
Facts(r) ==
    /\ Good(job[r], phase[r], catalogs, tampered)
    /\ catalogs \in Seq(Vectors) /\ tampered \in Nat /\ Current \in Nat \ {0}
    /\ job \in [Readers -> Jobs] /\ phase \in [Members -> Phases] /\ r \in Members
    /\ cache \subseteq Retained /\ \A c \in cache : c[3]
    /\ job[r].bad => tampered > 0
    /\ job[r].tool \in {"query", "recover"} /\ job[r].lost # {} =>
         tampered > 0 \/ job[r].since < Len(catalogs)

\* What the invariant says of the call of one reader.
LEMMA CallGood ==
    ASSUME IInv, NEW r \in Readers
    PROVE  Facts(r)
  BY DEF Facts, IInv, TypeOK, CacheInv, Members, Good, PlaceOK, CauseOK

\* Somebody touched the files, or the call's catalog is no longer the current one, when a file
\* of the pinned vector is not there or is not what was published.
LEMMA LossHasCause ==
    ASSUME IInv, NEW r \in Readers, Pinned(job[r]),
           \/ CatalogFile(job[r].cat) \notin disk \ damaged
           \/ \E p \in Projects, f \in Names :
                 <<p, catalogs[job[r].cat][p], f>> \notin disk \ damaged
    PROVE  tampered > 0 \/ job[r].since < Len(catalogs)
<1>1. /\ job[r].since \in Nat /\ job[r].cat \in Nat
      /\ job[r].since <= job[r].cat /\ job[r].cat <= Len(catalogs) /\ tampered \in Nat
      /\ Len(catalogs) \in Nat
  BY CallGood DEF Facts, Good, PlaceOK, Jobs, Current
<1>2. CASE job[r].cat = Len(catalogs) /\ tampered = 0
  BY <1>2 DEF IInv, FilesInv, GenerationFiles, Current
<1> QED BY <1>1, <1>2

\* A step of a call outside the guard that touches nothing but its own record.
LEMMA QuietStep ==
    ASSUME IInv, NEW r \in Readers, NEW x, job' = [job EXCEPT ![r] = x],
           UNCHANGED <<phase, diskVars, cache>>,
           Good(x, phase[r], catalogs, tampered)
    PROVE  IInv'
<1>1. phase' = phase /\ cache' = cache /\ UNCHANGED diskVars
  OBVIOUS
<1> QED BY <1>1, CallGood, CallStep DEF Facts

\* A step of a call that moves it at the guard.
LEMMA GuardStep ==
    ASSUME IInv, NEW r \in Readers, NEW x, NEW ph \in Phases, job' = [job EXCEPT ![r] = x],
           phase' = [phase EXCEPT ![r] = ph], UNCHANGED <<diskVars, cache>>,
           Good(x, ph, catalogs, tampered)
    PROVE  IInv'
<1>1. phase' \in [Members -> Phases] /\ phase'[r] = ph
  BY CallGood DEF Facts
<1>2. \A m \in Members \ {r} : phase'[m] = phase[m]
  BY CallGood DEF Facts
<1>3. cache' = cache /\ UNCHANGED diskVars
  OBVIOUS
<1> QED BY <1>1, <1>2, <1>3, CallGood, CallStep DEF Facts

\* A query that has not opened its vector has nothing in hand.
LEMMA EmptyHanded ==
    ASSUME NEW j, NEW cats, VectorOK(j, cats), j.tool = "query",
           j.at \in {"pointer", "catalog", "open"}
    PROVE  j.got = {}
<1>1. {c[1] : c \in j.got} = {}
  BY DEF VectorOK
<1> QED BY <1>1

\* What a call carries along while it moves on.
Carries(x, j) ==
    /\ x \in Jobs
    /\ x.tool = j.tool /\ x.scope = j.scope /\ x.pin = j.pin /\ x.since = j.since
    /\ x.cat = j.cat /\ x.todo = j.todo /\ x.got = j.got /\ x.code = j.code
    /\ x.cause = j.cause

\* A call moves on inside its vector.
LEMMA MoveGood ==
    ASSUME NEW j, NEW x, NEW ph, NEW qh, NEW cats \in Seq(Vectors), NEW t \in Nat,
           Good(j, ph, cats, t), j.at # "done", Carries(x, j),
           x.at \in {"open", "select", "current", "enter", "validate", "miss", "copy", "verify"},
           Pinned(x) => Pinned(j),
           qh # "out" => x.at \in {"current", "validate", "copy"},
           x.tool = "recover" => x.at \in {"open", "select"},
           x.at = "open" => x.tool # "status" /\ x.unopened # {},
           x.at \in {"current", "enter"} => x.tool = "status",
           x.bad => t > 0,
           Reading(x) => x.project \in x.todo,
           x.tool = "query" =>
              /\ x.at = "open" => x.todo = x.scope
              /\ Reading(x) => x.gen = cats[x.cat][x.project],
           x.tool \in {"query", "recover"} /\ x.lost # {} => t > 0 \/ x.since < Len(cats)
    PROVE  Good(x, qh, cats, t)
<1> USE DEF Carries
<1>1. PlaceOK(x, qh, Len(cats), t)
  BY DEF Good, PlaceOK
<1>2. VectorOK(x, cats)
  BY DEF Good, VectorOK
<1>3. CauseOK(x, Len(cats), t)
  BY DEF Good, CauseOK, PlaceOK
<1> QED BY <1>1, <1>2, <1>3 DEF Good

\* graph_query begins.
LEMMA BeginQueryStep == ASSUME IInv, NEW r \in Readers, BeginQuery(r) PROVE IInv'
<1>a. Facts(r)
  BY CallGood
<1> USE <1>a DEF Facts
<1>1. PICK scope \in (SUBSET Projects) \ {{}} :
        \E pin \in {NoPin} \cup {Restrict(catalogs[k], scope) : k \in 1..Current} :
          job' = [job EXCEPT ![r] =
                    [NoJob EXCEPT !.at = "pointer", !.tool = "query", !.scope = scope,
                                  !.todo = scope, !.pin = pin, !.since = Current]]
  BY DEF BeginQuery
<1>2. PICK pin \in {NoPin} \cup {Restrict(catalogs[k], scope) : k \in 1..Current} :
        job' = [job EXCEPT ![r] =
                  [NoJob EXCEPT !.at = "pointer", !.tool = "query", !.scope = scope,
                                !.todo = scope, !.pin = pin, !.since = Current]]
  BY <1>1
<1> DEFINE x == [NoJob EXCEPT !.at = "pointer", !.tool = "query", !.scope = scope,
                              !.todo = scope, !.pin = pin, !.since = Current]
<1>3. pin \in {NoPin} \cup [scope -> Gens]
  BY DEF Restrict, Vectors, Current
<1>4. x \in Jobs
  <2>1. pin \in Pins /\ scope \in SUBSET Projects /\ Current \in Nat
    BY <1>3 DEF Pins
  <2> QED BY <2>1, NoJobType, Zenon DEF Jobs, Ats
<1>5. /\ x.at = "pointer" /\ x.tool = "query" /\ x.scope = scope /\ x.todo = scope
      /\ x.pin = pin /\ x.since = Current /\ x.lost = {} /\ x.got = {} /\ x.bad = FALSE
      /\ x.code = "none"
  BY DEF NoJob
<1>6. phase[r] = "out"
  BY DEF BeginQuery, Good, PlaceOK
<1> HIDE DEF x
<1>7. Good(x, phase[r], catalogs, tampered)
  <2>1. PlaceOK(x, "out", Len(catalogs), tampered)
    BY <1>5 DEF PlaceOK, Pinned, Reading, Current
  <2>2. VectorOK(x, catalogs)
    BY <1>3, <1>5 DEF VectorOK, Reading
  <2>3. CauseOK(x, Len(catalogs), tampered)
    BY <1>5 DEF CauseOK
  <2> QED BY <1>4, <1>6, <2>1, <2>2, <2>3 DEF Good
<1>8. job' = [job EXCEPT ![r] = x]
  BY <1>2 DEF x
<1> QED
  BY <1>7, <1>8, QuietStep DEF BeginQuery

\* The catalog pointer is read.
LEMMA ReadCatalogPointerStep ==
    ASSUME IInv, NEW r \in Readers, ReadCatalogPointer(r) PROVE IInv'
<1>a. Facts(r)
  BY CallGood
<1> USE <1>a DEF Facts
<1> DEFINE x == [job[r] EXCEPT !.at = "catalog", !.cat = Current]
<1>1. job[r].at = "pointer" /\ phase[r] = "out"
  BY DEF ReadCatalogPointer, Good, PlaceOK
<1>2. job' = [job EXCEPT ![r] = x]
  BY DEF ReadCatalogPointer
<1>3. x \in Jobs
  <2>1. job[r] \in Jobs /\ Current \in Nat
    OBVIOUS
  <2> QED BY <2>1, Zenon DEF Jobs, Ats
<1>f. /\ x.at = "catalog" /\ x.tool = job[r].tool /\ x.scope = job[r].scope
      /\ x.pin = job[r].pin /\ x.since = job[r].since /\ x.cat = Current
      /\ x.lost = job[r].lost /\ x.todo = job[r].todo /\ x.bad = job[r].bad
      /\ x.got = job[r].got /\ x.code = job[r].code /\ x.cause = job[r].cause
  BY DEF Jobs
<1>g. job[r].tool = "query" => job[r].got = {}
  BY <1>1, EmptyHanded DEF Good
<1> HIDE DEF x
<1>4. Good(x, phase[r], catalogs, tampered)
  <2>1. PlaceOK(x, "out", Len(catalogs), tampered)
    BY <1>1, <1>3, <1>f DEF Good, PlaceOK, Pinned, Reading, Current, Jobs
  <2>2. VectorOK(x, catalogs)
    BY <1>1, <1>f, <1>g DEF Good, VectorOK, Reading
  <2>3. CauseOK(x, Len(catalogs), tampered)
    BY <1>1, <1>f DEF Good, CauseOK
  <2> QED BY <1>1, <1>3, <2>1, <2>2, <2>3 DEF Good
<1> QED
  BY <1>2, <1>4, QuietStep DEF ReadCatalogPointer

\* The catalog is read.
LEMMA ReadCatalogStep == ASSUME IInv, NEW r \in Readers, ReadCatalog(r) PROVE IInv'
<1>a. Facts(r)
  BY CallGood
<1> USE <1>a DEF Facts
<1> DEFINE j == job[r]
<1>1. /\ j.at = "catalog" /\ phase[r] = "out" /\ j.tool # "status" /\ j.tool # "none" /\ j \in Jobs
      /\ UNCHANGED <<phase, diskVars, cache>>
  BY DEF ReadCatalog, Good, PlaceOK
<1>2. Pinned(j)
  BY <1>1 DEF Pinned, Jobs
<1>3. ASSUME NEW cause \in {"missing", "damaged"}, Fail(r, cause),
             CatalogFile(j.cat) \notin disk \ damaged
      PROVE  IInv'
  <2>1. Good(Raised(j, "INTERNAL_ERROR", cause), phase[r], catalogs, tampered)
    BY <1>1, <1>2, <1>3, LossHasCause, RaisedGood
  <2> QED BY <1>1, <1>3, <2>1, FailAssigns, QuietStep
<1>4. CASE job' = [job EXCEPT ![r].at = "open", ![r].unopened = Projects]
  <2> DEFINE x == [j EXCEPT !.at = "open", !.unopened = Projects]
  <2>1. x \in Jobs
    BY <1>1, Zenon DEF Jobs, Ats
  <2>2. Carries(x, j) /\ x.at = "open" /\ x.unopened = Projects /\ x.bad = j.bad /\ x.lost = j.lost
    BY <1>1, <2>1 DEF Carries, Jobs
  <2>3. job' = [job EXCEPT ![r] = x]
    BY <1>4
  <2> HIDE DEF x
  <2>4. Good(x, phase[r], catalogs, tampered)
    <3>1. j.tool = "query" => j.todo = j.scope
      BY <1>1 DEF Good, VectorOK
    <3> QED BY <1>1, <1>2, <2>2, <3>1, SnapshotAssumption, MoveGood
            DEF Carries, Pinned, Reading
  <2> QED BY <1>1, <2>3, <2>4, QuietStep
<1> QED
  BY <1>3, <1>4 DEF ReadCatalog

\* A member of the catalog is opened, or found missing.
LEMMA OpenMemberStep == ASSUME IInv, NEW r \in Readers, OpenMember(r) PROVE IInv'
<1>a. Facts(r)
  BY CallGood
<1> USE <1>a DEF Facts
<1> DEFINE j == job[r]
           p == Min(j.unopened)
           file == <<p, catalogs[j.cat][p], "manifest">>
           opened == j.unopened \ {p}
           next == IF opened = {} THEN "select" ELSE "open"
<1>1. /\ j.at = "open" /\ phase[r] = "out" /\ j.tool # "status" /\ j.tool # "none" /\ j \in Jobs
      /\ UNCHANGED <<phase, diskVars, cache>> /\ j.unopened # {}
  BY DEF OpenMember, Good, PlaceOK
<1>2. Pinned(j)
  BY <1>1 DEF Pinned, Jobs
<1>3. p \in Projects
  <2>1. j.unopened \subseteq Nat /\ j.unopened \subseteq Projects
    BY <1>1, SnapshotAssumption DEF Jobs
  <2> QED BY <1>1, <2>1, MinIsLeast
<1> HIDE DEF p
<1>4. file \notin disk \ damaged => tampered > 0 \/ j.since < Len(catalogs)
  BY <1>2, <1>3, LossHasCause DEF Names
<1>5. ASSUME Fail(r, "damaged"), file \in damaged PROVE IInv'
  <2>1. Good(Raised(j, "INTERNAL_ERROR", "damaged"), phase[r], catalogs, tampered)
    BY <1>1, <1>4, <1>5, RaisedGood
  <2> QED BY <1>1, <1>5, <2>1, FailAssigns, QuietStep
<1>6. ASSUME NEW x, job' = [job EXCEPT ![r] = x], Carries(x, j),
             x.at = next, x.unopened = opened, x.bad = j.bad,
             \/ x.lost = j.lost
             \/ file \notin disk \ damaged
      PROVE  IInv'
  <2>1. j.tool = "query" => j.todo = j.scope
    BY <1>1 DEF Good, VectorOK
  <2>2. x.tool \in {"query", "recover"} /\ x.lost # {} =>
           tampered > 0 \/ x.since < Len(catalogs)
    BY <1>4, <1>6 DEF Carries
  <2>3. Good(x, phase[r], catalogs, tampered)
    BY <1>1, <1>2, <1>6, <2>1, <2>2, MoveGood DEF Carries, Pinned, Reading
  <2> QED BY <1>1, <1>6, <2>3, QuietStep
<1>7. ASSUME job' = [job EXCEPT ![r].at = next, ![r].unopened = opened, ![r].lost = @ \cup {p}],
             file \notin disk \ damaged
      PROVE  IInv'
  <2> DEFINE x == [j EXCEPT !.at = next, !.unopened = opened, !.lost = @ \cup {p}]
  <2>1. x \in Jobs
    <3>1. next \in Ats /\ opened \in SUBSET Projects /\ j.lost \cup {p} \in SUBSET Projects
      BY <1>1, <1>3 DEF Ats, Jobs
    <3> HIDE DEF next, opened
    <3> QED BY <1>1, <3>1, Zenon DEF Jobs
  <2> HIDE DEF next, opened
  <2>2. Carries(x, j) /\ x.at = next /\ x.unopened = opened /\ x.bad = j.bad
    BY <1>1, <2>1 DEF Carries, Jobs
  <2>3. job' = [job EXCEPT ![r] = x]
    BY <1>7
  <2> QED BY <1>6, <1>7, <2>2, <2>3
<1>8. ASSUME job' = [job EXCEPT ![r].at = next, ![r].unopened = opened]
      PROVE  IInv'
  <2> DEFINE x == [j EXCEPT !.at = next, !.unopened = opened]
  <2>1. x \in Jobs
    <3>1. next \in Ats /\ opened \in SUBSET Projects
      BY <1>1 DEF Ats, Jobs
    <3> HIDE DEF next, opened
    <3> QED BY <1>1, <3>1, Zenon DEF Jobs
  <2> HIDE DEF next, opened
  <2>2. Carries(x, j) /\ x.at = next /\ x.unopened = opened /\ x.bad = j.bad /\ x.lost = j.lost
    BY <1>1, <2>1 DEF Carries, Jobs
  <2>3. job' = [job EXCEPT ![r] = x]
    BY <1>8
  <2> QED BY <1>6, <1>8, <2>2, <2>3
<1> QED
  BY <1>5, <1>7, <1>8 DEF OpenMember, p

\* The loop over the requested projects goes on.
LEMMA SelectStep == ASSUME IInv, NEW r \in Readers, Select(r) PROVE IInv'
<1>a. Facts(r)
  BY CallGood
<1> USE <1>a DEF Facts
<1> DEFINE j == job[r]
<1>1. /\ j.at = "select" /\ phase[r] = "out" /\ j.tool # "none" /\ j \in Jobs
      /\ UNCHANGED <<diskVars, cache>>
  BY DEF Select, Good, PlaceOK
<1>2. PICK p \in j.todo :
         \/ /\ p \in j.lost
            /\ Done(r, "SNAPSHOT_UNAVAILABLE", "missing")
            /\ UNCHANGED phase
         \/ /\ p \notin j.lost /\ j.tool = "query"
            /\ job' = [job EXCEPT ![r].at = "validate", ![r].project = p,
                                  ![r].gen = catalogs[j.cat][p]]
            /\ Request(r)
         \/ /\ j.tool = "status"
            /\ job' = [job EXCEPT ![r].at = "current", ![r].project = p]
            /\ Request(r)
  BY DEF Select
<1>3. p \in Projects /\ j.tool # "recover"
  BY <1>1 DEF Jobs, Good, PlaceOK
<1>4. ASSUME p \in j.lost, Done(r, "SNAPSHOT_UNAVAILABLE", "missing"), UNCHANGED phase
      PROVE  IInv'
  <2>1. Good(Raised(j, "SNAPSHOT_UNAVAILABLE", "missing"), phase[r], catalogs, tampered)
    BY <1>1, <1>4, RaisedGood
  <2>2. job' = [job EXCEPT ![r] = Raised(j, "SNAPSHOT_UNAVAILABLE", "missing")]
    BY <1>4 DEF Done, Raised
  <2> QED BY <1>1, <1>4, <2>1, <2>2, QuietStep
<1>5. ASSUME j.tool = "query", Request(r),
             job' = [job EXCEPT ![r].at = "validate", ![r].project = p,
                                ![r].gen = catalogs[j.cat][p]]
      PROVE  IInv'
  <2> DEFINE x == [j EXCEPT !.at = "validate", !.project = p, !.gen = catalogs[j.cat][p]]
  <2>1. x \in Jobs
    <3>1. Pinned(j)
      BY <1>1, <1>5 DEF Pinned
    <3>2. j.cat \in 1..Len(catalogs)
      BY <3>1, <1>1 DEF Good, PlaceOK, Jobs
    <3>3. catalogs[j.cat][p] \in Gens
      BY <3>2, <1>3 DEF Vectors
    <3> QED BY <1>1, <1>3, <3>3, Zenon DEF Jobs, Ats
  <2>2. /\ Carries(x, j) /\ x.at = "validate" /\ x.project = p /\ x.bad = j.bad
        /\ x.gen = catalogs[j.cat][p] /\ x.lost = j.lost
    BY <1>1, <2>1 DEF Carries, Jobs
  <2>3. job' = [job EXCEPT ![r] = x]
    BY <1>5
  <2> HIDE DEF x
  <2>4. Good(x, "waiting", catalogs, tampered)
    BY <1>1, <1>2, <1>5, <2>2, MoveGood DEF Carries, Pinned, Reading
  <2> QED BY <1>1, <1>5, <2>3, <2>4, GuardStep DEF Request, Phases
<1>6. ASSUME j.tool = "status", Request(r),
             job' = [job EXCEPT ![r].at = "current", ![r].project = p]
      PROVE  IInv'
  <2> DEFINE x == [j EXCEPT !.at = "current", !.project = p]
  <2>1. x \in Jobs
    BY <1>1, <1>3, Zenon DEF Jobs, Ats
  <2>2. /\ Carries(x, j) /\ x.at = "current" /\ x.project = p /\ x.bad = j.bad
        /\ x.lost = j.lost
    BY <1>1, <2>1 DEF Carries, Jobs
  <2>3. job' = [job EXCEPT ![r] = x]
    BY <1>6
  <2> HIDE DEF x
  <2>4. Good(x, "waiting", catalogs, tampered)
    BY <1>1, <1>2, <1>6, <2>2, MoveGood DEF Carries, Pinned, Reading
  <2> QED BY <1>1, <1>6, <2>3, <2>4, GuardStep DEF Request, Phases
<1> QED
  BY <1>2, <1>4, <1>5, <1>6

\* The guard admits a reader.
LEMMA GuardedStep == ASSUME IInv, NEW r \in Readers, Guarded(r) PROVE IInv'
<1>a. Facts(r)
  BY CallGood
<1> USE <1>a DEF Facts
<1>1. /\ phase[r] = "waiting" /\ phase' = [phase EXCEPT ![r] = "in"]
      /\ UNCHANGED <<diskVars, cache, job>>
  BY DEF Guarded, Admit
<1>2. Good(job[r], "in", catalogs, tampered)
  BY <1>1 DEF Good, PlaceOK
<1>3. job' = [job EXCEPT ![r] = job[r]]
  BY <1>1
<1> QED BY <1>1, <1>2, <1>3, GuardStep DEF Phases

\* The wait for the guard fails.
LEMMA GuardFailsStep == ASSUME IInv, NEW r \in Readers, GuardFails(r) PROVE IInv'
<1>a. Facts(r)
  BY CallGood
<1> USE <1>a DEF Facts
<1>1. /\ phase[r] = "waiting" /\ phase' = [phase EXCEPT ![r] = "out"]
      /\ UNCHANGED <<diskVars, cache>> /\ Fail(r, "guard")
  BY DEF GuardFails, Refuse
<1>2. job[r].at # "done" /\ job[r].tool # "recover"
  BY <1>1 DEF Good, PlaceOK
<1>3. Good(Raised(job[r], "INTERNAL_ERROR", "guard"), "out", catalogs, tampered)
  BY <1>2, RaisedGood
<1> QED BY <1>1, <1>3, FailAssigns, GuardStep DEF Phases

\* graph_status reads a project's own pointer.
LEMMA ReadCurrentStep == ASSUME IInv, NEW r \in Readers, ReadCurrent(r) PROVE IInv'
<1>a. Facts(r)
  BY CallGood
<1> USE <1>a DEF Facts
<1> DEFINE j == job[r]
           x == [j EXCEPT !.at = "enter", !.gen = pointer[j.project]]
<1>1. /\ j.at = "current" /\ j \in Jobs /\ phase' = [phase EXCEPT ![r] = "out"]
      /\ UNCHANGED <<diskVars, cache>> /\ j.tool = "status" /\ j.project \in j.todo
  BY DEF ReadCurrent, Leave, Good, PlaceOK, Reading
<1>2. x \in Jobs
  <2>1. pointer[j.project] \in Gens
    BY <1>1 DEF IInv, TypeOK, Vectors, Jobs
  <2> QED BY <1>1, <2>1, Zenon DEF Jobs, Ats
<1>3. /\ Carries(x, j) /\ x.at = "enter" /\ x.project = j.project /\ x.bad = j.bad
      /\ x.lost = j.lost
  BY <1>1, <1>2 DEF Carries, Jobs
<1>4. job' = [job EXCEPT ![r] = x]
  BY DEF ReadCurrent
<1> HIDE DEF x
<1>5. Good(x, "out", catalogs, tampered)
  BY <1>1, <1>3, MoveGood DEF Carries, Pinned, Reading
<1> QED BY <1>1, <1>4, <1>5, GuardStep DEF Phases

\* graph_status asks for the guard again, for the generation it read.
LEMMA EnterPinnedStep == ASSUME IInv, NEW r \in Readers, EnterPinned(r) PROVE IInv'
<1>a. Facts(r)
  BY CallGood
<1> USE <1>a DEF Facts
<1> DEFINE j == job[r]
           x == [j EXCEPT !.at = "validate"]
<1>1. /\ j.at = "enter" /\ j \in Jobs /\ phase' = [phase EXCEPT ![r] = "waiting"]
      /\ UNCHANGED <<diskVars, cache>> /\ j.tool = "status" /\ j.project \in j.todo
  BY DEF EnterPinned, Request, Good, PlaceOK, Reading
<1>2. x \in Jobs
  BY <1>1, Zenon DEF Jobs, Ats
<1>3. /\ Carries(x, j) /\ x.at = "validate" /\ x.project = j.project /\ x.bad = j.bad
      /\ x.lost = j.lost
  BY <1>1, <1>2 DEF Carries, Jobs
<1>4. job' = [job EXCEPT ![r] = x]
  BY DEF EnterPinned
<1> HIDE DEF x
<1>5. Good(x, "waiting", catalogs, tampered)
  BY <1>1, <1>3, MoveGood DEF Carries, Pinned, Reading
<1> QED BY <1>1, <1>4, <1>5, GuardStep DEF Phases

\* The generation a call was reading is in hand.
TakenBy(j, c) ==
    [j EXCEPT !.at = "select", !.got = @ \cup {c}, !.todo = @ \ {j.project},
              !.project = 0, !.gen = 1]

\* A call that takes an intact generation of the vector it pinned stays good.
LEMMA TakenGood ==
    ASSUME NEW j, NEW ph, NEW cats \in Seq(Vectors), NEW t \in Nat, Good(j, ph, cats, t),
           j.at \in {"validate", "verify"}, NEW c \in Retained,
           c[1] = j.project, c[2] = j.gen, c[3]
    PROVE  Good(TakenBy(j, c), "out", cats, t)
<1> DEFINE x == TakenBy(j, c)
<1>1. /\ j \in Jobs /\ j.project \in j.todo /\ j.tool \in {"query", "status"}
      /\ j.code = "none"
  BY DEF Good, PlaceOK, Reading, Jobs
<1>2. x \in Jobs
  <2>1. j.got \cup {c} \in SUBSET Retained /\ j.todo \ {j.project} \in SUBSET Projects
    BY <1>1 DEF Jobs
  <2>2. 1 \in Gens
    BY SnapshotAssumption DEF Gens
  <2> QED BY <1>1, <2>1, <2>2, Zenon DEF TakenBy, Jobs, Ats
<1>3. /\ x.at = "select" /\ x.got = j.got \cup {c} /\ x.todo = j.todo \ {j.project}
      /\ x.tool = j.tool /\ x.scope = j.scope /\ x.pin = j.pin /\ x.since = j.since
      /\ x.cat = j.cat /\ x.lost = j.lost /\ x.bad = j.bad /\ x.code = j.code
      /\ x.cause = j.cause
  BY <1>1 DEF TakenBy, Jobs
<1> HIDE DEF x
<1>4. PlaceOK(x, "out", Len(cats), t)
  BY <1>1, <1>3 DEF Good, PlaceOK, Pinned, Reading
<1>5. VectorOK(x, cats)
  <2> SUFFICES ASSUME j.tool = "query" PROVE VectorOK(x, cats)
    BY <1>3 DEF VectorOK
  <2>1. {d[1] : d \in x.got} = {d[1] : d \in j.got} \cup {j.project}
    BY <1>3
  <2>2. {d[1] : d \in x.got} = x.scope \ x.todo
    BY <1>1, <1>3, <2>1 DEF Good, VectorOK
  <2>3. \A d \in x.got : d[2] = cats[x.cat][d[1]]
    BY <1>1, <1>3 DEF Good, VectorOK, Reading
  <2> QED BY <1>1, <1>3, <2>2, <2>3 DEF Good, VectorOK, Reading
<1>6. CauseOK(x, Len(cats), t)
  BY <1>3 DEF Good, CauseOK
<1> QED BY <1>2, <1>4, <1>5, <1>6 DEF Good, x

\* What Take does to a call, as one assignment.
LEMMA TakeAssigns ==
    ASSUME NEW r \in Readers, NEW c, Take(r, c)
    PROVE  job' = [job EXCEPT ![r] = TakenBy(job[r], c)]
  BY DEF Take, TakenBy

\* A file of the generation a call is reading is not there or not as published.
LEMMA ReadLossHasCause ==
    ASSUME IInv, NEW r \in Readers, job[r].at \in {"validate", "copy"}, NEW f \in Names,
           <<job[r].project, job[r].gen, f>> \notin disk \ damaged, job[r].tool = "query"
    PROVE  tampered > 0 \/ job[r].since < Len(catalogs)
<1>1. Pinned(job[r])
  BY DEF Pinned
<1>2. job[r].project \in Projects /\ job[r].gen = catalogs[job[r].cat][job[r].project]
  BY CallGood DEF Facts, Good, PlaceOK, VectorOK, Reading, Jobs
<1> QED BY <1>1, <1>2, LossHasCause

\* The manifest is revalidated under the guard.
LEMMA ValidateManifestStep == ASSUME IInv, NEW r \in Readers, ValidateManifest(r) PROVE IInv'
<1>a. Facts(r)
  BY CallGood
<1> USE <1>a DEF Facts
<1> DEFINE j == job[r]
           file == <<j.project, j.gen, "manifest">>
           kept == {c \in cache : c[1] = j.project /\ c[2] = j.gen}
<1>1. /\ j.at = "validate" /\ j \in Jobs /\ phase' = [phase EXCEPT ![r] = "out"]
      /\ UNCHANGED <<diskVars, cache>> /\ j.tool \in {"query", "status"}
      /\ j.project \in j.todo
  BY DEF ValidateManifest, Leave, Good, PlaceOK, Reading, Jobs
<1>2. ASSUME NEW cause \in {"missing", "damaged"}, Fail(r, cause), file \notin disk \ damaged
      PROVE  IInv'
  <2>1. j.tool = "query" => tampered > 0 \/ j.since < Len(catalogs)
    BY <1>1, <1>2, ReadLossHasCause DEF Names
  <2>2. Good(Raised(j, "INTERNAL_ERROR", cause), "out", catalogs, tampered)
    BY <1>1, <1>2, <2>1, RaisedGood
  <2> QED BY <1>1, <1>2, <2>2, FailAssigns, GuardStep DEF Phases
<1>3. ASSUME NEW c \in kept, Take(r, c) PROVE IInv'
  <2>1. Good(TakenBy(j, c), "out", catalogs, tampered)
    BY <1>1, <1>3, TakenGood
  <2> QED BY <1>1, <1>3, <2>1, TakeAssigns, GuardStep DEF Phases
<1>4. CASE job' = [job EXCEPT ![r].at = "miss"]
  <2> DEFINE x == [j EXCEPT !.at = "miss"]
  <2>1. x \in Jobs
    BY <1>1, Zenon DEF Jobs, Ats
  <2>2. /\ Carries(x, j) /\ x.at = "miss" /\ x.project = j.project /\ x.bad = j.bad
        /\ x.lost = j.lost /\ x.gen = j.gen
    BY <1>1, <2>1 DEF Carries, Jobs
  <2>3. job' = [job EXCEPT ![r] = x]
    BY <1>4
  <2> HIDE DEF x
  <2>4. j.tool = "query" => j.gen = catalogs[j.cat][j.project]
    BY <1>1 DEF Good, VectorOK, Reading
  <2>5. Good(x, "out", catalogs, tampered)
    BY <1>1, <2>2, <2>4, MoveGood DEF Carries, Pinned, Reading
  <2> QED BY <1>1, <2>3, <2>5, GuardStep DEF Phases
<1> QED
  BY <1>2, <1>3, <1>4 DEF ValidateManifest

\* The guard is asked for again, for the copy.
LEMMA EnterCopyStep == ASSUME IInv, NEW r \in Readers, EnterCopy(r) PROVE IInv'
<1>a. Facts(r)
  BY CallGood
<1> USE <1>a DEF Facts
<1> DEFINE j == job[r]
           x == [j EXCEPT !.at = "copy", !.left = Names]
<1>1. /\ j.at = "miss" /\ j \in Jobs /\ phase' = [phase EXCEPT ![r] = "waiting"]
      /\ UNCHANGED <<diskVars, cache>> /\ j.tool \in {"query", "status"}
      /\ j.project \in j.todo
  BY DEF EnterCopy, Request, Good, PlaceOK, Reading, Jobs
<1>2. x \in Jobs
  BY <1>1, Zenon DEF Jobs, Ats
<1>3. /\ Carries(x, j) /\ x.at = "copy" /\ x.project = j.project /\ x.bad = j.bad
      /\ x.lost = j.lost /\ x.gen = j.gen
  BY <1>1, <1>2 DEF Carries, Jobs
<1>4. job' = [job EXCEPT ![r] = x]
  BY DEF EnterCopy
<1> HIDE DEF x
<1>5. j.tool = "query" => j.gen = catalogs[j.cat][j.project]
  BY <1>1 DEF Good, VectorOK, Reading
<1>6. Good(x, "waiting", catalogs, tampered)
  BY <1>1, <1>3, <1>5, MoveGood DEF Carries, Pinned, Reading
<1> QED BY <1>1, <1>4, <1>6, GuardStep DEF Phases

\* One file is copied, refused or found missing.
LEMMA CopyFileStep == ASSUME IInv, NEW r \in Readers, CopyFile(r) PROVE IInv'
<1>a. Facts(r)
  BY CallGood
<1> USE <1>a DEF Facts
<1> DEFINE j == job[r]
<1>1. PICK f \in j.left :
        LET file == <<j.project, j.gen, f>>
            rest == j.left \ {f}
        IN
        /\ j.at = "copy" /\ phase[r] = "in"
        /\ f = "manifest" \/ "manifest" \notin j.left
        /\ \/ file \notin disk /\ Leave(r) /\ Fail(r, "missing")
           \/ file \in damaged /\ Leave(r) /\ Fail(r, "damaged")
           \/ /\ file \in disk
              /\ f = "manifest" => file \notin damaged
              /\ job' = [job EXCEPT ![r].left = rest, ![r].bad = @ \/ file \in damaged,
                                    ![r].at = IF rest = {} THEN "verify" ELSE "copy"]
              /\ IF rest = {} THEN Leave(r) ELSE UNCHANGED phase
        /\ UNCHANGED <<diskVars, cache>>
  BY DEF CopyFile
<1> DEFINE file == <<j.project, j.gen, f>>
           rest == j.left \ {f}
           next == IF rest = {} THEN "verify" ELSE "copy"
           bad == j.bad \/ file \in damaged
<1>2. /\ j.at = "copy" /\ phase[r] = "in" /\ j \in Jobs /\ f \in Names
      /\ UNCHANGED <<diskVars, cache>> /\ j.tool \in {"query", "status"}
      /\ j.project \in j.todo
  BY <1>1 DEF Good, PlaceOK, Reading, Jobs
<1>3. ASSUME NEW cause \in {"missing", "damaged"}, Leave(r), Fail(r, cause),
             file \notin disk \ damaged
      PROVE  IInv'
  <2>1. j.tool = "query" => tampered > 0 \/ j.since < Len(catalogs)
    BY <1>2, <1>3, ReadLossHasCause
  <2>2. Good(Raised(j, "INTERNAL_ERROR", cause), "out", catalogs, tampered)
    BY <1>2, <1>3, <2>1, RaisedGood
  <2> QED BY <1>2, <1>3, <2>2, FailAssigns, GuardStep DEF Phases, Leave
<1>4. ASSUME job' = [job EXCEPT ![r].left = rest, ![r].bad = @ \/ file \in damaged, ![r].at = next],
             IF rest = {} THEN Leave(r) ELSE UNCHANGED phase
      PROVE  IInv'
  <2> DEFINE x == [j EXCEPT !.left = rest, !.bad = bad, !.at = next]
             qh == IF rest = {} THEN "out" ELSE "in"
  <2>1. job' = [job EXCEPT ![r] = x] /\ phase' = [phase EXCEPT ![r] = qh]
    BY <1>2, <1>4 DEF Leave
  <2>2. next \in {"verify", "copy"} /\ rest \in SUBSET Names /\ bad \in BOOLEAN
    BY <1>2 DEF Jobs
  <2>3. bad => tampered > 0
    BY <1>2 DEF IInv, FilesInv, TypeOK
  <2>4. qh # "out" => next = "copy"
    OBVIOUS
  <2> HIDE DEF next, rest, bad
  <2>5. x \in Jobs
    <3>1. next \in Ats
      BY <2>2 DEF Ats
    <3> QED BY <1>2, <2>2, <3>1, Zenon DEF Jobs
  <2>6. /\ Carries(x, j) /\ x.at = next /\ x.project = j.project /\ x.bad = bad
        /\ x.lost = j.lost /\ x.gen = j.gen
    BY <1>2, <2>5 DEF Carries, Jobs
  <2>7. qh \in Phases
    BY DEF Phases
  <2> HIDE DEF x, qh
  <2>8. j.tool = "query" => j.gen = catalogs[j.cat][j.project]
    BY <1>2 DEF Good, VectorOK, Reading
  <2>9. Good(x, qh, catalogs, tampered)
    BY <1>2, <2>2, <2>3, <2>4, <2>6, <2>8, MoveGood DEF Carries, Pinned, Reading
  <2> QED BY <1>2, <2>1, <2>7, <2>9, GuardStep
<1> QED
  BY <1>1, <1>3, <1>4

\* The copy is verified after the guard is released, and retained.
LEMMA VerifyStep == ASSUME IInv, NEW r \in Readers, Verify(r) PROVE IInv'
<1>a. Facts(r)
  BY CallGood
<1> USE <1>a DEF Facts
<1> DEFINE j == job[r]
           c == <<j.project, j.gen, ~j.bad>>
<1>1. /\ j.at = "verify" /\ j \in Jobs /\ phase[r] = "out" /\ UNCHANGED <<phase, diskVars>>
      /\ j.tool \in {"query", "status"} /\ j.project \in j.todo
  BY DEF Verify, Good, PlaceOK, Reading, Jobs
<1>2. ASSUME j.bad, Fail(r, "damaged"), UNCHANGED cache PROVE IInv'
  <2>1. Good(Raised(j, "INTERNAL_ERROR", "damaged"), phase[r], catalogs, tampered)
    BY <1>1, <1>2, RaisedGood
  <2> QED BY <1>1, <1>2, <2>1, FailAssigns, QuietStep
<1>3. ASSUME ~j.bad, Take(r, c),
             cache' \in {cache} \cup
                {S \in SUBSET (cache \cup {c}) : c \in S /\ Cardinality(S) <= MaxRetained}
      PROVE  IInv'
  <2>1. c \in Retained /\ c[1] = j.project /\ c[2] = j.gen /\ c[3]
    BY <1>1, <1>3 DEF Retained, Jobs
  <2>2. Good(TakenBy(j, c), phase[r], catalogs, tampered)
    BY <1>1, <2>1, TakenGood
  <2>3. cache' \subseteq cache \cup {c}
    BY <1>3
  <2> HIDE DEF c
  <2>4. cache' \subseteq Retained /\ \A d \in cache' : d[3]
    BY <2>1, <2>3
  <2>5. phase' = phase /\ UNCHANGED diskVars
    BY <1>1
  <2>6. job' = [job EXCEPT ![r] = TakenBy(j, c)]
    BY <1>3, TakeAssigns
  <2> QED BY <2>2, <2>4, <2>5, <2>6, CallStep
<1> QED
  BY <1>2, <1>3 DEF Verify

\* The call answers.
LEMMA AnswerStep == ASSUME IInv, NEW r \in Readers, Answer(r) PROVE IInv'
<1>a. Facts(r)
  BY CallGood
<1> USE <1>a DEF Facts
<1> DEFINE j == job[r]
           x == [NoJob EXCEPT !.tool = j.tool, !.got = j.got, !.code = "OK"]
<1>1. /\ j.at = "select" /\ j \in Jobs /\ phase[r] = "out" /\ j.tool \in {"query", "status"}
      /\ UNCHANGED <<phase, diskVars, cache>>
  BY DEF Answer, Good, PlaceOK
<1>2. ASSUME Done(r, "OK", "none") PROVE IInv'
  <2>1. x \in Jobs
    <3>1. j.got \in SUBSET Retained
      BY <1>1 DEF Jobs
    <3> QED BY <1>1, <3>1, NoJobType, Zenon DEF Jobs
  <2>2. /\ x.at = "done" /\ x.tool = j.tool /\ x.since = 1 /\ x.code = "OK"
        /\ x.todo = {} /\ x.lost = {} /\ x.got = j.got /\ x.bad = FALSE
    BY DEF NoJob
  <2>3. job' = [job EXCEPT ![r] = x]
    BY <1>2 DEF Done
  <2> HIDE DEF x
  <2>4. PlaceOK(x, "out", Len(catalogs), tampered)
    BY <1>1, <2>2 DEF Good, PlaceOK, Pinned, Reading, Current
  <2>5. VectorOK(x, catalogs) /\ CauseOK(x, Len(catalogs), tampered)
    BY <2>2 DEF VectorOK, CauseOK
  <2> QED BY <1>1, <2>1, <2>3, <2>4, <2>5, QuietStep DEF Good
<1>3. ASSUME Done(r, "SNAPSHOT_EXPIRED", "pin") PROVE IInv'
  <2>1. Good(Raised(j, "SNAPSHOT_EXPIRED", "pin"), phase[r], catalogs, tampered)
    BY <1>1, RaisedGood
  <2>2. job' = [job EXCEPT ![r] = Raised(j, "SNAPSHOT_EXPIRED", "pin")]
    BY <1>3 DEF Done, Raised
  <2> QED BY <1>1, <2>1, <2>2, QuietStep
<1> QED
  BY <1>2, <1>3 DEF Answer

\* A call that has just begun, or is nobody's, is good.
LEMMA FreshGood ==
    ASSUME NEW x \in Jobs, NEW cats \in Seq(Vectors), NEW t \in Nat,
           1 <= x.since, x.since <= Len(cats), x.lost = {}, x.got = {}, ~x.bad,
           x.code = "none", x.cause = "none",
           \/ x.at = "select" /\ x.tool = "status"
           \/ x.at \in {"pointer", "absent"} /\ x.tool = "recover" /\ x.todo = {}
           \/ x.at = "done" /\ x.tool = "none"
    PROVE  Good(x, "out", cats, t)
<1>1. PlaceOK(x, "out", Len(cats), t)
  BY DEF PlaceOK, Pinned, Reading
<1>2. VectorOK(x, cats) /\ CauseOK(x, Len(cats), t)
  BY DEF VectorOK, CauseOK
<1> QED BY <1>1, <1>2 DEF Good

\* graph_status begins.
LEMMA BeginStatusStep == ASSUME IInv, NEW r \in Readers, BeginStatus(r) PROVE IInv'
<1>a. Facts(r)
  BY CallGood
<1> USE <1>a DEF Facts
<1>1. PICK scope \in (SUBSET Projects) \ {{}} :
        job' = [job EXCEPT ![r] =
                  [NoJob EXCEPT !.at = "select", !.tool = "status", !.scope = scope,
                                !.todo = scope, !.since = Current]]
  BY DEF BeginStatus
<1> DEFINE x == [NoJob EXCEPT !.at = "select", !.tool = "status", !.scope = scope,
                              !.todo = scope, !.since = Current]
<1>2. phase[r] = "out" /\ UNCHANGED <<phase, diskVars, cache>>
  BY DEF BeginStatus, Good, PlaceOK
<1>3. x \in Jobs
  <2>1. scope \in SUBSET Projects /\ Current \in Nat
    OBVIOUS
  <2> QED BY <2>1, NoJobType, Zenon DEF Jobs, Ats
<1>4. /\ x.at = "select" /\ x.tool = "status" /\ x.since = Current /\ x.lost = {}
      /\ x.got = {} /\ x.bad = FALSE /\ x.code = "none" /\ x.cause = "none"
  BY DEF NoJob
<1>5. job' = [job EXCEPT ![r] = x]
  BY <1>1
<1> HIDE DEF x
<1>6. Good(x, phase[r], catalogs, tampered)
  BY <1>2, <1>3, <1>4, FreshGood DEF Current
<1> QED BY <1>2, <1>5, <1>6, QuietStep

\* What recovery.py does to the record of a call: an attempt starts, the directory of a
\* generation is found absent, the call is over.
StartLoad(r) ==
    /\ job[r].at = "done" \/ (job[r].at = "select" /\ job[r].tool = "recover")
    /\ Attempt(r)
    /\ UNCHANGED <<phase, diskVars, cache>>

LookAbsent(r) ==
    /\ job[r].at = "done"
    /\ job' = [job EXCEPT ![r] = [NoJob EXCEPT !.at = "absent", !.tool = "recover"]]
    /\ UNCHANGED <<phase, diskVars, cache>>

Drop(r) ==
    /\ job[r].tool = "recover"
    /\ Idle(r)
    /\ UNCHANGED <<phase, diskVars, cache>>

\* An attempt of the loader starts.
LEMMA StartLoadStep == ASSUME IInv, NEW r \in Readers, StartLoad(r) PROVE IInv'
<1>a. Facts(r)
  BY CallGood
<1> USE <1>a DEF Facts
<1> DEFINE x == [NoJob EXCEPT !.at = "pointer", !.tool = "recover", !.since = Current]
<1>1. phase[r] = "out" /\ UNCHANGED <<phase, diskVars, cache>>
  BY DEF StartLoad, Good, PlaceOK
<1>2. x \in Jobs
  <2>1. Current \in Nat
    OBVIOUS
  <2> QED BY <2>1, NoJobType, Zenon DEF Jobs, Ats
<1>3. /\ x.at = "pointer" /\ x.tool = "recover" /\ x.since = Current /\ x.lost = {}
      /\ x.got = {} /\ x.bad = FALSE /\ x.code = "none" /\ x.cause = "none" /\ x.todo = {}
  BY DEF NoJob
<1>4. job' = [job EXCEPT ![r] = x]
  BY DEF StartLoad, Attempt
<1> HIDE DEF x
<1>5. Good(x, phase[r], catalogs, tampered)
  BY <1>1, <1>2, <1>3, FreshGood DEF Current
<1> QED BY <1>1, <1>4, <1>5, QuietStep

\* The directory of a generation is found absent.
LEMMA LookAbsentStep == ASSUME IInv, NEW r \in Readers, LookAbsent(r) PROVE IInv'
<1>a. Facts(r)
  BY CallGood
<1> USE <1>a DEF Facts
<1> DEFINE x == [NoJob EXCEPT !.at = "absent", !.tool = "recover"]
<1>1. phase[r] = "out" /\ UNCHANGED <<phase, diskVars, cache>>
  BY DEF LookAbsent, Good, PlaceOK
<1>2. x \in Jobs
  BY NoJobType, Zenon DEF Jobs, Ats
<1>3. /\ x.at = "absent" /\ x.tool = "recover" /\ x.since = 1 /\ x.lost = {}
      /\ x.got = {} /\ x.bad = FALSE /\ x.code = "none" /\ x.cause = "none" /\ x.todo = {}
  BY DEF NoJob
<1>4. job' = [job EXCEPT ![r] = x]
  BY DEF LookAbsent
<1> HIDE DEF x
<1>5. Good(x, phase[r], catalogs, tampered)
  BY <1>1, <1>2, <1>3, FreshGood DEF Current
<1> QED BY <1>1, <1>4, <1>5, QuietStep

\* A call that is nobody's is good.
LEMMA NoJobGood ==
    ASSUME NEW cats \in Seq(Vectors), Len(cats) # 0, NEW t \in Nat
    PROVE  Good(NoJob, "out", cats, t)
<1>1. /\ NoJob.at = "done" /\ NoJob.tool = "none" /\ NoJob.since = 1 /\ NoJob.lost = {}
      /\ NoJob.got = {} /\ NoJob.bad = FALSE /\ NoJob.code = "none" /\ NoJob.cause = "none"
  BY DEF NoJob
<1> QED BY <1>1, NoJobType, FreshGood

\* A call of recovery.py is over.
LEMMA DropStep == ASSUME IInv, NEW r \in Readers, Drop(r) PROVE IInv'
<1>a. Facts(r)
  BY CallGood
<1> USE <1>a DEF Facts
<1>1. phase[r] = "out" /\ UNCHANGED <<phase, diskVars, cache>>
  BY DEF Drop, Good, PlaceOK
<1>2. Good(NoJob, phase[r], catalogs, tampered)
  BY <1>1, NoJobGood DEF Current
<1> QED BY <1>1, <1>2, QuietStep DEF Drop, Idle

----------------------------------------------------------------------------
(* The steps of the others. *)

\* A writer moves at the guard and leaves the readers where they are.
LEMMA WriterPhase ==
    ASSUME IInv, NEW w \in Writers, NEW ph \in Phases, phase' = [phase EXCEPT ![w] = ph]
    PROVE  phase' \in [Members -> Phases] /\ \A r \in Readers : phase'[r] = phase[r]
  BY SnapshotAssumption DEF IInv, TypeOK, Members

\* A writer's move at the guard, files left alone, keeps the invariant.
LEMMA WriterMoves ==
    ASSUME IInv, NEW w \in Writers, NEW ph \in Phases, phase' = [phase EXCEPT ![w] = ph],
           UNCHANGED <<diskVars, cache, job>>
    PROVE  IInv'
<1>1. phase' \in [Members -> Phases] /\ \A r \in Readers : phase'[r] = phase[r]
  BY WriterPhase
<1>2. TypeOK'
  BY <1>1 DEF IInv, TypeOK, diskVars, Current
<1>3. FilesInv'
  BY DEF IInv, FilesInv, diskVars, CatalogFile, GenerationFiles, Current
<1> QED BY <1>1, <1>2, <1>3, OutsideStep DEF IInv, TypeOK, diskVars, Current

\* A generation is published: it is on disk before the pointer names it.
LEMMA PublishProjectStep == ASSUME IInv, NEW w \in Writers, PublishProject(w) PROVE IInv'
<1>1. PICK p \in Projects :
         /\ pointer[p] < MaxGen
         /\ pointer' = [pointer EXCEPT ![p] = @ + 1]
         /\ disk' = disk \cup GenerationFiles(p, pointer[p] + 1)
  BY DEF PublishProject
<1>2. /\ phase' = [phase EXCEPT ![w] = "out"] /\ catalogs' = catalogs /\ damaged' = damaged
      /\ tampered' = tampered /\ cache' = cache /\ job' = job
  BY DEF PublishProject, Leave
<1>3. phase' \in [Members -> Phases] /\ \A r \in Readers : phase'[r] = phase[r]
  BY <1>2, WriterPhase DEF Phases
<1>4. /\ pointer' \in Vectors
      /\ \A q \in Projects : pointer'[q] = IF q = p THEN pointer[q] + 1 ELSE pointer[q]
  BY <1>1, SnapshotAssumption DEF IInv, TypeOK, Vectors, Gens
<1>5. TypeOK'
  BY <1>2, <1>3, <1>4 DEF IInv, TypeOK, Current
<1>6. FilesInv'
  <2>1. ASSUME NEW k \in 1..Current, NEW q \in Projects PROVE catalogs[k][q] <= pointer'[q]
    <3>1. catalogs[k][q] \in Nat /\ pointer[q] \in Nat /\ catalogs[k][q] <= pointer[q]
      BY DEF IInv, TypeOK, FilesInv, Vectors, Gens, Current
    <3> QED BY <1>4, <3>1
  <2>2. ASSUME tampered = 0, NEW q \in Projects
        PROVE  GenerationFiles(q, pointer'[q]) \cup GenerationFiles(q, catalogs[Current][q])
                  \subseteq disk'
    BY <1>1, <1>4, <2>2 DEF IInv, FilesInv
  <2> QED
    BY <1>1, <1>2, <2>1, <2>2 DEF IInv, FilesInv, Current, CatalogFile
<1> QED
  BY <1>2, <1>3, <1>5, <1>6, OutsideStep DEF IInv, TypeOK, Current

\* A catalog is published: what it names is current, so it is on disk.
LEMMA PublishCatalogStep == ASSUME IInv, NEW w \in Writers, PublishCatalog(w) PROVE IInv'
<1>1. /\ phase' = [phase EXCEPT ![w] = "out"] /\ catalogs' = Append(catalogs, pointer)
      /\ disk' = disk \cup {CatalogFile(Current + 1)} /\ pointer' = pointer
      /\ damaged' = damaged /\ tampered' = tampered /\ cache' = cache /\ job' = job
  BY DEF PublishCatalog, Leave
<1>2. phase' \in [Members -> Phases] /\ \A r \in Readers : phase'[r] = phase[r]
  BY <1>1, WriterPhase DEF Phases
<1>3. /\ catalogs' \in Seq(Vectors) /\ Current \in Nat /\ Current' = Current + 1
      /\ catalogs'[Current + 1] = pointer
      /\ \A k \in 1..Current : catalogs'[k] = catalogs[k]
  BY <1>1 DEF IInv, TypeOK, Current
<1>4. TypeOK'
  BY <1>1, <1>2, <1>3 DEF IInv, TypeOK
<1>5. FilesInv'
  <2>1. ASSUME NEW k \in 1..Current', NEW p \in Projects PROVE catalogs'[k][p] <= pointer'[p]
    <3>1. k \in 1..Current \/ k = Current + 1
      BY <1>3
    <3>2. pointer[p] \in Nat
      BY DEF IInv, TypeOK, Vectors, Gens
    <3>3. CASE k \in 1..Current
      BY <1>1, <1>3, <3>3 DEF IInv, FilesInv
    <3>4. CASE k = Current + 1
      <4>1. catalogs'[k] = pointer /\ pointer' = pointer
        BY <1>1, <1>3, <3>4, Zenon
      <4> QED BY <3>2, <4>1
    <3> QED BY <3>1, <3>3, <3>4
  <2>2. ASSUME tampered' = 0
        PROVE  /\ damaged' = {} /\ CatalogFile(Current') \in disk'
               /\ \A p \in Projects :
                    GenerationFiles(p, pointer'[p]) \cup
                       GenerationFiles(p, catalogs'[Current'][p]) \subseteq disk'
    BY <1>1, <1>3, <2>2 DEF IInv, FilesInv
  <2> QED BY <2>1, <2>2 DEF FilesInv, CatalogFile, GenerationFiles
<1>6. tampered <= tampered' /\ Current <= Current' /\ UNCHANGED <<cache, job>>
  BY <1>1, <1>3 DEF IInv, TypeOK
<1> QED
  BY <1>2, <1>3, <1>4, <1>5, <1>6, OutsideStep

\* Files removed that the collector may remove, or anything at all by somebody else.
LEMMA CollectStep == ASSUME IInv, NEW w \in Writers, Collect(w) PROVE IInv'
<1>1. PICK file \in disk :
         Collectible(file) /\ disk' = disk \ {file} /\ damaged' = damaged \ {file}
  BY DEF Collect
<1>2. UNCHANGED <<phase, pointer, catalogs, tampered, cache, job>>
  BY DEF Collect
<1>3. TypeOK'
  BY <1>2 DEF IInv, TypeOK, Current
<1>4. FilesInv'
  <2> SUFFICES ASSUME tampered = 0
               PROVE  /\ damaged' = {} /\ CatalogFile(Current) \in disk'
                      /\ \A p \in Projects :
                           GenerationFiles(p, pointer[p]) \cup
                              GenerationFiles(p, catalogs[Current][p]) \subseteq disk'
    BY <1>2 DEF IInv, FilesInv, Current, CatalogFile, GenerationFiles
  <2>1. damaged' = {}
    BY <1>1 DEF IInv, FilesInv
  <2>2. CatalogFile(Current) \in disk'
    <3>1. file # CatalogFile(Current)
      BY <1>1 DEF Collectible, CatalogFile, CatalogLane
    <3> QED BY <1>1, <3>1 DEF IInv, FilesInv
  <2>3. ASSUME NEW p \in Projects, NEW g \in {pointer[p], catalogs[Current][p]}, NEW f \in Names
        PROVE  <<p, g, f>> \in disk'
    <3>1. <<p, g, f>> \in disk
      BY DEF IInv, FilesInv, GenerationFiles
    <3>2. file # <<p, g, f>>
      BY <1>1, SnapshotAssumption DEF Collectible, CatalogLane
    <3> QED BY <1>1, <3>1, <3>2
  <2> QED BY <2>1, <2>2, <2>3 DEF GenerationFiles
<1> QED
  BY <1>2, <1>3, <1>4, OutsideStep DEF IInv, TypeOK, Current

\* Files are touched: nothing is claimed of them any more.
LEMMA TamperStep == ASSUME IInv, Tamper PROVE IInv'
<1>1. tampered' = tampered + 1 /\ UNCHANGED <<phase, pointer, catalogs, cache, job>>
  BY DEF Tamper
<1>2. TypeOK'
  BY <1>1 DEF IInv, TypeOK, Current
<1>3. tampered \in Nat
  BY DEF IInv, TypeOK
<1>4. FilesInv'
  BY <1>1, <1>3 DEF IInv, FilesInv, Current
<1> QED
  BY <1>1, <1>2, <1>3, <1>4, OutsideStep DEF IInv, TypeOK, Current

\* A retained generation is evicted.
LEMMA EvictStep == ASSUME IInv, NEW c \in cache, Evict(c) PROVE IInv'
<1>1. cache' \subseteq cache /\ UNCHANGED <<phase, diskVars, job>>
  BY DEF Evict
<1>2. TypeOK'
  BY <1>1 DEF IInv, TypeOK, diskVars, Current
<1>3. FilesInv'
  BY <1>1 DEF IInv, FilesInv, diskVars, CatalogFile, GenerationFiles, Current
<1> QED
  BY <1>1, <1>2, <1>3 DEF IInv, CacheInv, diskVars

\* A step of the daemon.
LEMMA DaemonStep == ASSUME IInv, NEW w \in Writers, Daemon(w) PROVE IInv'
<1>1. ASSUME WriterWaits(w) \/ WriterLeaves(w) PROVE IInv'
  <2>1. \E ph \in Phases : phase' = [phase EXCEPT ![w] = ph]
    BY <1>1 DEF WriterWaits, WriterLeaves, Request, Admit, Refuse, Leave, Phases
  <2>2. UNCHANGED <<diskVars, cache, job>>
    BY <1>1 DEF WriterWaits, WriterLeaves
  <2> QED BY <2>1, <2>2, WriterMoves
<1> QED
  BY <1>1, PublishProjectStep, PublishCatalogStep, CollectStep DEF Daemon

----------------------------------------------------------------------------
(* The invariant of the read path. *)

\* A step of one call.
ReaderStep(r) ==
    \/ BeginQuery(r) \/ BeginStatus(r) \/ Proceed(r) \/ ProceedStatus(r)
    \/ StartLoad(r) \/ LookAbsent(r) \/ Drop(r)

\* A step of anybody, seen from the read path.
AnyStep ==
    \/ \E r \in Readers : ReaderStep(r)
    \/ \E w \in Writers : Daemon(w)
    \/ \E c \in cache : Evict(c)
    \/ Tamper

\* Nothing has been called, and the first vector is on disk.
LEMMA InitIInv == Init => IInv
<1> SUFFICES ASSUME Init PROVE IInv
  OBVIOUS
<1>1. 1 \in Gens /\ Projects \subseteq Nat
  BY SnapshotAssumption DEF Gens
<1>2. catalogs \in Seq(Vectors) /\ Current = 1 /\ Len(catalogs) = 1
      /\ catalogs[1] = [p \in Projects |-> 1] /\ tampered = 0
  BY <1>1 DEF Init, Vectors, Current
<1>3. TypeOK
  BY <1>1, <1>2, NoJobType DEF Init, PhaseInit, TypeOK, Phases, Vectors
<1>4. FilesInv
  <2>1. pointer = [p \in Projects |-> 1]
    BY DEF Init
  <2>2. \A k \in 1..Current, p \in Projects : catalogs[k][p] <= pointer[p]
    BY <1>2, <2>1
  <2>3. damaged = {} /\ CatalogFile(Current) \in disk
    BY <1>2 DEF Init
  <2>4. \A p \in Projects : GenerationFiles(p, 1) \subseteq disk
    BY DEF Init
  <2> QED BY <1>2, <2>1, <2>2, <2>3, <2>4 DEF FilesInv
<1>5. CacheInv
  BY DEF Init, CacheInv
<1>6. \A r \in Readers : Good(job[r], phase[r], catalogs, tampered)
  <2> TAKE r \in Readers
  <2>1. job[r] = NoJob /\ phase[r] = "out"
    BY DEF Init, PhaseInit, Members
  <2> QED BY <1>2, <2>1, NoJobGood
<1> QED BY <1>3, <1>4, <1>5, <1>6 DEF IInv

\* A step of anybody.
LEMMA IInvStep == ASSUME IInv, [AnyStep]_vars PROVE IInv'
<1>1. CASE UNCHANGED vars
  <2>1. TypeOK'
    BY <1>1 DEF IInv, TypeOK, vars, Current
  <2>2. FilesInv'
    BY <1>1 DEF IInv, FilesInv, vars, CatalogFile, GenerationFiles, Current
  <2> QED BY <1>1, <2>1, <2>2 DEF IInv, CacheInv, vars
<1>2. ASSUME NEW r \in Readers, Proceed(r) PROVE IInv'
  BY <1>2, ReadCatalogPointerStep, ReadCatalogStep, OpenMemberStep, SelectStep, GuardedStep,
     GuardFailsStep, ValidateManifestStep, EnterCopyStep, CopyFileStep, VerifyStep, AnswerStep
  DEF Proceed
<1>3. ASSUME NEW r \in Readers, ReaderStep(r) PROVE IInv'
  BY <1>2, <1>3, BeginQueryStep, BeginStatusStep, ReadCurrentStep, EnterPinnedStep,
     StartLoadStep, LookAbsentStep, DropStep
  DEF ReaderStep, ProceedStatus
<1> QED
  BY <1>1, <1>3, DaemonStep, EvictStep, TamperStep DEF AnyStep

\* The invariant holds of graph_query beside the daemon.
THEOREM Invariance == Spec => []IInv
<1>1. IInv /\ [Next]_vars => IInv'
  <2>1. [Next]_vars => [AnyStep]_vars
    BY DEF Next, AnyStep, ReaderStep
  <2> QED BY <2>1, IInvStep
<1> QED BY <1>1, InitIInv, PTL DEF Spec

\* A query over a catalog that does not move, with untouched files and an admitting guard, is
\* answered, whatever the daemon publishes and collects meanwhile (tools/query.py _load_scope).
THEOREM StableAnswers == Spec => []StableCatalogAnswers
<1>1. IInv => StableCatalogAnswers
  BY DEF IInv, TypeOK, Good, CauseOK, Jobs, StableCatalogAnswers, Current
<1> QED BY <1>1, Invariance, PTL

----------------------------------------------------------------------------
(* graph_query implements the atomic query. *)

\* CallOf, of the record of a call.
CallVal(j) ==
    CASE j.tool # "query" -> [state |-> "idle"]
      [] j.tool = "query" /\ j.at # "done" ->
             [state |-> "pending", scope |-> j.scope, pin |-> j.pin, since |-> j.since]
      [] j.tool = "query" /\ j.at = "done" /\ j.code = "OK" ->
             [state |-> "answered", vector |-> Loaded(j)]
      [] OTHER -> [state |-> "refused"]

callBar == [r \in Readers |-> CallOf(r)]

\* The atomic query of a call, case by case.
LEMMA CallCases ==
    ASSUME NEW j
    PROVE  /\ j.tool # "query" => CallVal(j) = [state |-> "idle"]
           /\ j.tool = "query" /\ j.at # "done" =>
                CallVal(j) = [state |-> "pending", scope |-> j.scope, pin |-> j.pin,
                              since |-> j.since]
           /\ j.tool = "query" /\ j.at = "done" /\ j.code = "OK" =>
                CallVal(j) = [state |-> "answered", vector |-> Loaded(j)]
           /\ j.tool = "query" /\ j.at = "done" /\ j.code # "OK" =>
                CallVal(j) = [state |-> "refused"]
  BY DEF CallVal

\* The atomic queries of all calls, before and after a step.
LEMMA CallBarValues ==
    /\ callBar = [r \in Readers |-> CallVal(job[r])]
    /\ callBar' = [r \in Readers |-> CallVal(job'[r])]
  BY DEF callBar, CallOf, CallVal, Loaded

\* What a step of a call that has begun does to it.
Shape(j, x) ==
    /\ j.at \notin {"done", "absent"} /\ x.at # "absent" /\ x.tool = j.tool
    /\ \/ x.at # "done" /\ x.scope = j.scope /\ x.pin = j.pin /\ x.since = j.since
       \/ x.at = "done" /\ x.code \notin {"none", "OK"} /\ x.since = j.since
       \/ /\ j.at = "select" /\ j.todo = {} /\ j.pin \in {NoPin, Loaded(j)}
          /\ x.at = "done" /\ x.code = "OK" /\ x.got = j.got

\* A call that raises has the shape of a call that is refused.
LEMMA RaisedShape ==
    ASSUME NEW j, NEW code \in {"INTERNAL_ERROR", "SNAPSHOT_UNAVAILABLE", "SNAPSHOT_EXPIRED"},
           NEW cause, j.at \notin {"done", "absent"}
    PROVE  Shape(j, Raised(j, code, cause))
  BY DEF Shape, Raised, NoJob

\* A call that raises.
LEMMA FailShape ==
    ASSUME NEW r \in Readers, NEW cause, Fail(r, cause), job \in [Readers -> Jobs],
           job[r].at \notin {"done", "absent"}
    PROVE  /\ \A q \in Readers \ {r} : job'[q] = job[q]
           /\ Shape(job[r], job'[r])
<1>1. job' = [job EXCEPT ![r] = Raised(job[r], "INTERNAL_ERROR", cause)]
  BY FailAssigns
<1> QED BY <1>1, RaisedShape

\* What a step of a call that has begun does: it goes on with its scope, pin and beginning,
\* it is refused, or it answers with everything it was asked for.
LEMMA ProceedShape ==
    ASSUME IInv, NEW r \in Readers, Proceed(r), job' # job
    PROVE  /\ catalogs' = catalogs /\ \A q \in Readers \ {r} : job'[q] = job[q]
           /\ Shape(job[r], job'[r])
<1>a. job \in [Readers -> Jobs] /\ Facts(r)
  BY CallGood DEF Facts
<1> DEFINE Goal == /\ catalogs' = catalogs /\ \A q \in Readers \ {r} : job'[q] = job[q]
                   /\ Shape(job[r], job'[r])
<1>1. CASE ReadCatalogPointer(r)
  BY <1>a, <1>1 DEF ReadCatalogPointer, diskVars, Shape, Jobs
<1>2. CASE ReadCatalog(r)
  <2>1. job[r].at \notin {"done", "absent"} /\ catalogs' = catalogs
    BY <1>2 DEF ReadCatalog, diskVars
  <2>2. CASE job' = [job EXCEPT ![r].at = "open", ![r].unopened = Projects]
    BY <1>a, <2>1, <2>2 DEF Shape, Jobs
  <2> QED BY <1>a, <1>2, <2>1, <2>2, FailShape DEF ReadCatalog
<1>3. CASE OpenMember(r)
  <2> DEFINE p == Min(job[r].unopened)
             rest == job[r].unopened \ {p}
             next == IF rest = {} THEN "select" ELSE "open"
             lost == job[r].lost \cup {p}
  <2>1. next \in {"select", "open"}
    OBVIOUS
  <2>2. job[r].at \notin {"done", "absent"} /\ catalogs' = catalogs
    BY <1>3 DEF OpenMember, diskVars
  <2>3. \/ job' = [job EXCEPT ![r].at = next, ![r].unopened = rest]
        \/ job' = [job EXCEPT ![r].at = next, ![r].unopened = rest, ![r].lost = lost]
        \/ Fail(r, "damaged")
    BY <1>3 DEF OpenMember
  <2> HIDE DEF next, rest, lost
  <2>4. CASE job' = [job EXCEPT ![r].at = next, ![r].unopened = rest]
    BY <1>a, <2>1, <2>2, <2>4 DEF Shape, Jobs
  <2>5. CASE job' = [job EXCEPT ![r].at = next, ![r].unopened = rest, ![r].lost = lost]
    BY <1>a, <2>1, <2>2, <2>5 DEF Shape, Jobs
  <2> QED BY <1>a, <2>2, <2>3, <2>4, <2>5, FailShape
<1>4. CASE Select(r)
  <2>1. job[r].at \notin {"done", "absent"} /\ catalogs' = catalogs
    BY <1>4 DEF Select, diskVars
  <2>2. ASSUME NEW p, NEW g,
               \/ job' = [job EXCEPT ![r].at = "validate", ![r].project = p, ![r].gen = g]
               \/ job' = [job EXCEPT ![r].at = "current", ![r].project = p]
        PROVE  Goal
    BY <1>a, <2>1, <2>2 DEF Shape, Jobs
  <2>3. CASE Done(r, "SNAPSHOT_UNAVAILABLE", "missing")
    <3>1. job' = [job EXCEPT ![r] = Raised(job[r], "SNAPSHOT_UNAVAILABLE", "missing")]
      BY <2>3 DEF Done, Raised
    <3> QED BY <1>a, <2>1, <3>1, RaisedShape
  <2>4. PICK p \in job[r].todo :
          \/ Done(r, "SNAPSHOT_UNAVAILABLE", "missing")
          \/ job' = [job EXCEPT ![r].at = "validate", ![r].project = p,
                                ![r].gen = catalogs[job[r].cat][p]]
          \/ job' = [job EXCEPT ![r].at = "current", ![r].project = p]
    BY <1>4 DEF Select
  <2> QED BY <2>2, <2>3, <2>4
<1>5. CASE Guarded(r)
  BY <1>5 DEF Guarded
<1>6. CASE GuardFails(r)
  <2>1. job[r].at \notin {"done", "absent"} /\ catalogs' = catalogs
    BY <1>a, <1>6 DEF GuardFails, Refuse, Facts, Good, PlaceOK, diskVars
  <2> QED BY <1>a, <1>6, <2>1, FailShape DEF GuardFails
<1>7. CASE ValidateManifest(r)
  <2>1. job[r].at \notin {"done", "absent"} /\ catalogs' = catalogs
    BY <1>7 DEF ValidateManifest, diskVars
  <2>2. ASSUME NEW c, Take(r, c) PROVE Goal
    BY <1>a, <2>1, <2>2 DEF Take, Shape, Jobs
  <2>3. CASE job' = [job EXCEPT ![r].at = "miss"]
    BY <1>a, <2>1, <2>3 DEF Shape, Jobs
  <2> QED BY <1>a, <1>7, <2>1, <2>2, <2>3, FailShape DEF ValidateManifest
<1>8. CASE EnterCopy(r)
  BY <1>a, <1>8 DEF EnterCopy, diskVars, Shape, Jobs
<1>9. CASE CopyFile(r)
  <2>1. job[r].at \notin {"done", "absent"} /\ catalogs' = catalogs
    BY <1>9 DEF CopyFile, diskVars
  <2>2. ASSUME NEW next \in {"verify", "copy"}, NEW rest, NEW bad,
               job' = [job EXCEPT ![r].left = rest, ![r].bad = bad, ![r].at = next]
        PROVE  Goal
    BY <1>a, <2>1, <2>2 DEF Shape, Jobs
  <2>3. CASE Fail(r, "missing") \/ Fail(r, "damaged")
    BY <1>a, <2>1, <2>3, FailShape
  <2>4. CASE ~ (Fail(r, "missing") \/ Fail(r, "damaged"))
    <3>1. PICK f \in job[r].left :
            job' = [job EXCEPT ![r].left = job[r].left \ {f},
                               ![r].bad = job[r].bad \/ <<job[r].project, job[r].gen, f>> \in damaged,
                               ![r].at = IF job[r].left \ {f} = {} THEN "verify" ELSE "copy"]
      BY <1>9, <2>4 DEF CopyFile
    <3> DEFINE next == IF job[r].left \ {f} = {} THEN "verify" ELSE "copy"
    <3>2. next \in {"verify", "copy"}
      OBVIOUS
    <3> HIDE DEF next
    <3>3. job' = [job EXCEPT ![r].left = job[r].left \ {f},
                             ![r].bad = job[r].bad \/ <<job[r].project, job[r].gen, f>> \in damaged,
                             ![r].at = next]
      BY <3>1 DEF next
    <3> QED BY <3>2, <3>3, <2>2
  <2> QED BY <2>3, <2>4
<1>10. CASE Verify(r)
  <2>1. job[r].at \notin {"done", "absent"} /\ catalogs' = catalogs
    BY <1>10 DEF Verify, diskVars
  <2>2. ASSUME NEW c, Take(r, c) PROVE Goal
    BY <1>a, <2>1, <2>2 DEF Take, Shape, Jobs
  <2> QED BY <1>a, <1>10, <2>1, <2>2, FailShape DEF Verify
<1>11. CASE Answer(r)
  <2>1. job[r].at = "select" /\ job[r].todo = {} /\ catalogs' = catalogs
    BY <1>11 DEF Answer, diskVars
  <2>2. ASSUME Done(r, "OK", "none"), job[r].pin \in {NoPin, Loaded(job[r])} PROVE Goal
    BY <1>a, <2>1, <2>2 DEF Done, Shape, NoJob
  <2>3. CASE Done(r, "SNAPSHOT_EXPIRED", "pin")
    <3>1. job' = [job EXCEPT ![r] = Raised(job[r], "SNAPSHOT_EXPIRED", "pin")]
      BY <2>3 DEF Done, Raised
    <3> QED BY <1>a, <2>1, <3>1, RaisedShape
  <2> QED BY <1>11, <2>2, <2>3 DEF Answer
<1> QED
  BY <1>1, <1>2, <1>3, <1>4, <1>5, <1>6, <1>7, <1>8, <1>9, <1>10, <1>11 DEF Proceed

\* A step of the atomic query or of nobody.
AtomicStep == [Atomic!AtomicNext]_<<catalogs, callBar>>

\* What a call that loaded every project it was asked for has in hand.
LEMMA LoadedIsPinned ==
    ASSUME NEW j, NEW cats, j.got \in SUBSET Retained, VectorOK(j, cats), j.tool = "query",
           j.at = "select", j.todo = {}
    PROVE  Loaded(j) = Restrict(cats[j.cat], j.scope)
<1>1. {c[1] : c \in j.got} = j.scope /\ \A c \in j.got : c[2] = cats[j.cat][c[1]]
  BY DEF VectorOK
<1>2. \A p \in j.scope : (CHOOSE c \in j.got : c[1] = p)[2] = cats[j.cat][p]
  <2> TAKE p \in j.scope
  <2>1. \E c \in j.got : c[1] = p
    BY <1>1
  <2> DEFINE d == CHOOSE c \in j.got : c[1] = p
  <2>2. d \in j.got /\ d[1] = p
    BY <2>1
  <2> HIDE DEF d
  <2>3. d[2] = cats[j.cat][p]
    BY <1>1, <2>2
  <2> QED BY <2>3 DEF d
<1> QED BY <1>1, <1>2 DEF Loaded, Restrict

\* A step that moves one call moves one atomic query.
LEMMA OneCallMoves ==
    ASSUME NEW r \in Readers, \A q \in Readers \ {r} : job'[q] = job[q]
    PROVE  callBar' = [callBar EXCEPT ![r] = CallVal(job'[r])]
  BY CallBarValues

\* The states of an atomic query.
LEMMA CallStates ==
    ASSUME NEW j
    PROVE  /\ CallVal(j).state = "pending" <=> j.tool = "query" /\ j.at # "done"
           /\ j.tool = "query" /\ j.at = "done" => CallVal(j).state \in {"answered", "refused"}
  BY CallCases

\* A call begins that is not a query, or nobody's: what an earlier query answered is forgotten.
LEMMA ForgetMaps ==
    ASSUME NEW r \in Readers, \A q \in Readers \ {r} : job'[q] = job[q], catalogs' = catalogs,
           job[r].tool = "query" => job[r].at = "done", job'[r].tool # "query"
    PROVE  AtomicStep
<1>1. callBar' = [callBar EXCEPT ![r] = [state |-> "idle"]]
  BY OneCallMoves, CallCases
<1>2. callBar = [q \in Readers |-> CallVal(job[q])]
  BY CallBarValues
<1>3. CASE job[r].tool # "query"
  <2>1. callBar' = callBar
    BY <1>1, <1>2, <1>3, CallCases
  <2> QED BY <2>1 DEF AtomicStep
<1>4. CASE job[r].tool = "query"
  <2>1. callBar[r].state \in {"answered", "refused"}
    BY <1>2, <1>4, CallStates
  <2>2. Atomic!Forget(r)
    BY <1>1, <2>1 DEF Atomic!Forget, Atomic!Idle, callBar
  <2> QED BY <2>2 DEF AtomicStep, Atomic!AtomicNext
<1> QED BY <1>3, <1>4

\* A query begins.
LEMMA BeginMaps == ASSUME IInv, NEW r \in Readers, BeginQuery(r) PROVE AtomicStep
<1>a. Facts(r)
  BY CallGood
<1>1. PICK scope \in (SUBSET Projects) \ {{}} :
        \E pin \in {NoPin} \cup {Restrict(catalogs[k], scope) : k \in 1..Current} :
          job' = [job EXCEPT ![r] =
                    [NoJob EXCEPT !.at = "pointer", !.tool = "query", !.scope = scope,
                                  !.todo = scope, !.pin = pin, !.since = Current]]
  BY DEF BeginQuery
<1>2. PICK pin \in {NoPin} \cup {Restrict(catalogs[k], scope) : k \in 1..Current} :
          job' = [job EXCEPT ![r] =
                    [NoJob EXCEPT !.at = "pointer", !.tool = "query", !.scope = scope,
                                  !.todo = scope, !.pin = pin, !.since = Current]]
  BY <1>1
<1>3. pin \in Atomic!Pins(scope) /\ scope \in Atomic!Scopes
  <2>1. CASE pin = NoPin
    BY <2>1 DEF Atomic!Pins, Atomic!Scopes, Atomic!NoPin, NoPin
  <2>2. ASSUME NEW k \in 1..Current, pin = Restrict(catalogs[k], scope)
        PROVE  pin \in [scope -> Gens]
    <3>1. catalogs[k] \in Vectors
      BY <1>a, <2>2 DEF Facts, Current
    <3> QED BY <2>2, <3>1 DEF Vectors, Restrict
  <2> QED BY <2>1, <2>2 DEF Atomic!Pins, Atomic!Scopes
<1>4. job'[r].tool = "query" /\ job'[r].at = "pointer" /\ job'[r].scope = scope
      /\ job'[r].pin = pin /\ job'[r].since = Len(catalogs)
  BY <1>a, <1>2 DEF Facts, NoJob, Current
<1>5. CallVal(job'[r]) = [state |-> "pending", scope |-> scope, pin |-> pin,
                          since |-> Len(catalogs)]
  BY <1>4, CallCases
<1>6. \A q \in Readers \ {r} : job'[q] = job[q]
  BY <1>a, <1>2 DEF Facts
<1>7. callBar' = [callBar EXCEPT ![r] = [state |-> "pending", scope |-> scope, pin |-> pin,
                                         since |-> Len(catalogs)]]
  BY <1>5, <1>6, OneCallMoves
<1>8. callBar[r].state # "pending"
  <2>1. job[r].at = "done"
    BY DEF BeginQuery
  <2> QED BY <2>1, CallBarValues, CallStates
<1>9. catalogs' = catalogs
  BY DEF BeginQuery, diskVars
<1>10. Atomic!Begin(r)
  BY <1>3, <1>7, <1>8, <1>9 DEF Atomic!Begin, callBar
<1> QED BY <1>10 DEF AtomicStep, Atomic!AtomicNext

\* A call goes on, answers or is refused.
LEMMA ShapeMaps ==
    ASSUME IInv, NEW r \in Readers, \A q \in Readers \ {r} : job'[q] = job[q],
           catalogs' = catalogs, Shape(job[r], job'[r])
    PROVE  AtomicStep
<1>a. Facts(r) /\ VectorOK(job[r], catalogs)
  BY CallGood DEF Facts, Good
<1> DEFINE j == job[r]
           x == job'[r]
<1>1. callBar' = [callBar EXCEPT ![r] = CallVal(x)]
  BY OneCallMoves
<1>2. callBar = [q \in Readers |-> CallVal(job[q])]
  BY CallBarValues
<1>3. j.at # "done" /\ x.tool = j.tool
  BY DEF Shape
<1>4. CASE j.tool # "query"
  <2>1. callBar' = callBar
    BY <1>1, <1>2, <1>3, <1>4, CallCases
  <2> QED BY <2>1 DEF AtomicStep
<1>5. CASE j.tool = "query" /\ x.at # "done"
  <2>1. x.scope = j.scope /\ x.pin = j.pin /\ x.since = j.since
    BY <1>5 DEF Shape
  <2>2. CallVal(x) = CallVal(j)
    BY <1>3, <1>5, <2>1, CallCases
  <2>3. callBar' = callBar
    BY <1>1, <1>2, <2>2
  <2> QED BY <2>3 DEF AtomicStep
<1>6. CASE j.tool = "query" /\ x.at = "done"
  <2>1. callBar[r] = [state |-> "pending", scope |-> j.scope, pin |-> j.pin, since |-> j.since]
    BY <1>2, <1>3, <1>6, CallCases
  <2>2. CASE x.code # "OK"
    <3>1. CallVal(x) = [state |-> "refused"]
      BY <1>3, <1>6, <2>2, CallCases
    <3>2. Atomic!Refuse(r)
      BY <1>1, <2>1, <3>1 DEF Atomic!Refuse, callBar
    <3> QED BY <3>2 DEF AtomicStep, Atomic!AtomicNext
  <2>3. CASE x.code = "OK"
    <3>1. j.at = "select" /\ j.todo = {} /\ j.pin \in {NoPin, Loaded(j)} /\ x.got = j.got
      BY <1>6, <2>3 DEF Shape
    <3>2. j.got \in SUBSET Retained /\ j.cat \in j.since .. Len(catalogs)
      BY <1>a, <1>6, <3>1 DEF Facts, Good, PlaceOK, Pinned, Jobs
    <3>3. Loaded(j) = Restrict(catalogs[j.cat], j.scope)
      BY <1>a, <1>6, <3>1, <3>2, LoadedIsPinned
    <3>4. CallVal(x) = [state |-> "answered", vector |-> Loaded(j)]
      <4>1. x.tool = "query" /\ x.at = "done" /\ x.code = "OK" /\ x.got = j.got
        BY <1>3, <1>6, <2>3, <3>1
      <4> HIDE DEF j, x
      <4>2. Loaded(x) = Loaded(j)
        BY <4>1 DEF Loaded
      <4>3. CallVal(x) = [state |-> "answered", vector |-> Loaded(x)]
        BY <4>1, CallCases
      <4> QED BY <4>2, <4>3
    <3> HIDE DEF j, x
    <3>5. callBar[r].state = "pending" /\ callBar[r].since = j.since /\ callBar[r].pin = j.pin
          /\ callBar[r].scope = j.scope
      BY <2>1
    <3>6. callBar' = [callBar EXCEPT ![r] = [state |-> "answered",
                                             vector |-> Restrict(catalogs[j.cat], callBar[r].scope)]]
      BY <1>1, <3>3, <3>4, <3>5
    <3>7. callBar[r].pin \in {Atomic!NoPin, Restrict(catalogs[j.cat], callBar[r].scope)}
      BY <3>1, <3>3, <3>5 DEF Atomic!NoPin, NoPin
    <3>8. j.cat \in callBar[r].since .. Len(catalogs)
      BY <3>2, <3>5
    <3>9. Atomic!Answer(r)
      BY <3>5, <3>6, <3>7, <3>8 DEF Atomic!Answer, Atomic!Restrict, Restrict, callBar
    <3> QED BY <3>9 DEF AtomicStep, Atomic!AtomicNext
  <2> QED BY <2>2, <2>3
<1> QED BY <1>4, <1>5, <1>6

\* The daemon publishes a vector, or the step is nobody's.
LEMMA DaemonMaps == ASSUME IInv, NEW w \in Writers, Daemon(w) PROVE AtomicStep
<1>1. job' = job
  BY DEF Daemon, WriterWaits, PublishProject, PublishCatalog, Collect, WriterLeaves
<1>2. callBar' = callBar
  BY <1>1, CallBarValues
<1>3. CASE PublishCatalog(w)
  <2>1. pointer \in Atomic!Vectors
    BY DEF IInv, TypeOK, Vectors, Atomic!Vectors
  <2>2. catalogs' = Append(catalogs, pointer)
    BY <1>3 DEF PublishCatalog
  <2>3. Atomic!Publish
    BY <1>2, <2>1, <2>2 DEF Atomic!Publish, callBar
  <2> QED BY <2>3 DEF AtomicStep, Atomic!AtomicNext
<1>4. CASE ~PublishCatalog(w)
  <2>1. catalogs' = catalogs
    BY <1>4 DEF Daemon, WriterWaits, PublishProject, Collect, WriterLeaves, diskVars
  <2> QED BY <1>2, <2>1 DEF AtomicStep
<1> QED BY <1>3, <1>4

\* A step of one call maps to a step of one atomic query.
LEMMA ReaderMaps == ASSUME IInv, NEW r \in Readers, ReaderStep(r) PROVE AtomicStep
<1>a. Facts(r)
  BY CallGood
<1>1. CASE BeginQuery(r)
  BY <1>1, BeginMaps
<1>2. CASE Proceed(r)
  <2>1. catalogs' = catalogs
    BY <1>2 DEF Proceed, ReadCatalogPointer, ReadCatalog, OpenMember, Select, Guarded, GuardFails,
       ValidateManifest, EnterCopy, CopyFile, Verify, Answer, diskVars
  <2>2. CASE job' = job
    <3>1. callBar' = callBar
      BY <2>2, CallBarValues
    <3> QED BY <2>1, <3>1 DEF AtomicStep
  <2>3. CASE job' # job
    BY <1>2, <2>3, ProceedShape, ShapeMaps
  <2> QED BY <2>2, <2>3
<1>3. CASE BeginStatus(r)
  <2>1. job[r].at = "done" /\ catalogs' = catalogs
    BY <1>3 DEF BeginStatus, diskVars
  <2>2. PICK scope \in (SUBSET Projects) \ {{}} :
          job' = [job EXCEPT ![r] =
                    [NoJob EXCEPT !.at = "select", !.tool = "status", !.scope = scope,
                                  !.todo = scope, !.since = Current]]
    BY <1>3 DEF BeginStatus
  <2>3. job'[r].tool = "status" /\ \A q \in Readers \ {r} : job'[q] = job[q]
    BY <1>a, <2>2 DEF Facts, NoJob
  <2> QED BY <2>1, <2>3, ForgetMaps
<1>4. CASE ProceedStatus(r)
  <2>1. job[r].tool = "status" /\ catalogs' = catalogs
    BY <1>a, <1>4
    DEF ProceedStatus, ReadCurrent, EnterPinned, Facts, Good, PlaceOK, diskVars
  <2>2. job'[r].tool = "status" /\ \A q \in Readers \ {r} : job'[q] = job[q]
    BY <1>a, <1>4, <2>1 DEF Facts, ProceedStatus, ReadCurrent, EnterPinned, Jobs
  <2> QED BY <2>1, <2>2, ForgetMaps
<1>5. CASE StartLoad(r)
  <2>1. /\ job[r].tool = "query" => job[r].at = "done"
        /\ catalogs' = catalogs
    BY <1>5 DEF StartLoad, diskVars
  <2>2. job'[r].tool = "recover" /\ \A q \in Readers \ {r} : job'[q] = job[q]
    BY <1>a, <1>5 DEF Facts, StartLoad, Attempt, NoJob
  <2> QED BY <2>1, <2>2, ForgetMaps
<1>6. CASE LookAbsent(r)
  <2>1. job[r].at = "done" /\ catalogs' = catalogs
    BY <1>6 DEF LookAbsent, diskVars
  <2>2. job'[r].tool = "recover" /\ \A q \in Readers \ {r} : job'[q] = job[q]
    BY <1>a, <1>6 DEF Facts, LookAbsent, NoJob
  <2> QED BY <2>1, <2>2, ForgetMaps
<1>7. CASE Drop(r)
  <2>1. job[r].tool = "recover" /\ catalogs' = catalogs
    BY <1>7 DEF Drop, diskVars
  <2>2. job'[r].tool = "none" /\ \A q \in Readers \ {r} : job'[q] = job[q]
    BY <1>a, <1>7 DEF Facts, Drop, Idle, NoJob
  <2> QED BY <2>1, <2>2, ForgetMaps
<1> QED
  BY <1>1, <1>2, <1>3, <1>4, <1>5, <1>6, <1>7 DEF ReaderStep

\* Every step of the read path, graph_status, the damage and the recovery included, is a step
\* of the atomic query or of nobody.
LEMMA AnyMaps == ASSUME IInv, [AnyStep]_vars PROVE AtomicStep
<1>1. CASE UNCHANGED <<catalogs, job>>
  <2>1. callBar' = callBar
    BY <1>1, CallBarValues
  <2> QED BY <1>1, <2>1 DEF AtomicStep
<1>2. CASE AnyStep
  <2>1. CASE Tamper \/ \E c \in cache : Evict(c)
    <3>1. UNCHANGED <<catalogs, job>>
      BY <2>1 DEF Tamper, Evict, diskVars
    <3> QED BY <1>1, <3>1
  <2> QED BY <1>2, <2>1, ReaderMaps, DaemonMaps DEF AnyStep
<1> QED BY <1>1, <1>2 DEF vars

\* Nobody has called yet and one vector is published.
LEMMA InitMaps == Init => Atomic!AtomicInit
<1> SUFFICES ASSUME Init PROVE Atomic!AtomicInit
  OBVIOUS
<1>1. [p \in Projects |-> 1] \in Atomic!Vectors
  BY SnapshotAssumption DEF Atomic!Vectors, Gens
<1>2. \A r \in Readers : CallVal(job[r]) = [state |-> "idle"]
  BY CallCases DEF Init, NoJob
<1>3. callBar = [r \in Readers |-> Atomic!Idle]
  BY <1>2, CallBarValues DEF Atomic!Idle
<1> QED BY <1>1, <1>3 DEF Init, Atomic!AtomicInit, callBar

\* graph_query implements the atomic query: whatever the daemon publishes and collects between
\* its unguarded reads and its guarded ones, an answer is the requested part of one catalog
\* vector that was the published one at some moment of the call (tools/query.py _load_scope).
THEOREM QueriesAreAtomic == Spec => QueryIsAtomic
<1>1. IInv /\ [Next]_vars => [Atomic!AtomicNext]_<<catalogs, callBar>>
  <2>1. [Next]_vars => [AnyStep]_vars
    BY DEF Next, AnyStep, ReaderStep
  <2> QED BY <2>1, AnyMaps DEF AtomicStep
<1>2. Spec => Atomic!AtomicInit /\ [][Atomic!AtomicNext]_<<catalogs, callBar>>
  BY <1>1, InitMaps, Invariance, PTL DEF Spec
<1> QED BY <1>2, PTL DEF QueryIsAtomic, Atomic!AtomicSpec, callBar

----------------------------------------------------------------------------
(* recovery.py. *)

\* Published catalogs, pointers and damage only grow.
Grows ==
    /\ tampered <= tampered' /\ Current <= Current'
    /\ \A p \in Projects : pointer[p] <= pointer'[p]

\* No step takes back a catalog, a pointer or a damage.
LEMMA StepGrows == ASSUME IInv, [AnyStep]_vars PROVE Grows
<1>a. /\ tampered \in Nat /\ Current \in Nat /\ pointer \in [Projects -> Gens]
      /\ \A p \in Projects : pointer[p] \in Nat
  BY DEF IInv, TypeOK, Vectors, Gens
<1>1. ASSUME UNCHANGED <<tampered, catalogs, pointer>> PROVE Grows
  BY <1>a, <1>1 DEF Grows, Current
<1>2. ASSUME NEW r \in Readers, ReaderStep(r) PROVE UNCHANGED <<tampered, catalogs, pointer>>
  <2>1. CASE Proceed(r)
    BY <2>1 DEF Proceed, ReadCatalogPointer, ReadCatalog, OpenMember, Select, Guarded, GuardFails,
       ValidateManifest, EnterCopy, CopyFile, Verify, Answer, diskVars
  <2>2. CASE ~Proceed(r)
    BY <1>2, <2>2 DEF ReaderStep, BeginQuery, BeginStatus, ProceedStatus, ReadCurrent, EnterPinned,
       StartLoad, LookAbsent, Drop, diskVars
  <2> QED BY <2>1, <2>2
<1>3. ASSUME NEW w \in Writers, Daemon(w) PROVE Grows
  <2>1. CASE PublishProject(w)
    BY <1>a, <2>1 DEF PublishProject, Grows, Current
  <2>2. CASE PublishCatalog(w)
    <3>1. Len(catalogs') = Len(catalogs) + 1
      BY <2>2 DEF PublishCatalog, IInv, TypeOK
    <3> QED BY <1>a, <2>2, <3>1 DEF PublishCatalog, Grows, Current
  <2>3. CASE ~PublishProject(w) /\ ~PublishCatalog(w)
    BY <1>1, <1>3, <2>3 DEF Daemon, WriterWaits, Collect, WriterLeaves, diskVars
  <2> QED BY <2>1, <2>2, <2>3
<1>4. ASSUME Tamper PROVE Grows
  BY <1>a, <1>4 DEF Tamper, Grows, Current
<1>5. ASSUME NEW c \in cache, Evict(c) PROVE Grows
  BY <1>1, <1>5 DEF Evict, diskVars
<1> QED BY <1>1, <1>2, <1>3, <1>4, <1>5 DEF AnyStep, vars

\* What the invariant of recovery.py says of a reader whose recovery does not move in a step.
LEMMA RecKept ==
    ASSUME RInv, Grows, TypeOK', NEW q \in Readers, rec'[q] = rec[q],
           job[q].at = "absent" <=> job'[q].at = "absent",
           job[q].tool = "recover" => job'[q].tool = "recover" /\ job'[q].since = job[q].since
    PROVE  AttemptInv(q)' /\ AbsenceInv(q)'
<1>a. /\ rec[q] \in Recs /\ AttemptInv(q) /\ AbsenceInv(q)
      /\ tampered \in Nat /\ tampered' \in Nat /\ Current \in Nat /\ Current' \in Nat
      /\ \A p \in Projects : pointer[p] \in Nat /\ pointer'[p] \in Nat
      /\ rec[q].limit \in Nat /\ rec[q].attempt \in Nat /\ rec[q].begun \in Nat
      /\ rec[q].since \in Nat
  BY DEF RInv, IInv, TypeOK, Recs, Vectors, Gens
<1>1. AttemptInv(q)'
  BY <1>a DEF AttemptInv, Grows
<1>2. AbsenceInv(q)'
  <2>1. CASE rec[q].pin = <<0, 0>>
    BY <1>a, <2>1 DEF AbsenceInv
  <2>2. CASE rec[q].pin # <<0, 0>>
    <3>1. rec[q].pin[1] \in Projects /\ rec[q].pin[2] \in Nat
      BY <1>a, <2>2 DEF Recs, Gens
    <3> DEFINE p == rec[q].pin[1]
               g == rec[q].pin[2]
    <3>2. pointer[p] <= pointer'[p] /\ pointer[p] \in Nat /\ pointer'[p] \in Nat
      BY <1>a, <3>1 DEF Grows
    <3> QED BY <1>a, <2>2, <3>1, <3>2 DEF AbsenceInv, Grows
  <2> QED BY <2>1, <2>2
<1> QED BY <1>1, <1>2

\* A step of one call moves at most the recovery of that call.
LEMMA RecoveryCallStep ==
    ASSUME RInv, NEW r \in Readers, [AnyStep]_vars, rec' \in [Readers -> Recs],
           \A q \in Readers \ {r} : rec'[q] = rec[q] /\ job'[q] = job[q],
           AttemptInv(r)', AbsenceInv(r)'
    PROVE  RInv'
<1>1. IInv' /\ Grows
  BY IInvStep, StepGrows DEF RInv
<1>2. \A q \in Readers \ {r} : AttemptInv(q)' /\ AbsenceInv(q)'
  BY <1>1, RecKept DEF IInv
<1> QED BY <1>1, <1>2 DEF RInv

\* A recovery that has begun holds a call of recovery.py.
LEMMA RunningCall ==
    ASSUME RInv, NEW r \in Readers, rec[r].state = "running", job[r].at # "absent"
    PROVE  /\ job[r].tool = "recover" /\ job[r].since = rec[r].since /\ rec[r].pin = <<0, 0>>
           /\ rec[r].status = "none" /\ rec[r].attempt <= rec[r].limit
           /\ tampered > 0 \/ rec[r].since + 1 >= rec[r].begun + rec[r].attempt
  BY DEF RInv, AttemptInv, AbsenceInv

\* An attempt that raised, or pinned an incomplete vector, has a cause: somebody touched the
\* files or the catalog was republished during the attempt.
LEMMA AttemptHasCause ==
    ASSUME RInv, NEW r \in Readers, rec[r].state = "running",
           LoaderRaised(r) \/ (LoaderPinned(r) /\ job[r].lost # {})
    PROVE  /\ job[r].at # "absent"
           /\ tampered > 0 \/ Current > rec[r].since
<1>1. job[r].at # "absent"
  BY DEF LoaderRaised, LoaderPinned
<1>2. job[r].tool = "recover" /\ job[r].since = rec[r].since
  BY <1>1, RunningCall
<1>3. Facts(r)
  BY CallGood DEF RInv
<1>4. job[r].code # "OK" /\ job[r].cause \notin {"guard", "pin"}
  BY <1>2, <1>3 DEF Facts, Good, PlaceOK
<1>5. CASE LoaderRaised(r)
  <2>1. job[r].code # "none"
    BY <1>2, <1>3, <1>5 DEF LoaderRaised, Facts, Good, PlaceOK
  <2> QED BY <1>1, <1>2, <1>3, <1>4, <2>1 DEF Facts, Good, CauseOK, Current
<1>6. CASE job[r].lost # {}
  BY <1>1, <1>2, <1>3, <1>6 DEF Facts, Current
<1> QED BY <1>5, <1>6

\* The numbers of a recovery that has begun, and the numbers it is compared with.
LEMMA RecTypes ==
    ASSUME RInv, NEW r \in Readers
    PROVE  /\ rec \in [Readers -> Recs] /\ rec[r] \in Recs
           /\ rec[r].limit \in Nat /\ rec[r].attempt \in Nat /\ rec[r].begun \in Nat
           /\ rec[r].since \in Nat /\ tampered \in Nat /\ Current \in Nat
           /\ rec[r].policy \in Policies
           /\ job \in [Readers -> Jobs] /\ job[r].lost \in SUBSET Projects
  BY DEF RInv, IInv, TypeOK, Recs, Jobs

\* The record of a recovery that has not begun has the type of a recovery.
LEMMA NoRecType == NoRec \in Recs
  BY DEF NoRec, Recs, Policies

\* The other tools begin.
LEMMA OtherToolStep == ASSUME RInv, NEW r \in Readers, OtherTool(r) PROVE RInv'
<1>a. rec \in [Readers -> Recs] /\ Facts(r)
  BY CallGood DEF RInv
<1>1. AnyStep
  BY DEF OtherTool, AnyStep, ReaderStep
<1>2. rec' \in [Readers -> Recs] /\ rec'[r] = NoRec /\ \A q \in Readers \ {r} : rec'[q] = rec[q]
  BY <1>a, NoRecType DEF OtherTool
<1>3. (\A q \in Readers \ {r} : job'[q] = job[q]) /\ job'[r].at # "absent"
  <2>1. CASE BeginQuery(r)
    BY <1>a, <2>1 DEF BeginQuery, NoJob, Facts
  <2>2. CASE BeginStatus(r)
    BY <1>a, <2>2 DEF BeginStatus, NoJob, Facts
  <2> QED BY <2>1, <2>2 DEF OtherTool
<1>4. AttemptInv(r)' /\ AbsenceInv(r)'
  BY <1>2, <1>3 DEF AttemptInv, AbsenceInv, NoRec
<1> QED BY <1>1, <1>2, <1>3, <1>4, RecoveryCallStep

\* What an attempt starts from.
LEMMA AttemptAssigns ==
    ASSUME RInv, NEW r \in Readers, Attempt(r)
    PROVE  /\ \A q \in Readers \ {r} : job'[q] = job[q]
           /\ job'[r].at = "pointer" /\ job'[r].tool = "recover" /\ job'[r].since = Current
  BY RecTypes DEF Attempt, NoJob

\* read_with_recovery begins.
LEMMA BeginRecoveryStep == ASSUME RInv, NEW r \in Readers, BeginRecovery(r) PROVE RInv'
<1>a. rec \in [Readers -> Recs] /\ Facts(r) /\ Current \in Nat
  BY CallGood, RecTypes DEF RInv
<1>1. PICK policy \in Policies :
        \E limit \in 1..MaxAttempts :
          rec' = [rec EXCEPT ![r] = [NoRec EXCEPT !.state = "running", !.policy = policy,
                                                  !.begun = Current, !.since = Current,
                                                  !.attempt = 1, !.limit = limit]]
  BY DEF BeginRecovery
<1>2. PICK limit \in 1..MaxAttempts :
          rec' = [rec EXCEPT ![r] = [NoRec EXCEPT !.state = "running", !.policy = policy,
                                                  !.begun = Current, !.since = Current,
                                                  !.attempt = 1, !.limit = limit]]
  BY <1>1
<1> DEFINE x == [NoRec EXCEPT !.state = "running", !.policy = policy, !.begun = Current,
                              !.since = Current, !.attempt = 1, !.limit = limit]
<1>3. /\ x.state = "running" /\ x.pin = <<0, 0>> /\ x.status = "none" /\ x.attempt = 1
      /\ x.limit = limit /\ x.begun = Current /\ x.since = Current /\ x.code = "none"
  BY DEF NoRec
<1>4. x \in Recs
  <2>1. limit \in Nat /\ 1 \in Nat
    BY RecoveryAssumption
  <2> QED BY <1>a, <2>1, NoRecType, Zenon DEF Recs
<1>5. rec' = [rec EXCEPT ![r] = x]
  BY <1>2
<1> HIDE DEF x
<1>6. rec' \in [Readers -> Recs] /\ rec'[r] = x /\ \A q \in Readers \ {r} : rec'[q] = rec[q]
  BY <1>a, <1>4, <1>5
<1>7. /\ AnyStep /\ \A q \in Readers \ {r} : job'[q] = job[q]
      /\ job'[r].at = "pointer" /\ job'[r].tool = "recover" /\ job'[r].since = Current
  <2>1. Attempt(r) /\ StartLoad(r)
    BY DEF BeginRecovery, StartLoad
  <2> QED BY <2>1, AttemptAssigns DEF AnyStep, ReaderStep
<1>8. AttemptInv(r)'
  BY <1>a, <1>3, <1>6, <1>7 DEF AttemptInv
<1>9. AbsenceInv(r)'
  BY <1>3, <1>6, <1>7 DEF AbsenceInv
<1> QED BY <1>6, <1>7, <1>8, <1>9, RecoveryCallStep

\* A loader that raised, or a vector the policy refuses, is tried again.
LEMMA RetryStep == ASSUME RInv, NEW r \in Readers, Retry(r) PROVE RInv'
<1>a. rec[r].state = "running" /\ (LoaderRaised(r) \/ (LoaderPinned(r) /\ job[r].lost # {}))
  BY DEF Retry, Incomplete
<1>b. job[r].at # "absent" /\ (tampered > 0 \/ Current > rec[r].since)
  BY <1>a, AttemptHasCause
<1>c. /\ job[r].tool = "recover" /\ rec[r].pin = <<0, 0>> /\ rec[r].status = "none"
      /\ tampered > 0 \/ rec[r].since + 1 >= rec[r].begun + rec[r].attempt
  BY <1>a, <1>b, RunningCall
<1> DEFINE x == [rec[r] EXCEPT !.attempt = rec[r].attempt + 1, !.since = Current]
<1>1. /\ x.state = "running" /\ x.pin = <<0, 0>> /\ x.status = "none"
      /\ x.attempt = rec[r].attempt + 1 /\ x.limit = rec[r].limit /\ x.begun = rec[r].begun
      /\ x.since = Current
  BY <1>a, <1>c, RecTypes DEF Recs
<1>2. x \in Recs
  <2>1. rec[r].attempt + 1 \in Nat /\ Current \in Nat /\ rec[r] \in Recs
    BY RecTypes
  <2> QED BY <2>1, Zenon DEF Recs
<1>3. rec' = [rec EXCEPT ![r] = x]
  BY RecTypes DEF Retry
<1> HIDE DEF x
<1>4. rec' \in [Readers -> Recs] /\ rec'[r] = x /\ \A q \in Readers \ {r} : rec'[q] = rec[q]
  BY <1>2, <1>3, RecTypes
<1>5. /\ \A q \in Readers \ {r} : job'[q] = job[q]
      /\ job'[r].at = "pointer" /\ job'[r].tool = "recover" /\ job'[r].since = Current
  BY AttemptAssigns DEF Retry
<1>6. AnyStep
  <2>1. StartLoad(r)
    BY <1>c DEF Retry, Incomplete, LoaderRaised, LoaderPinned, StartLoad
  <2> QED BY <2>1 DEF AnyStep, ReaderStep
<1>7. tampered' = tampered /\ rec[r].attempt < rec[r].limit
  BY DEF Retry, diskVars
<1>8. tampered > 0 \/ Current + 1 >= rec[r].begun + rec[r].attempt + 1
  BY <1>b, <1>c, RecTypes
<1>9. AttemptInv(r)'
  <2>1. rec[r].attempt + 1 <= rec[r].limit
    BY <1>7, RecTypes
  <2>2. tampered > 0 \/ x.since + 1 >= x.begun + x.attempt
    BY <1>1, <1>8, RecTypes
  <2> QED BY <1>1, <1>4, <1>5, <1>7, <2>1, <2>2 DEF AttemptInv
<1>10. AbsenceInv(r)'
  BY <1>1, <1>4, <1>5 DEF AbsenceInv
<1> QED BY <1>4, <1>5, <1>6, <1>9, <1>10, RecoveryCallStep

\* What the end of a call of recovery.py does to the calls.
LEMMA IdleAssigns ==
    ASSUME RInv, NEW r \in Readers, Idle(r), UNCHANGED <<phase, diskVars, cache>>,
           job[r].tool = "recover"
    PROVE  /\ AnyStep
           /\ \A q \in Readers \ {r} : job'[q] = job[q]
           /\ job'[r].at = "done"
<1>1. Drop(r)
  BY DEF Drop
<1> QED BY <1>1, RecTypes DEF Idle, NoJob, AnyStep, ReaderStep

\* The request is dropped: every attempt there was had a republished catalog of its own.
LEMMA GiveUpStep == ASSUME RInv, NEW r \in Readers, GiveUp(r) PROVE RInv'
<1>a. rec[r].state = "running" /\ (LoaderRaised(r) \/ (LoaderPinned(r) /\ job[r].lost # {}))
  BY DEF GiveUp, Incomplete
<1>b. job[r].at # "absent" /\ (tampered > 0 \/ Current > rec[r].since)
  BY <1>a, AttemptHasCause
<1>c. /\ job[r].tool = "recover" /\ rec[r].pin = <<0, 0>>
      /\ tampered > 0 \/ rec[r].since + 1 >= rec[r].begun + rec[r].attempt
  BY <1>a, <1>b, RunningCall
<1>d. CanonicalCode(r) \in RecoverableCodes
  BY DEF CanonicalCode, RecoverableCodes
<1> DEFINE x == [rec[r] EXCEPT !.state = "done", !.status = "failed", !.code = CanonicalCode(r)]
<1>1. /\ x.state = "done" /\ x.pin = <<0, 0>> /\ x.status = "failed"
      /\ x.limit = rec[r].limit /\ x.begun = rec[r].begun
  BY <1>c, RecTypes DEF Recs
<1>2. x \in Recs
  BY <1>d, RecTypes, Zenon DEF Recs, RecoverableCodes
<1>3. rec' = [rec EXCEPT ![r] = x]
  BY RecTypes DEF GiveUp
<1> HIDE DEF x
<1>4. rec' \in [Readers -> Recs] /\ rec'[r] = x /\ \A q \in Readers \ {r} : rec'[q] = rec[q]
  BY <1>2, <1>3, RecTypes
<1>5. AnyStep /\ (\A q \in Readers \ {r} : job'[q] = job[q]) /\ job'[r].at = "done"
  BY <1>c, IdleAssigns DEF GiveUp
<1>6. tampered' = tampered /\ catalogs' = catalogs
  BY DEF GiveUp, diskVars
<1>7. tampered > 0 \/ Current >= rec[r].begun + rec[r].limit
  <2>1. rec[r].attempt >= rec[r].limit
    BY <1>d, RecTypes DEF GiveUp
  <2> QED BY <1>b, <1>c, <2>1, RecTypes
<1>8. AttemptInv(r)'
  BY <1>1, <1>4, <1>6, <1>7 DEF AttemptInv, Current
<1>9. AbsenceInv(r)'
  BY <1>1, <1>4, <1>5 DEF AbsenceInv
<1> QED BY <1>4, <1>5, <1>8, <1>9, RecoveryCallStep

\* A vector is served, whole or partial.
LEMMA ServeStep == ASSUME RInv, NEW r \in Readers, Serve(r) PROVE RInv'
<1>a. rec[r].state = "running" /\ job[r].at = "select"
  BY DEF Serve, LoaderPinned
<1>b. job[r].lost # {} => tampered > 0 \/ Current > rec[r].since
  BY <1>a, AttemptHasCause DEF LoaderPinned
<1>c. job[r].tool = "recover" /\ rec[r].pin = <<0, 0>>
  BY <1>a, RunningCall
<1> DEFINE status == IF job[r].lost = {} THEN "served" ELSE "partial"
           x == [rec[r] EXCEPT !.state = "done", !.lost = job[r].lost, !.status = status]
<1>d. status \in {"served", "partial"} /\ (status = "partial" => job[r].lost # {})
  OBVIOUS
<1> HIDE DEF status
<1>1. /\ x.state = "done" /\ x.pin = <<0, 0>> /\ x.status = status
      /\ x.since = rec[r].since /\ x.policy = rec[r].policy
  BY <1>c, RecTypes DEF Recs
<1>2. x \in Recs
  BY <1>d, RecTypes, Zenon DEF Recs
<1>3. rec' = [rec EXCEPT ![r] = x]
  BY RecTypes DEF Serve, status
<1> HIDE DEF x
<1>4. rec' \in [Readers -> Recs] /\ rec'[r] = x /\ \A q \in Readers \ {r} : rec'[q] = rec[q]
  BY <1>2, <1>3, RecTypes
<1>5. AnyStep /\ (\A q \in Readers \ {r} : job'[q] = job[q]) /\ job'[r].at = "done"
  BY <1>c, IdleAssigns DEF Serve
<1>6. tampered' = tampered /\ catalogs' = catalogs
  BY DEF Serve, diskVars
<1>7. status = "partial" => rec[r].policy = "allow_partial"
  BY <1>d, RecTypes DEF Serve, Incomplete, Policies
<1>8. AttemptInv(r)'
  BY <1>1, <1>4, <1>6, <1>7, <1>b, <1>d DEF AttemptInv, Current
<1>9. AbsenceInv(r)'
  BY <1>1, <1>4, <1>5 DEF AbsenceInv
<1> QED BY <1>4, <1>5, <1>8, <1>9, RecoveryCallStep

\* The directory of a generation is tested: the collector takes none that is current.
LEMMA RequireGenerationStep == ASSUME RInv, NEW r \in Readers, RequireGeneration(r) PROVE RInv'
<1>a. /\ rec \in [Readers -> Recs] /\ job \in [Readers -> Jobs]
      /\ UNCHANGED <<phase, diskVars, cache>> /\ job[r].at = "done"
  BY RecTypes DEF RequireGeneration
<1>1. PICK k \in 1..Current :
        \E p \in Projects :
         LET g == catalogs[k][p] IN
         \/ /\ OnDisk(p, g)
            /\ rec' = [rec EXCEPT ![r] = [NoRec EXCEPT !.state = "done", !.pin = <<p, g>>]]
            /\ UNCHANGED job
         \/ /\ ~OnDisk(p, g)
            /\ rec' = [rec EXCEPT ![r] = [NoRec EXCEPT !.state = "running", !.pin = <<p, g>>]]
            /\ job' = [job EXCEPT ![r] = [NoJob EXCEPT !.at = "absent", !.tool = "recover"]]
  BY DEF RequireGeneration
<1>2. PICK p \in Projects :
         LET g == catalogs[k][p] IN
         \/ /\ OnDisk(p, g)
            /\ rec' = [rec EXCEPT ![r] = [NoRec EXCEPT !.state = "done", !.pin = <<p, g>>]]
            /\ UNCHANGED job
         \/ /\ ~OnDisk(p, g)
            /\ rec' = [rec EXCEPT ![r] = [NoRec EXCEPT !.state = "running", !.pin = <<p, g>>]]
            /\ job' = [job EXCEPT ![r] = [NoJob EXCEPT !.at = "absent", !.tool = "recover"]]
  BY <1>1
<1> DEFINE g == catalogs[k][p]
           x(state) == [NoRec EXCEPT !.state = state, !.pin = <<p, g>>]
<1>3. /\ g \in Gens /\ g \in Nat /\ p # 0 /\ g <= pointer[p] /\ pointer[p] \in Nat
      /\ tampered \in Nat
  <2>1. catalogs[k] \in Vectors /\ pointer \in Vectors
    BY DEF RInv, IInv, TypeOK, Current
  <2> QED BY <2>1, SnapshotAssumption DEF RInv, IInv, TypeOK, FilesInv, Vectors, Gens
<1> HIDE DEF g
<1>4. \A state \in {"done", "running"} :
        /\ x(state).state = state /\ x(state).pin = <<p, g>> /\ x(state).status = "none"
        /\ x(state).code = "none"
  BY DEF NoRec
<1>5. \A state \in {"done", "running"} : x(state) \in Recs
  <2>1. <<p, g>> \in Projects \X Gens
    BY <1>3
  <2> QED BY <2>1, NoRecType, Zenon DEF Recs
<1> HIDE DEF x
<1>6. CASE OnDisk(p, g) /\ rec' = [rec EXCEPT ![r] = x("done")] /\ UNCHANGED job
  <2>1. rec' \in [Readers -> Recs] /\ rec'[r] = x("done") /\ \A q \in Readers \ {r} : rec'[q] = rec[q]
    BY <1>a, <1>5, <1>6
  <2>2. UNCHANGED vars
    BY <1>a, <1>6 DEF vars, diskVars
  <2>3. AttemptInv(r)' /\ AbsenceInv(r)'
    BY <1>3, <1>4, <1>6, <1>a, <2>1 DEF AttemptInv, AbsenceInv, diskVars
  <2> QED BY <1>6, <2>1, <2>2, <2>3, RecoveryCallStep
<1>7. CASE /\ ~OnDisk(p, g) /\ rec' = [rec EXCEPT ![r] = x("running")]
           /\ job' = [job EXCEPT ![r] = [NoJob EXCEPT !.at = "absent", !.tool = "recover"]]
  <2>1. /\ rec' \in [Readers -> Recs] /\ rec'[r] = x("running")
        /\ \A q \in Readers \ {r} : rec'[q] = rec[q]
    BY <1>a, <1>5, <1>7
  <2>2. AnyStep
    BY <1>a, <1>7 DEF LookAbsent, AnyStep, ReaderStep
  <2>3. job'[r].at = "absent" /\ \A q \in Readers \ {r} : job'[q] = job[q]
    BY <1>a, <1>7 DEF NoJob
  <2>4. tampered > 0 \/ pointer[p] > g
    <3>1. <<p, g, "manifest">> \notin disk
      BY <1>7 DEF OnDisk, Names
    <3>2. tampered = 0 => <<p, pointer[p], "manifest">> \in disk
      BY DEF RInv, IInv, FilesInv, GenerationFiles, Names
    <3> QED BY <1>3, <3>1, <3>2
  <2>5. AttemptInv(r)'
    BY <1>3, <1>4, <2>1 DEF AttemptInv
  <2>6. AbsenceInv(r)'
    BY <1>3, <1>4, <1>a, <2>1, <2>3, <2>4 DEF AbsenceInv, diskVars
  <2> QED BY <2>1, <2>2, <2>3, <2>5, <2>6, RecoveryCallStep
<1> QED BY <1>2, <1>6, <1>7 DEF g, x

\* The lane's pointer is read after the directory was found absent: it never moves back.
LEMMA ClassifyAbsenceStep == ASSUME RInv, NEW r \in Readers, ClassifyAbsence(r) PROVE RInv'
<1>a. /\ job[r].at = "absent" /\ UNCHANGED <<phase, diskVars, cache>> /\ Idle(r)
      /\ rec \in [Readers -> Recs] /\ rec[r] \in Recs
  BY RecTypes DEF ClassifyAbsence
<1>b. /\ rec[r].state = "running" /\ rec[r].pin # <<0, 0>>
      /\ pointer[rec[r].pin[1]] >= rec[r].pin[2]
      /\ tampered > 0 \/ pointer[rec[r].pin[1]] > rec[r].pin[2]
  BY <1>a DEF RInv, AbsenceInv
<1>c. job[r].tool = "recover"
  BY <1>a, CallGood DEF RInv, Facts, Good, PlaceOK
<1>d. pointer[rec[r].pin[1]] \in Nat /\ rec[r].pin[2] \in Nat
  BY <1>a, <1>b DEF RInv, IInv, TypeOK, Vectors, Recs, Gens
<1> DEFINE x(code) == [rec[r] EXCEPT !.state = "done", !.code = code]
           Codes == {"SNAPSHOT_UNAVAILABLE", "SNAPSHOT_EXPIRED"}
<1>1. \A code \in Codes :
        /\ x(code).state = "done" /\ x(code).pin = rec[r].pin /\ x(code).code = code
        /\ x(code).status = rec[r].status /\ x(code).limit = rec[r].limit
        /\ x(code).begun = rec[r].begun /\ x(code).since = rec[r].since
        /\ x(code).policy = rec[r].policy
  BY <1>a DEF Recs
<1>2. \A code \in Codes : x(code) \in Recs
  BY <1>a, Zenon DEF Recs
<1>3. PICK code \in Codes :
        /\ rec' = [rec EXCEPT ![r] = x(code)]
        /\ code = "SNAPSHOT_EXPIRED" => pointer[rec[r].pin[1]] # rec[r].pin[2]
        /\ code = "SNAPSHOT_UNAVAILABLE" =>
              pointer[rec[r].pin[1]] = rec[r].pin[2] \/ tampered > 0
  BY <1>a DEF ClassifyAbsence
<1> HIDE DEF x
<1>4. /\ rec' \in [Readers -> Recs] /\ rec'[r] = x(code)
      /\ \A q \in Readers \ {r} : rec'[q] = rec[q]
  BY <1>a, <1>2, <1>3
<1>5. AnyStep /\ (\A q \in Readers \ {r} : job'[q] = job[q]) /\ job'[r].at = "done"
  BY <1>a, <1>c, IdleAssigns
<1>6. tampered' = tampered /\ catalogs' = catalogs /\ pointer' = pointer
  BY <1>a DEF diskVars
<1>7. AttemptInv(r)'
  BY <1>1, <1>4, <1>6 DEF RInv, AttemptInv, Current
<1>8. AbsenceInv(r)'
  <2>1. /\ code = "SNAPSHOT_EXPIRED" => pointer[rec[r].pin[1]] > rec[r].pin[2]
        /\ code = "SNAPSHOT_UNAVAILABLE" => tampered > 0
    BY <1>3, <1>b, <1>d
  <2> QED BY <1>1, <1>4, <1>5, <1>6, <1>b, <2>1 DEF AbsenceInv
<1> QED BY <1>4, <1>5, <1>7, <1>8, RecoveryCallStep

\* A call goes on by itself: a loader keeps its tool and the moment it began.
LEMMA LoadStepStep == ASSUME RInv, NEW r \in Readers, LoadStep(r) PROVE RInv'
<1>a. IInv /\ rec' = rec /\ rec \in [Readers -> Recs] /\ job \in [Readers -> Jobs]
  BY RecTypes DEF LoadStep, RInv
<1>1. AnyStep
  BY DEF LoadStep, AnyStep, ReaderStep
<1>2. IInv' /\ Grows
  BY <1>a, <1>1, IInvStep, StepGrows
<1>3. /\ \A q \in Readers \ {r} : job'[q] = job[q]
      /\ job[r].at = "absent" <=> job'[r].at = "absent"
      /\ job[r].tool = "recover" => job'[r].tool = "recover" /\ job'[r].since = job[r].since
  <2>1. CASE job' = job
    BY <2>1
  <2>2. CASE Proceed(r) /\ job' # job
    <3>1. Shape(job[r], job'[r]) /\ \A q \in Readers \ {r} : job'[q] = job[q]
      BY <1>a, <2>2, ProceedShape
    <3>2. job'[r].tool = "recover" => job'[r].code # "OK"
      BY <1>2 DEF IInv, Good, PlaceOK
    <3> QED BY <3>1, <3>2 DEF Shape
  <2>3. CASE ProceedStatus(r)
    <3>1. job[r].tool = "status"
      BY <1>a, <2>3, CallGood DEF ProceedStatus, ReadCurrent, EnterPinned, Facts, Good, PlaceOK
    <3>2. job'[r].at # "absent" /\ job[r].at # "absent"
      BY <1>a, <2>3 DEF ProceedStatus, ReadCurrent, EnterPinned, Jobs
    <3>3. \A q \in Readers \ {r} : job'[q] = job[q]
      BY <1>a, <2>3 DEF ProceedStatus, ReadCurrent, EnterPinned
    <3> QED BY <3>1, <3>2, <3>3
  <2> QED BY <2>1, <2>2, <2>3 DEF LoadStep
<1>4. AttemptInv(r)' /\ AbsenceInv(r)'
  BY <1>a, <1>2, <1>3, RecKept DEF IInv
<1> QED BY <1>a, <1>1, <1>3, <1>4, RecoveryCallStep

\* The daemon, the retention and the process that touches files move no call.
LEMMA OthersStep == ASSUME RInv, Others PROVE RInv'
<1>1. AnyStep
  BY DEF Others, AnyStep
<1>2. IInv' /\ Grows
  BY <1>1, IInvStep, StepGrows DEF RInv
<1>3. job' = job /\ rec' = rec
  BY DEF Others, Daemon, WriterWaits, PublishProject, PublishCatalog, Collect, WriterLeaves,
     Evict, Tamper
<1>4. \A q \in Readers : AttemptInv(q)' /\ AbsenceInv(q)'
  BY <1>2, <1>3, RecKept DEF IInv
<1> QED BY <1>2, <1>3, <1>4 DEF RInv

\* A step of recovery.py or of anybody beside it, seen from the read path.
LEMMA RInvStep == ASSUME RInv, [RecoveryNext]_recoveryVars PROVE RInv'
<1>1. CASE UNCHANGED recoveryVars
  <2>1. IInv'
    BY <1>1, IInvStep DEF recoveryVars, RInv
  <2> QED BY <1>1, <2>1 DEF recoveryVars, vars, RInv, AttemptInv, AbsenceInv, Current
<1>2. ASSUME NEW r \in Readers, Begins(r) \/ RecoveryStep(r) \/ LoadStep(r) PROVE RInv'
  BY <1>2, OtherToolStep, BeginRecoveryStep, RequireGenerationStep, RetryStep, GiveUpStep, ServeStep,
     ClassifyAbsenceStep, LoadStepStep
  DEF Begins, RecoveryStep
<1> QED BY <1>1, <1>2, OthersStep DEF RecoveryNext

\* Every step of recovery.py is a step of the read path.
LEMMA RecoveryIsAnyStep ==
    ASSUME RInv, [RecoveryNext]_recoveryVars
    PROVE  [AnyStep]_vars
<1>1. CASE UNCHANGED recoveryVars \/ Others
  BY <1>1 DEF recoveryVars, Others, AnyStep
<1>2. ASSUME NEW r \in Readers, Begins(r) PROVE [AnyStep]_vars
  <2>1. CASE OtherTool(r)
    BY <2>1 DEF OtherTool, AnyStep, ReaderStep
  <2>2. CASE BeginRecovery(r)
    <3>1. StartLoad(r)
      BY <2>2 DEF BeginRecovery, StartLoad
    <3> QED BY <3>1 DEF AnyStep, ReaderStep
  <2>3. CASE RequireGeneration(r)
    <3>1. LookAbsent(r) \/ UNCHANGED vars
      BY <2>3 DEF RequireGeneration, LookAbsent, vars, diskVars
    <3> QED BY <3>1 DEF AnyStep, ReaderStep
  <2> QED BY <1>2, <2>1, <2>2, <2>3 DEF Begins
<1>3. ASSUME NEW r \in Readers, RecoveryStep(r) PROVE [AnyStep]_vars
  <2>1. CASE ClassifyAbsence(r)
    <3>1. job[r].tool = "recover"
      BY <2>1, CallGood DEF ClassifyAbsence, RInv, Facts, Good, PlaceOK
    <3> QED BY <2>1, <3>1, IdleAssigns DEF ClassifyAbsence
  <2>2. CASE Retry(r) \/ GiveUp(r) \/ Serve(r)
    <3>1. job[r].tool = "recover"
      BY <2>2, RunningCall DEF Retry, GiveUp, Serve, Incomplete, LoaderRaised, LoaderPinned
    <3>2. CASE Retry(r)
      <4>1. StartLoad(r)
        BY <3>1, <3>2 DEF Retry, Incomplete, LoaderRaised, LoaderPinned, StartLoad
      <4> QED BY <4>1 DEF AnyStep, ReaderStep
    <3>3. CASE GiveUp(r) \/ Serve(r)
      BY <3>1, <3>3, IdleAssigns DEF GiveUp, Serve
    <3> QED BY <2>2, <3>2, <3>3
  <2> QED BY <1>3, <2>1, <2>2 DEF RecoveryStep
<1>4. ASSUME NEW r \in Readers, LoadStep(r) PROVE [AnyStep]_vars
  BY <1>4 DEF LoadStep, AnyStep, ReaderStep
<1> QED BY <1>1, <1>2, <1>3, <1>4 DEF RecoveryNext

\* No recovery has begun.
LEMMA InitRInv == RecoveryInit => RInv
<1> SUFFICES ASSUME RecoveryInit PROVE RInv
  OBVIOUS
<1>1. IInv
  BY InitIInv DEF RecoveryInit
<1>2. rec = [r \in Readers |-> NoRec] /\ job = [r \in Readers |-> NoJob]
  BY DEF RecoveryInit, Init
<1>3. \A r \in Readers : AttemptInv(r) /\ AbsenceInv(r)
  BY <1>2 DEF AttemptInv, AbsenceInv, NoRec, NoJob
<1> QED BY <1>1, <1>2, <1>3, NoRecType DEF RInv

\* The invariant of graph_query, graph_status and recovery.py beside the daemon and the damage.
THEOREM RecoveryInvariance == RecoverySpec => []RInv
<1>1. RInv /\ [RecoveryNext]_recoveryVars => RInv'
  BY RInvStep
<1> QED BY <1>1, InitRInv, PTL DEF RecoverySpec

\* However much damage is done, and at whatever moment of the guarded reads, no answer and no
\* retained generation holds a byte that was not published (snapshot_read.py verify_copied).
THEOREM BytesAreIntact == RecoverySpec => []ServedBytesIntact
<1>1. RInv => ServedBytesIntact
  BY DEF RInv, IInv, CacheInv, Good, PlaceOK, ServedBytesIntact
<1> QED BY <1>1, RecoveryInvariance, PTL

\* A request is dropped only when somebody touched the files or the catalog was republished in
\* every one of its attempts (recovery.py read_with_recovery), for every limit on the attempts.
THEOREM DropsHaveCause == RecoverySpec => []DropNeedsCause
<1>1. RInv => DropNeedsCause
  BY DEF RInv, AttemptInv, DropNeedsCause
<1> QED BY <1>1, RecoveryInvariance, PTL

\* "Expired" is said only of a generation its lane has moved past and "unavailable" only when
\* somebody touched the files (recovery.py require_generation, classify_absence).
THEOREM AbsencesAreExplained == RecoverySpec => []AbsenceIsExplained
<1>1. RInv => AbsenceIsExplained
  <2> SUFFICES ASSUME RInv, NEW r \in Readers, rec[r].pin # <<0, 0>>, rec[r].state = "done"
               PROVE  /\ rec[r].code = "SNAPSHOT_EXPIRED" =>
                           pointer[rec[r].pin[1]] # rec[r].pin[2]
                      /\ rec[r].code = "SNAPSHOT_UNAVAILABLE" => tampered > 0
    BY DEF AbsenceIsExplained
  <2>1. AbsenceInv(r) /\ rec[r] \in Recs
    BY DEF RInv
  <2>2. pointer[rec[r].pin[1]] \in Nat /\ rec[r].pin[2] \in Nat
    BY <2>1 DEF RInv, IInv, TypeOK, Vectors, Recs, Gens
  <2> QED BY <2>1, <2>2 DEF AbsenceInv
<1> QED BY <1>1, RecoveryInvariance, PTL

\* graph_query implements the atomic query beside graph_status, the recovery and the damage too.
THEOREM RecoveryKeepsQueriesAtomic == RecoverySpec => QueryIsAtomic
<1>1. RInv /\ [RecoveryNext]_recoveryVars => [Atomic!AtomicNext]_<<catalogs, callBar>>
  BY RecoveryIsAnyStep, AnyMaps DEF AtomicStep, RInv
<1>2. RecoveryInit => Atomic!AtomicInit
  BY InitMaps DEF RecoveryInit
<1>3. RecoverySpec => Atomic!AtomicInit /\ [][Atomic!AtomicNext]_<<catalogs, callBar>>
  BY <1>1, <1>2, RecoveryInvariance, PTL DEF RecoverySpec
<1> QED BY <1>3, PTL DEF QueryIsAtomic, Atomic!AtomicSpec, callBar

=============================================================================
