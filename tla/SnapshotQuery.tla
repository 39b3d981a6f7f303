--------------------------- MODULE SnapshotQuery ---------------------------
(***************************************************************************)
(* The read path of the gateway: graph_query (tools/query.py) and          *)
(* graph_status (tools/status.py) over runtime.RegisteredSource, the       *)
(* catalog, the read session and the retained generations, beside a graph  *)
(* daemon that publishes generations, republishes the catalog and collects *)
(* old files under the exclusive guard, and beside a process that does not *)
(* cooperate and damages files.  The guard is GuardContract.  Next is      *)
(* graph_query beside the daemon; graph_status and the damage are actions  *)
(* of this module that Recovery's next-state relation takes as well.       *)
(***************************************************************************)
EXTENDS GuardContract, Naturals, Sequences, FiniteSets, FiniteSetsExt, Functions

CONSTANTS
    Tools,        \* the tools called: "query", "status" or both
    Projects,     \* positive numbers: project ids, in their sort order
    Shards,       \* shard files of one generation
    MaxGen,       \* bound: generations published per project
    MaxRetained,  \* entries the retention keeps, at most
    MaxTamper     \* bound: times a non-cooperating process damages a file, or removes
                  \* one or a whole generation

ASSUME SnapshotAssumption ==
    /\ Readers \cap Writers = {}
    /\ Projects \subseteq Nat \ {0} /\ Projects # {} /\ IsFiniteSet(Projects)
    /\ MaxGen \in Nat \ {0} /\ MaxRetained \in Nat \ {0} /\ MaxTamper \in Nat

VARIABLES
    pointer,    \* pointer[p]: generation named by project p's current.json
    catalogs,   \* the catalog vectors published so far; the last is current
    disk,       \* files present: <<project, generation, name>>
    damaged,    \* the files among them whose bytes are not the published ones
    tampered,   \* how often that happened so far
    cache,      \* retained generations: <<project, generation, intact>>
    job         \* job[r]: the tool call reader r is running or has finished

diskVars == <<pointer, catalogs, disk, damaged, tampered>>
vars == <<phase, pointer, catalogs, disk, damaged, tampered, cache, job>>

Gens == 1..MaxGen
CatalogLane == 0
NoPin == <<>>
Names == {"manifest"} \cup Shards

GenerationFiles(p, g) == {<<p, g, f>> : f \in Names}
CatalogFile(k) == <<CatalogLane, k, "catalog">>
Current == Len(catalogs)

----------------------------------------------------------------------------
(* Tool calls. *)

NoJob ==
    [at |-> "done", tool |-> "none", scope |-> {}, pin |-> NoPin, since |-> 1,
     cat |-> 1, unopened |-> {}, lost |-> {}, todo |-> {}, project |-> 0, gen |-> 1,
     left |-> {}, bad |-> FALSE, got |-> {}, code |-> "none", cause |-> "none"]

\* The vector a finished or running job has loaded.
Loaded(j) == [p \in {c[1] : c \in j.got} |-> (CHOOSE c \in j.got : c[1] = p)[2]]

Init ==
    /\ PhaseInit
    /\ pointer = [p \in Projects |-> 1]
    /\ catalogs = <<[p \in Projects |-> 1]>>
    /\ disk = {CatalogFile(1)} \cup UNION {GenerationFiles(p, 1) : p \in Projects}
    /\ damaged = {}
    /\ tampered = 0
    /\ cache = {}
    /\ job = [r \in Readers |-> NoJob]

\* The handler returns or raises; runtime.call_tool turns what escapes it that is
\* not an AxiomError into INTERNAL_ERROR.
Done(r, code, cause) ==
    job' = [job EXCEPT ![r] =
              IF code = "OK"
              THEN [NoJob EXCEPT !.tool = job[r].tool, !.got = job[r].got, !.code = code]
              ELSE [NoJob EXCEPT !.tool = job[r].tool, !.since = job[r].since,
                                 !.code = code, !.cause = cause]]

Fail(r, cause) == Done(r, "INTERNAL_ERROR", cause)

\* graph_query is called: scope resolved, the pin (if any) a vector seen before.
BeginQuery(r) ==
    /\ job[r].at = "done" /\ "query" \in Tools
    /\ \E scope \in (SUBSET Projects) \ {{}} :
         \E pin \in {NoPin} \cup {Restrict(catalogs[k], scope) : k \in 1..Current} :
           job' = [job EXCEPT ![r] =
                     [NoJob EXCEPT !.at = "pointer", !.tool = "query", !.scope = scope,
                                   !.todo = scope, !.pin = pin, !.since = Current]]
    /\ UNCHANGED <<phase, diskVars, cache>>

\* graph_status is called: no catalog, each project by its own current.json.
BeginStatus(r) ==
    /\ job[r].at = "done" /\ "status" \in Tools
    /\ \E scope \in (SUBSET Projects) \ {{}} :
         job' = [job EXCEPT ![r] =
                   [NoJob EXCEPT !.at = "select", !.tool = "status", !.scope = scope,
                                 !.todo = scope, !.since = Current]]
    /\ UNCHANGED <<phase, diskVars, cache>>

\* load_pinned_catalog_generation: the pointer is read once, without the guard.
ReadCatalogPointer(r) ==
    /\ job[r].at = "pointer"
    /\ job' = [job EXCEPT ![r].at = "catalog", ![r].cat = Current]
    /\ UNCHANGED <<phase, diskVars, cache>>

\* load_catalog: absent is CatalogUnreadable, other bytes are CatalogInvalid.
ReadCatalog(r) ==
    LET file == CatalogFile(job[r].cat) IN
    /\ job[r].at = "catalog"
    /\ \/ file \notin disk /\ Fail(r, "missing")
       \/ file \in damaged /\ Fail(r, "damaged")
       \/ /\ file \in disk \ damaged
          /\ job' = [job EXCEPT ![r].at = "open", ![r].unopened = Projects]
    /\ UNCHANGED <<phase, diskVars, cache>>

\* Mutant: the member is opened through its current.json.
MutOpenMember(r) ==
    LET p == Min(job[r].unopened)
        file == <<p, pointer[p], "manifest">>
        opened == job[r].unopened \ {p}
        next == IF opened = {} THEN "select" ELSE "open"
        pinned == pointer[p] = catalogs[job[r].cat][p] /\ file \in disk \ damaged
    IN
    /\ job[r].at = "open"
    /\ job' = [job EXCEPT ![r].at = next, ![r].unopened = opened,
                          ![r].lost = IF pinned THEN @ ELSE @ \cup {p}]
    /\ UNCHANGED <<phase, diskVars, cache>>

\* pin_catalog, one member: the manifest of the pinned generation, without the
\* guard and never through current.json.  A manifest that is absent or hashes to
\* another generation makes the member missing; unparsable bytes propagate.
OpenMember(r) ==
    LET p == Min(job[r].unopened)
        file == <<p, catalogs[job[r].cat][p], "manifest">>
        opened == job[r].unopened \ {p}
        next == IF opened = {} THEN "select" ELSE "open"
    IN
    /\ job[r].at = "open"
    /\ \/ /\ file \notin disk \/ file \in damaged
          /\ job' = [job EXCEPT ![r].at = next, ![r].unopened = opened, ![r].lost = @ \cup {p}]
       \/ file \in damaged /\ Fail(r, "damaged")
       \/ /\ file \in disk \ damaged
          /\ job' = [job EXCEPT ![r].at = next, ![r].unopened = opened]
    /\ UNCHANGED <<phase, diskVars, cache>>

\* Mutant: the catalog pointer is read again for every member.
MutSelect(r) ==
    /\ job[r].at = "select"
    /\ \E p \in job[r].todo :
         \/ /\ p \in job[r].lost
            /\ Done(r, "SNAPSHOT_UNAVAILABLE", "missing")
            /\ UNCHANGED phase
         \/ /\ p \notin job[r].lost
            /\ job' = [job EXCEPT ![r].at = "validate", ![r].project = p,
                                  ![r].gen = catalogs[Current][p]]
            /\ Request(r)
    /\ UNCHANGED <<diskVars, cache>>

\* The loop over the requested projects: the next one's guarded read begins.
\* graph_query loads the generation its catalog pins, graph_status reads the
\* project's own pointer first.
Select(r) ==
    /\ job[r].at = "select"
    /\ \E p \in job[r].todo :
         \/ /\ p \in job[r].lost
            /\ Done(r, "SNAPSHOT_UNAVAILABLE", "missing")
            /\ UNCHANGED phase
         \/ /\ p \notin job[r].lost /\ job[r].tool = "query"
            /\ job' = [job EXCEPT ![r].at = "validate", ![r].project = p,
                                  ![r].gen = catalogs[job[r].cat][p]]
            /\ Request(r)
         \/ /\ job[r].tool = "status"
            /\ job' = [job EXCEPT ![r].at = "current", ![r].project = p]
            /\ Request(r)
    /\ UNCHANGED <<diskVars, cache>>

\* The guarded body may start, or the wait failed: a GuardError, which no tool
\* translates.
Guarded(r) ==
    /\ Admit(r)
    /\ UNCHANGED <<diskVars, cache, job>>

GuardFails(r) ==
    /\ Refuse(r)
    /\ Fail(r, "guard")
    /\ UNCHANGED <<diskVars, cache>>

\* RegisteredSource.load: the pointer under one guard call; load_pinned enters
\* the next.
ReadCurrent(r) ==
    /\ job[r].at = "current" /\ Leave(r)
    /\ job' = [job EXCEPT ![r].at = "enter", ![r].gen = pointer[job[r].project]]
    /\ UNCHANGED <<diskVars, cache>>

EnterPinned(r) ==
    /\ job[r].at = "enter" /\ Request(r)
    /\ job' = [job EXCEPT ![r].at = "validate"]
    /\ UNCHANGED <<diskVars, cache>>

\* A generation is in hand: the loop goes on with the next project.
Take(r, c) ==
    job' = [job EXCEPT ![r].at = "select", ![r].got = @ \cup {c},
                       ![r].todo = @ \ {job[r].project}, ![r].project = 0, ![r].gen = 1]

\* RegisteredSource.load_pinned: revalidate the manifest under the guard, then
\* use the retained generation or go back for the copy.
ValidateManifest(r) ==
    LET p == job[r].project
        g == job[r].gen
        file == <<p, g, "manifest">>
        kept == {c \in cache : c[1] = p /\ c[2] = g}
    IN
    /\ job[r].at = "validate" /\ Leave(r)
    /\ \/ file \notin disk /\ Fail(r, "missing")
       \/ file \in damaged /\ Fail(r, "damaged")
       \/ file \in disk \ damaged /\ \E c \in kept : Take(r, c)
       \/ /\ file \in disk \ damaged /\ kept = {}
          /\ job' = [job EXCEPT ![r].at = "miss"]
    /\ UNCHANGED <<diskVars, cache>>

EnterCopy(r) ==
    /\ job[r].at = "miss" /\ Request(r)
    /\ job' = [job EXCEPT ![r].at = "copy", ![r].left = Names]
    /\ UNCHANGED <<diskVars, cache>>

\* _copy_generation, one file: the manifest first, then the shards it declares.
\* A shard whose length differs is refused here, one with other bytes of the
\* same length is only found by the verification after the guard is released.
CopyFile(r) ==
    \E f \in job[r].left :
        LET file == <<job[r].project, job[r].gen, f>>
            rest == job[r].left \ {f}
        IN
        /\ job[r].at = "copy" /\ phase[r] = "in"
        /\ f = "manifest" \/ "manifest" \notin job[r].left
        /\ \/ file \notin disk /\ Leave(r) /\ Fail(r, "missing")
           \/ file \in damaged /\ Leave(r) /\ Fail(r, "damaged")
           \/ /\ file \in disk
              /\ f = "manifest" => file \notin damaged
              /\ job' = [job EXCEPT ![r].left = rest, ![r].bad = @ \/ file \in damaged,
                                    ![r].at = IF rest = {} THEN "verify" ELSE "copy"]
              /\ IF rest = {} THEN Leave(r) ELSE UNCHANGED phase
        /\ UNCHANGED <<diskVars, cache>>

\* Mutant: the snapshot is retained before it is verified.
MutVerify(r) ==
    LET c == <<job[r].project, job[r].gen, ~job[r].bad>> IN
    /\ job[r].at = "verify"
    /\ \/ job[r].bad /\ Fail(r, "damaged")
       \/ ~job[r].bad /\ Take(r, c)
    /\ cache' \in {S \in SUBSET (cache \cup {c}) : c \in S /\ Cardinality(S) <= MaxRetained}
    /\ UNCHANGED <<phase, diskVars>>

\* verify_copied on the bytes in memory, then retention.put, which makes room for
\* the snapshot or refuses one above its budget.
Verify(r) ==
    LET c == <<job[r].project, job[r].gen, ~job[r].bad>> IN
    /\ job[r].at = "verify"
    /\ \/ job[r].bad /\ Fail(r, "damaged") /\ UNCHANGED cache
       \/ /\ ~job[r].bad
          /\ Take(r, c)
          /\ cache' \in {cache} \cup
                {S \in SUBSET (cache \cup {c}) : c \in S /\ Cardinality(S) <= MaxRetained}
    /\ UNCHANGED <<phase, diskVars>>

\* Every project is loaded: the answer's catalog_generation_id is a digest of the
\* vector loaded, and a pin must equal it.
Answer(r) ==
    /\ job[r].at = "select" /\ job[r].todo = {} /\ job[r].tool \in {"query", "status"}
    /\ \/ /\ job[r].pin \in {NoPin, Loaded(job[r])}
          /\ Done(r, "OK", "none")
       \/ /\ job[r].pin \notin {NoPin, Loaded(job[r])}
          /\ Done(r, "SNAPSHOT_EXPIRED", "pin")
    /\ UNCHANGED <<phase, diskVars, cache>>

\* retention evicts its oldest entry, or clear() drops it.
Evict(c) ==
    /\ c \in cache
    /\ cache' = cache \ {c}
    /\ UNCHANGED <<phase, diskVars, job>>

----------------------------------------------------------------------------
(* External: the graph daemon, from what the readers rely on, and a process *)
(* that ignores the guard.                                                  *)

WriterWaits(w) ==
    /\ Request(w) \/ Admit(w) \/ Refuse(w)
    /\ UNCHANGED <<diskVars, cache, job>>

\* A new immutable generation, staged beforehand, becomes project p's current one.
PublishProject(w) ==
    /\ Leave(w)
    /\ \E p \in Projects :
         /\ pointer[p] < MaxGen
         /\ pointer' = [pointer EXCEPT ![p] = @ + 1]
         /\ disk' = disk \cup GenerationFiles(p, pointer[p] + 1)
    /\ UNCHANGED <<catalogs, damaged, tampered, cache, job>>

\* The catalog job pins the projects' current generations in a new vector.
PublishCatalog(w) ==
    /\ Leave(w)
    /\ catalogs[Current] # pointer
    /\ catalogs' = Append(catalogs, pointer)
    /\ disk' = disk \cup {CatalogFile(Current + 1)}
    /\ UNCHANGED <<pointer, damaged, tampered, cache, job>>

\* Neither a current generation nor one of the current catalog is collected.
Collectible(file) ==
    IF file[1] = CatalogLane
    THEN file[2] # Current
    ELSE file[2] \notin {pointer[file[1]], catalogs[Current][file[1]]}

\* GC removes one file; a daemon that dies here leaves the rest behind.
Collect(w) ==
    /\ phase[w] = "in"
    /\ \E file \in disk :
         /\ Collectible(file)
         /\ disk' = disk \ {file}
         /\ damaged' = damaged \ {file}
    /\ UNCHANGED <<phase, pointer, catalogs, tampered, cache, job>>

WriterLeaves(w) ==
    /\ Leave(w)
    /\ UNCHANGED <<diskVars, cache, job>>

Tamper ==
    /\ tampered < MaxTamper
    /\ tampered' = tampered + 1
    /\ \E file \in disk :
         \/ damaged' = damaged \cup {file} /\ UNCHANGED disk
         \/ \E files \in {{file}, {f \in disk : f[1] = file[1] /\ f[2] = file[2]}} :
               disk' = disk \ files /\ damaged' = damaged \ files
    /\ UNCHANGED <<phase, pointer, catalogs, cache, job>>

----------------------------------------------------------------------------
\* What a call does by itself once it has begun.
Proceed(r) ==
    \/ ReadCatalogPointer(r) \/ ReadCatalog(r) \/ OpenMember(r) \/ Select(r)
    \/ Guarded(r) \/ GuardFails(r)
    \/ ValidateManifest(r) \/ EnterCopy(r) \/ CopyFile(r) \/ Verify(r) \/ Answer(r)

ProceedStatus(r) == ReadCurrent(r) \/ EnterPinned(r)

Daemon(w) ==
    \/ WriterWaits(w) \/ PublishProject(w) \/ PublishCatalog(w)
    \/ Collect(w) \/ WriterLeaves(w)

\* graph_query beside the daemon; Recovery adds graph_status, the damage and recovery.py.
Next ==
    \/ \E r \in Readers : BeginQuery(r) \/ Proceed(r)
    \/ \E w \in Writers : Daemon(w)
    \/ \E c \in cache : Evict(c)

Spec == Init /\ [][Next]_vars

----------------------------------------------------------------------------
\* Every byte of an answer is a published byte: damage done at any moment (before,
\* between or inside the guarded reads, before a generation is retained) is
\* refused by the digest checks and never served or retained.
ServedBytesIntact ==
    /\ \A r \in Readers : job[r].code = "OK" => \A c \in job[r].got : c[3]
    /\ \A c \in cache : c[3]

\* A query that runs while the catalog does not move, with no guard failure and
\* no tampering, is answered: the daemon may publish project generations and
\* collect old ones at every step of it, because nothing but the pinned vector
\* is looked at and GC spares that vector.
StableCatalogAnswers ==
    \A r \in Readers :
        job[r].tool = "query" /\ job[r].code \notin {"none", "OK"} =>
            \/ job[r].cause \in {"guard", "pin"}
            \/ tampered > 0
            \/ job[r].since # Current

\* The atomic query that a call implements.
CallOf(r) ==
    LET j == job[r] IN
    CASE j.tool # "query" -> [state |-> "idle"]
      [] j.tool = "query" /\ j.at # "done" ->
             [state |-> "pending", scope |-> j.scope, pin |-> j.pin, since |-> j.since]
      [] j.tool = "query" /\ j.at = "done" /\ j.code = "OK" ->
             [state |-> "answered", vector |-> Loaded(j)]
      [] OTHER -> [state |-> "refused"]

Atomic ==
    INSTANCE AtomicQuery WITH
        published <- catalogs, call <- [r \in Readers |-> CallOf(r)]

\* graph_query implements the atomic query: one published vector, current at some
\* moment of the call, and the pinned one if there is a pin.
QueryIsAtomic == Atomic!AtomicSpec

\* docs/guides/snapshots.md: a required generation that cannot be read answers
\* SNAPSHOT_UNAVAILABLE.
MissingIsUnavailable ==
    \A r \in Readers :
        job[r].cause = "missing" =>
            job[r].code \in {"SNAPSHOT_UNAVAILABLE", "SNAPSHOT_EXPIRED"}
=============================================================================
