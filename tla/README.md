# A TLA+ model of the Axiom MCP gateway

Axiom MCP serves a code graph to assistants. A graph daemon (`graphd`, another repository)
publishes immutable *generations* of files per project and a *catalog* that names one generation
of each; the gateway in this repository reads them under a native lock, answers bounded queries,
and delegates refresh requests to the daemon's control API. This directory holds TLA+ modules for
the parts of the gateway where order, concurrency, failure or a budget decides whether an answer
is right, the TLC configurations that check them, and TLAPS proofs of the results that matter
most. `PROJECT.json` lists components, runs, the map from definitions to source lines, the
hazards and the theorems. Source paths below are relative to `src/src/axiom_mcp/`, those of
`release/` to `src/`.

To reproduce: `tlc -workers 2 -config Guard.cfg MCGuard` (likewise for the other runs, table
below), and `tlapm SolutionGuardProofs.tla` (likewise for the other proof modules).

## 1. Inventory

### 1.1 Components, their state, operations and neighbours

| Component | State it keeps | Operations | Talks to |
|---|---|---|---|
| **Native guard** `guard/engine.py`, `guard/protocol.py`, `guard/locks_*.py` | two lock files, `admission.lock` and `data.lock`; per guard object the handles it holds | `reader()`, `publisher()`, `ordered()`, `release_early`, `release_all`, `close()` | every reader process and the daemon, through the operating system |
| **Snapshot read path** `runtime.py`, `catalog.py`, `read_session.py`, `shards.py`, `tools/query.py`, `tools/status.py`, `tools/context.py` | nothing of its own; pins taken during one call | `graph_query`, `graph_status`: read the catalog pointer and catalog, pin the members, validate manifests, copy and hash shards | the guard, the files, generation retention |
| **Generation retention** `retention.py` | an `OrderedDict` of loaded generations, a byte counter, a lock | `get`, `put`, `clear` | the worker threads of the read path |
| **Shard cache** `cache.py` | the same for shard bytes, without a lock | `get`, `put`, `lookup`, `invalidate`, `evict_generation`, `clear` | no caller in the gateway at this revision |
| **Query engine** `query/model.py`, `impact.py`, `callers.py`, `context.py`, `neighbors.py`, `path.py`, `search.py`, `changes.py` | the frontier, visited set, seen edges and budgets of one call | one function per operation | pinned graphs of the read path |
| **Answer** `tools/query.py`, `query/envelope.py`, `query/budget.py` | one document while it is packed | `_answer`, `build_envelope`, `pack_response` | the query engine |
| **Delegation** `control_client.py`, `tools/reconcile.py`, `verify.py`, `job.py`, `_require_fresh` in `tools/query.py` | attempts of one request | `graph_reconcile`, `graph_verify`, `graph_job`, `require_fresh` | `graphd`'s HTTP control API |
| **Local gateway** `gateway.py` | `gateway.lock`, `state.json`, `stop.json` of one named instance; active requests | `serve`, `start`, `stop`, `status`, the monitor loop | other processes, through those three files only |
| **Lifecycle** `lifecycle.py` | in-flight, finished and cancelled counters, the draining and shutdown flags, one shared guard object | `query()`, `drain()`, `shutdown()` | worker threads and signal handlers |
| **Bounded recovery** `recovery.py` | attempts of one read | `read_with_recovery`, `require_generation`, `classify_absence` | the read path (no tool calls it yet) |
| **Cursors** `query/cursor.py` | issued cursors with their expiry, a sequence number, no lock | `issue`, `resolve` | `graph_query` resolves; no tool issues one yet |
| **Registry and paths** `registry.py`, `paths.py` | nothing: the document is read again for every call | load, resolve a logical name to a root and a guard directory | all tools |
| **Access** `security.py`, `tools/context.py`, `runtime.py` | the configured credentials | the HTTP boundary's checks, the tool layer's own authentication and authorization | clients, the registry |
| **stdio transport** `stdio.py` | pending input, a task group, the guarded `stdout` | serve, read lines, watch signals, restore | the client; the MCP SDK |
| **HTTP transport** `http.py`, `sdk_compat.py` | the mount of an application, the composed lifespan, a recorder | mount, start, stop, `/readyz` | the web framework, the MCP SDK, the runtime |
| **Packaging** `release/package.py` | versions under an install root, lockfiles, `current.json`, a history | `install`, `rollback` | pip, the entrypoints |
| **Entrypoints** `entrypoints.py` | the entrypoint lock | `plan`, `verify` | the install root, a host |
| **Update** `update.py`, `_canonical/update_plan_contract.py`, `cli.py` | a plan file, update settings | `update check`, `update apply` | the external core, which reads the plan again |
| **Manifest, errors, CLI** `manifest.py`, `errors.py`, `cli.py`, `version.py`, `tools/catalog.py` | none | validation, mapping, printing | everything above |

### 1.2 What is hard here

* **Processes that share only files.** The guard is two lock files with a bounded poll, an early
  release and an order; the gateway commands find out about each other through a lock, a record
  and a request file, each of which outlives its writer.
* **Reads beside a publisher.** One query reads a pointer, a catalog, several manifests and many
  shards, in separate guarded sections; the daemon may publish and collect between any two.
* **Threads.** Worker threads race for the retention; in `Lifecycle` they share one guard object
  that has no lock of its own.
* **Budgets.** Depth, nodes, edges, bytes, candidates and attempts are all bounded, and an answer
  has to say whether a bound cut it. Most of the wrong answers this code could give are answers
  that read as whole.
* **Retries of requests that have effects.** A timed-out `POST` may have queued its job.
* **Files read twice.** A plan is validated here and applied from the file by another program; a
  lockfile is parsed and then hashed; the registry may be rewritten between two calls or during one.
* **Ends of processes.** A signal, the end of the input, a failing server task and a cancelled
  lifespan race with calls on worker threads; an install may die after any command.

### 1.3 What makes each component correct

* guard: a publisher is alone; readers cannot starve it behind the admission gate; a closed guard
  leaves no lock, on any path; every call ends;
* read path: an answer is *one* catalog vector that was current during the call, made of intact
  bytes; a call against a catalog that stands still succeeds; every call ends;
* retention and cache: exact byte counter, limits hold outside the critical section, least
  recently used goes first, only bytes that match their digest come out;
* query engine: budgets hold, everything returned is real, an answer without a mark is the whole
  answer, absence is claimed only when proved;
* packing: the byte cap is hard, no more is cut than needed, every loss is told, the search ends;
* delegation: work is queued only for callers with the capability and the scope, a job is lost
  only with a lost answer, errors mean what they say, every call ends;
* gateway: one owner, whose record stands; what `start` and `stop` say of the process they launched
  or asked to leave is true, and a process that is reported as running was, unless only a probe held
  the lock; a stop is obeyed; every command ends;
* lifecycle: the counter is exact, and an outcome that says "drained" stays true;
* recovery: a request is dropped, and an absence explained, only for a cause that exists;
* access: a call reads what one registry document bound, within its token's scope, and what a token
  does not see might as well not exist; a cursor continues the request it was issued for;
* status and changes: what is reported was so; "fresh" needs evidence; a comparison is a complete
  and minimal patch;
* transports: no byte, error or call is lost, nothing stays open, an interrupt ends the process, and
  `/readyz` claims what its own probe verified, or what this process had verified of the generation
  it retains;
* packaging, entrypoints, update: only a locked and proved environment is activated, `verify` is
  true, and what is applied is what was approved.

## 2. Plan

Built, in this order (the most important behaviour first):

1. `GuardContract`, `SolutionGuard`, `SolutionGuardProofs`: the guard and its abstract contract.
2. `AtomicQuery`, `SnapshotQuery`, `SnapshotProofs`: the read path on top of the contract, refining
   atomic reads.
3. `Gateway`, `GatewayProofs`; `Lifecycle`, `LifecycleProofs`.
4. `PinnedGraph`, `BoundedWalk`, `Impact`; `Path`, `Search`, `Budget`, and `QueryAnswer`, which
   composes the last three into one `graph_query`; `QueryProofs` about all of them.
5. `Delegation`, `DelegationProofs`.
6. `Lru`, `Retention`, `ShardCache`.
7. `Recovery` on top of `SnapshotQuery`; `Access`, `Cursors`, `Status`, `Changes`; `RuntimeProofs`.
8. `Stdio`, `HttpServer` (proved about in `LifecycleProofs`); `Packaging`, `Entrypoints` on top of it,
   `UpdateApply`; `DeployProofs`.

Every safety property and every action property that a run checks is now stated by a theorem. Worth
adding next: what the walks of `Impact` return as an envelope of `QueryAnswer`, which now takes any;
and the parts of section 8.

## 3. The modules

Every module starts with a comment that names the code it models. `Mut...` operators are small
deliberate defects used to confirm that a property can fail; no specification uses them.

### 3.1 Guard

`GuardContract` is the reader/writer section as its users see it: `phase[p]` is `out`, `waiting`
or `in`; a section is requested, admitted beside compatible ones only, refused, or left.

`SolutionGuard` is `ordered()` step by step. `pc[p]` is the position in the call, `step[p]` the
index in the acquisition order, `attempt[p]` and `polls[p]` the two bounded loops, `held[p][l]`
the mode of each lock, `raised[p]` the exception on its way out.

| Action | Code |
|---|---|
| `Enter` | `reader()`, `publisher()` |
| `OpenVerified` | the refusals of `_acquire_one` and `_open_verified`, which may fail |
| `Grant`, `Busy`, `GiveUp`, `LockFails` | the polling loop: taken, busy, timeout or cancellation, another error |
| `ReleaseEarly` | a reader gives back admission once it has data |
| `Exit`, `ReleaseOne`, `Released` | the body ends; `release_all` lock by lock; retry or leave |
| `Closed` | `close()` in the caller's `finally` |
| `Crash` | process death, after which the kernel frees its locks |

Three roles differ in the code and therefore here: `Sources` build a guard per call and close it
(`runtime.py`, `tools/context.py`), `Keepers` keep one guard object (`lifecycle.py`,
`guard/adapter.py`), `Publishers` take both locks exclusively. `Backends` chooses how a failing
unlock surfaces: `flock` raises an `OSError` that `release_all` collects, `LockFileEx` a
`GuardError` that ends the loop. Allowing both at once only adds behaviours.

### 3.2 Read path

`AtomicQuery` is the promise of `docs/guides/snapshots.md`: a call is pending, then answered with
the requested part of one vector that was published during the call (the pinned one if it names
one), or refused.

`SnapshotQuery` has the files (`pointer`, `catalogs`, `disk`, `damaged`), the retained generations
(`cache`) and one record per running call. `BeginQuery`, `ReadCatalogPointer`, `ReadCatalog`,
`OpenMember`, `Select`, `ValidateManifest`, `EnterCopy`, `CopyFile`, `Verify` and `Answer` follow
`_load_scope`, `load_pinned` and the read session in the order of the code, guard calls included;
`BeginStatus`, `ReadCurrent` and `EnterPinned` are the loads of `graph_status`. The daemon (external)
publishes a project, republishes the catalog and collects files that nothing current names, all
as a writer of the contract. `Tamper` is a process that ignores the guard. The module's own `Next`
is `graph_query` beside the daemon, the specification the refinement is about; the loads of
`graph_status` and `Tamper` are taken by `RecoveryNext`. Authorization is in `Access`, the engine's
answer in `QueryAnswer`.

`Recovery` extends it with `read_with_recovery`, which runs the loader's steps a bounded number of
times from nothing (`BeginRecovery`, `Retry`, `GiveUp`, `Serve`), and with `require_generation`, which
tests a directory first and reads the pointer later (`RequireGeneration`, `ClassifyAbsence`).

`Status` is `graph_status` above the loads: project after project, its pointer (`ReadPointer`) and,
a guarded section later, the generation it named (`LoadPinned`), while the daemon publishes and
collects; the aggregate of coverage (`Aggregate`) and the resolution of the daemon's claim by its
evidence (`ResolveFreshness`). An absent pointer or manifest ends the call with `INTERNAL_ERROR`, as
in the program (section 5). `Changes` compares two scopes project by project (`DiffProject`).

### 3.3 Gateway

A *launch* stands for a server process with its pid, nonce and launch id. `server[l]` is its
progress, `holder` and `lockFile` the ownership lock, `state` and `stop` the two JSON files.
`Serve`, `Own`, `WriteState`, `Listen`, `Post`, `Answered`, `MonitorStop`, `Idle`, `Abort`, `Exit`
and `Crash` are the server; `Begin`, `Probe`, `Unprobe` and `ReadState` are `inspect()`, which
takes the ownership lock for a moment; `Report`, `RequestStop`, `AwaitStop`, `StopDone`, `Launch`,
`CheckChild` and `AwaitStart` are the bodies of `status`, `stop` and `start` in `main()`.
`met[c]` is a history: the recorded owner that held the lock when the first inspection of a start
found it busy. The inventory over all instances and the printed text are left out.

### 3.4 Lifecycle

Everything between two acquisitions of the condition is one step, and so is every operation on
the guard object's dictionary. `Admit`, `Check`, `Lock`, `Timeout`, `ReleaseEarly`, `Leave` and
`Finally` are `query()`; `Enter`, `StartDrain`, `Wait`, `Cancel`, `ReleaseGuards`, `ReadOutcome`,
`ReleaseAgain`, `LookAgain` and `Remember` are `shutdown()` with `drain()` inside. The readiness
report only reads. The class is public; no production module constructs it at this revision.

### 3.5 Query engine and answer

`PinnedGraph` is an indexed scope: nodes of pinned members, edges by either end, and edges that
are unresolved or lead out of the scope; `Incident` and `OtherEnd` are `_incident` and
`_other_end`. `BoundedWalk` is `bounded_walk`, one turn of its inner loop per step, with
`reasons`, `blocked_at` and the frontier. `Impact` runs it three times as `impact` does (wide,
static edges, one hop deeper) and computes `Exhaustive` and `CallersComplete` from the results;
the phase `plain` is the one walk of `context`, `neighbors` and `dependencies`.
`Path` is the search of its own in `path.py` with the walk back. `Search` is `search_symbols`:
index, capped scan, ranked and limited list; how a text matches a name is reduced to the rank it
yields. `Budget` is `pack_response`: measure, then per collection a binary search for the longest
prefix that fits, then the flag and the warnings. Encoded bytes are item sizes; the sizes of the
flag and of punctuation are kept because the cap depends on them.
`QueryAnswer` composes `Path`, `Search` and `Budget` as `graph_query` does: one engine call, the
envelope with its flag and its number of warnings, the packing. For the walks it takes any
envelope they may end in. `MCAnswer` puts it beside `Impact` over one scope, because the search of `path`
and the walk are compared with the same reference `Ball` and share the lemmas about it.

### 3.6 Delegation

A call has a request (operation, capabilities, visible solutions, target); `exchange[c][n]` is
how far attempt `n` has come on the wire. `Admit` checks in the order of each handler; `Send`,
`GiveUp`, `ReceiveBusy`, `ReceiveRefusal` and `ReceiveGarbled` are `_request`; and one `Receive...`
per tool projects the answer. An error answer is a status and a body; `ErrorOf` takes the canonical
code that the body carries before the one that belongs to the status, and `DAEMON_UNAVAILABLE`
where there is neither. A body of success is a job handle, a usable object without one, an object
that is neither (`unusable`, which `require_fresh` answers like any other: `NOT_READY`, without a
job id) or no JSON object (`garbled`). The daemon (external) may answer any attempt that was sent at
any later time, or never, and its effect counts even if the client has given up; for an error answer it
queues nothing. Arguments are valid, and project scope is part of `sees`. httpx bounds each read
by the timeout and not the whole answer: a daemon that sends one byte at a time is taken for one
that answers or is silent.

### 3.7 What a runtime keeps or reads again

`Lru` is the byte-accounted `OrderedDict` that both cache classes keep by hand; `Retention` drives it
from threads under the lock, with loading outside the lock; `ShardCache` from one caller, with
entries that may be damaged in memory. `Cursors` is the store without a lock: the increment of the
sequence, its second reading and the insertion are separate steps of `issue`; `Checks` is the order
of refusals of `resolve`. `Access` is one call: `CrossBoundary` (HTTP only), `Context` (the credential
again, the registry as it is now), `Handle` (`Resolve`: capability, solution, projects), `Load` or `LoadFails`, and
`Serve`, while the owner may `Rewrite` the registry at any moment. `MCRuntime` checks these, `Status`
and `Changes` in one run; a behaviour is one of one of them, since they share nothing.

### 3.8 Transports

`Stdio` is `main` around `serve_stdio`: the server task over the cancellable reader (`Read`, `Deliver`,
`ServerEnds`), the signal watcher (`OpenReceiver`, `Interrupt`, `WatcherCancelled`) and the group they
end in (`Finished`, `LeaveGroup`, `Restore`, `Close`). A read returns any non-empty part of what the
client wrote. A signal outside the time the receiver is open is the end of the process at any
point (SIGINT really raises `KeyboardInterrupt` there, which only adds tidier ends). Windows and
in-memory streams run the SDK's own loop and are not in it.

`HttpServer` is `http.main` (`CheckSettings` to `Close`), the mount, the composed lifespan as its exit
stack runs it (`EnterParent`, `EnterSdk`, `NoteStart`, `NoteStop`, `LeaveSdk`, `LeaveParent`) with starts
that fail, overlap or are cancelled, and `/readyz` over `Runtime.readiness` lane by lane and project by
project (`BeginProbe`, `ProbeCatalog`, `ProbeProject`, `ProbeControl`). What a probe reads of a project is
its pointer and manifest each time, and the shards only of a generation that is not retained: `good`
are the files that verify whole, `hollow` the projects with pointer and manifest but not all shards,
`kept` those whose present generation the process retains, which calls (`CallLoads`) and probes fill and
empty. So a project whose shards are damaged after they were loaded still counts as ready. The SDK's
session manager is external: it runs once in its life and waits for the calls of its sessions.

### 3.9 Installing, launching and updating

`Packaging` is `install` (`BeginInstall` to `AppendHistory`) and `rollback` (`BeginRollback`,
`ProveArtifact`, `Compare`, `Confirm`, `Activate`) command by command; each may fail (`InstallFails`,
`Refuse`), the process may `Die` anywhere, and `Touch` is drift made from outside. `Entrypoints`
extends it with `plan` and `verify`, file by file on the same install root: the pointer, the
interpreter's configuration, its version, the lockfile. `Digest` is what `plan_digest` covers: mode,
parameters, the environment (`ScopedEnvironment`: the shell's `AXIOM_*` settings and what the
environment's Python makes of it), the interpreter, its version and the lockfile. Several packagers
may work on the root at a time, since `release/package.py` takes no lock; `shared` is a history of the
versions on which two have met. `steady` and `met` are histories of a `verify`: whether its record was
true at every moment so far, and whether the recorded Python and lockfile were there together when
the interpreter was asked. `UpdateApply` is `update apply` with a plan file that may be replaced
between its reading and the core's, and `update check`. Digests stand for the content they are
taken over.

## 4. Runs

| Run | Instance | Checks |
|---|---|---|
| `Guard` | a closing reader, a keeping reader, a publisher; 2 attempts, 1 busy poll, 2 OS failures or crashes, both backends | exclusion, no lock left, admission gate, refinement of the contract, termination |
| `SnapshotAtomic` | one reader, two projects, two generations each, room for one retained generation | refinement of `AtomicQuery`, a call against a standing catalog is answered |
| `SnapshotFaults` | query, status and recovery calls, one project, two shards, one damaged or removed file, 2 attempts | intact bytes, drops and absences have a cause, every call ends |
| `Gateway` | two launches, one `start`, one `stop`, one `status`, 2 polls, 1 request in flight | owner's record, true reports of stop, start and status, stop obeyed, commands end |
| `LifecycleDrain` | two query threads, three queries, two shutdown handlers; or a stdio process, three inputs, 2 signals; or an application, two lifespans, one call, one probe over readable, hollow and retained files of two solutions, 1 change | drain outcomes, clean ends of both transports, earned readiness, an interrupt ends the process |
| `Impact` | every scope of 3 nodes and 3 edges, budgets 1 to 3, depths 0 to 2 | the walk against its reference, budgets, frontier, exhaustiveness, proven nodes, absence of callers |
| `Answer` | paths over 4 nodes and 4 edges, searches over 4 symbols, envelopes of up to 7 items under 6 caps | real and shortest paths, true absence, unmarked is whole, hard cap and refusals, longest prefix and order of cuts, told losses, termination |
| `Delegation` | a writing call and a job call, 2 attempts, error answers with and without a code, an old job, an unregistered solution | authorization, orphans, answers that match the work, termination |
| `Runtime` | 2 threads, 2 reads each; 6 calls on 5 keys, 4 bytes, 2 entries; 3 cursors by 2 threads, a restart; calls of both transports under 2 rewrites of the registry; a status over 2 projects of 2 generations; every pair of small scopes | exact counters, limits, LRU order and sound bytes; cursors; scope and binding of reads; hidden looks absent; honest status; exact changes |
| `Deploy` | two packagers, 2 versions, 2 artifacts, 2 Pythons (symmetric); up to 3 runs with failures, deaths and one drift; 2 launch commands of 2 shells beside 2 runs one after the other; a plan file replaced once | locked and proved activation, true `verify`, truthful update |
| `SnapshotMissing` | as `SnapshotFaults` | *violated*: an absent file answers `INTERNAL_ERROR` |
| `ImpactExhaustive` | as `Impact` | *violated*: an answer says exhaustive and is not |

**Why these bounds are enough.** The guard has three roles, and any conflict is between two
processes; the theorems of section 6 lift the safety results to any number. Two generations let a
publication and a collection fall between any two reads, two projects let them fall between
members, and a retention of one entry makes hits, misses and evictions happen. Two launches are
an owner and its replacement, which is all a command can confuse. Three nodes and edges contain a
cycle, a loop, parallel edges, an edge that is seen from both ends and a branch under a budget of
one or two. Envelopes have two sizes per item and caps from below the metadata to above the whole
document, so each collection is untouched, cut and emptied. Two attempts are a lost answer and a
retry; the cache sizes make three entries fit by bytes and not by number, two the other way round,
and one not at all. Two rewrites of the registry let a name move away and back during a call; two
threads are enough for the unlocked sequence of the cursors; the stdio inputs are whole lines, a
last line without a newline, an empty line and nothing, cut into reads in every way. One of the two
solutions of the readiness probe has no projects, the other has two; its live lane starts in any
state, the other whole or not there, and the one change (damage, repair, removal or another
generation of one item) falls before, between or after the reads and loads. Two versions are the active one and the one to go back to;
two artifacts of one version make the difference between a file name and its digest. Two packagers
overlap only where no launch command runs, and launch commands run beside packaging runs that follow
one another (`MCBudgets`): to `verify` a step of one packager is like a step of another, and the
theorems of section 6 have no such bound. Error answers of the daemon are
of every kind `ErrorOf` tells apart: a status that is retried, one with a code of its own, one
without, and one that its body contradicts. Its reports on freshness have every claim with every kind
of evidence, and one of an unavailable daemon.

`CHECK_DEADLOCK FALSE` stands where the system may stop for good: all commands done, all
queries answered, the drain or the process over, the bounded number of calls made.

**Liveness and fairness.**
`CallTerminates` assumes that a process inside a guarded call keeps running and that its body
ends: the polls are bounded by the wait budget and the bodies are bounded copies.
`EveryCallEnds` of `Recovery` assumes the same of a call's worker thread and nothing of the daemon.
`StopIsObeyed` and `CommandEnds` assume that the monitor thread of a listening server and the
loop of a command run; nothing is assumed of a server that is starting or draining. `StopIsObeyed`
is checked with one stop command, see section 7. `EveryQueryEnds` assumes that `graph_query`
runs on. `EveryCallEnds` of `Delegation` assumes that the client's thread runs and that a request times out, which
is what `ControlClientSettings.timeout` configures; the daemon may be silent for ever.
`InterruptEnds` assumes that the event loop runs every task that can go on and that the work of a
tool call ends, which its budgets bound; nothing is assumed of the client or of signals.

## 5. What the runs show

No interleaving of the instances breaks the passing properties, each of which a one-line
defect in the mapped code does break (`PROJECT.json`, "mutants"). Two runs show a
disagreement between code and documentation:

* **`SnapshotMissing`**. `load_project` and `load_pinned_project` (`tools/context.py:394`) translate
  `FileNotFoundError`, but `read_bounded` and `load_catalog` have already turned the absent file
  into a `ValueError` of their own; the caller gets `INTERNAL_ERROR`, where
  `docs/query-transports.md:85` lists `SNAPSHOT_UNAVAILABLE`.
* **`ImpactExhaustive`**. `impact.py:233` decides "the depth was the limit" by comparing node counts
  of the closure and of a deeper probe under the same budgets. When the closure uses a budget
  up exactly, the probe is cut, finds no more, and its own truncation is not looked at; `exhaustive`
  is true though `docs/query-engine.md:96-98` allows that only for whole answers. `ProbedIsWhole`,
  a part of `ClaimsAreTrue`, is what does hold.

## 6. Proofs

Eight modules hold theorems; each extends the modules of its component and TLAPS. They have the form
`Spec => []P` (or an action or refinement property) for every value of the constants that the named
assumptions allow. In each, an inductive invariant is shown to hold initially and to be kept by every
action; the theorems follow from it.

* **`SolutionGuardProofs`** (`RolesDisjoint`, `BoundsAssumption`: any processes, attempts, polls and
  faults). `IInv` adds to `TypeOK`: `LockCompatibility` (who holds a lock is compatible with all other
  holders), `HeldInMode`, `LocksOfPosition` (which locks a call holds at each position) and
  `CloserClean` (a closing caller starts with nothing). Exclusion alone is not inductive: it needs to
  know that everyone inside holds `data.lock` in its mode. Results: `MutualExclusion`, `NoLockLeft`,
  `AdmissionGate` (an action property) and `Refinement` (`SolutionGuard` implements `GuardContract`),
  which justifies using the contract in `SnapshotQuery`.
* **`SnapshotProofs`** (`SnapshotAssumption`, `RecoveryAssumption`: any readers, daemons, projects,
  shards, generations, damage and attempts). `FilesInv` says which files current pointers keep on
  the disk, `CacheInv` that a retained generation was verified, `Good` what a call at each position has
  pinned, read and found. The vector of a call is fixed when it reads the catalog; that it is answered
  *from* that vector needs `Good` at every step between. Results: `StableAnswers`, `QueriesAreAtomic`
  (the refinement of `AtomicQuery`, the mapping being `callBar`), and for `RecoverySpec`, where damage and
  the loads of `graph_status` run beside it, `BytesAreIntact`, `DropsHaveCause`,
  `AbsencesAreExplained` and again `RecoveryKeepsQueriesAtomic`. `RInv` adds `AttemptInv`: each attempt
  beyond the first consumed a republication or some damage.
* **`GatewayProofs`** (`RolesAssumption`: any number of launches and commands). `LockInv` ties the lock
  to owners and probes, `FileInv` and `RecordInv` tie `state.json` to a launch that wrote it,
  `SeenInv` makes what a command remembers stable, `MetInv` compares what a start finds with the
  owner that held the lock as it found it busy, `StopInv` and `StartInv` follow a command
  through its stages. Results: `OneOwner`, `ReportsTruth` (from `StopTruth`, `StartTruth` and
  `RunningTruth`).
* **`LifecycleProofs`** (`LifecycleAssumption`, `StdioAssumption`, `HttpAssumption`: any finite set of
  threads, any input, any lifespans, calls and probes). For the drain: `Accounted` (admitted = finished
  + in flight), `DrainSet`, `ZeroStands` (draining with nothing in flight stays so) and
  `OutcomesGood`. For HTTP: `LifespanInv` and `ServingInv` (one mount, whose manager runs once and in one
  lifespan; the counters are the lifespans that run). For the probe: `ProbeInv`, in which a lane that
  was given up has seen something that was not good, or a change since; a project is counted for its
  good files or for a retained generation whose manifest was read again. For stdio: `StdioInv`, in
  which what was handed over, is pending and is unread is the whole stream. `EndInv` is their
  conjunction. Results: `DrainSound`, `ProcessDrainSound`, `TransportsEndClean`, `ReadinessIsEarned`.
* **`QueryProofs`** (`WalkAssumption`, `ImpactAssumption`: any finite scope, any budgets, any depth).
  The walk: `Shape` relates the level, the next level and the visited set; `HereDone` and
  `FrontierFull` say what is already accounted for in the middle of a level; `BallInv` compares it with
  the reference `Ball` level by level; `WideInv`, `ExactInv` and `DeeperInv` say what the three
  walks of an impact call have left behind. Results: `Honest`, `AnswersAreBalls`, `WalksAreHonest`,
  `ClaimsHold`, and the parts they are made of.
  The answer (`AnswerAssumption`, `BudgetAssumption` of `MCAnswer`, which has `QueryAnswer` as its instance `Q`):
  `PackInv` says of the packing that only tails were cut, that the collections to come are whole, that
  the binary search brackets the longest prefix that fits; it rests on `SizeGrows`: a document inside
  another is no larger. For `path`, `PathInv` keeps a tree whose levels are those of `Ball` (`Tree`,
  `Sweeping`); a search that found nothing and met no budget has left nothing out (`Missed`), and the
  walk back shortens the distance hop by hop (`Retraced`). For `search`, `SearchInv` says what the scan
  has passed. Results: `PackingIsBest`, `RoutesAreShortest`, `SilencesAreTrue`.
* **`DelegationProofs`** (`DelegationAssumption`: any calls, jobs and attempts). `Counting` (attempts
  beyond the current one were not sent), `Admission` (what was sent was admitted), `Backed` (a
  queued job has an attempt that was sent), `Settled` and `Concluded` (what an answered attempt
  and a finished call imply); `AnswersInv` adds `Heard` (a job answer is of a job that is there) and
  `Told` (which error a body of success can end in). Results: `Authorized`, `OrphansAreLosses`,
  `OutagesAreReal` (the outage is said only of a missing control plane, of a body that cannot be used, of
  a daemon that says so itself or whose status has no code, or when all attempts are used and the last
  was not answered), `AnswersAreTrue` (a refusal of which every attempt was answered means that
  nothing was queued; the constant `NOT_READY` of `require_fresh` is no such refusal).
* **`RuntimeProofs`** (the assumptions of `MCRuntime`, `Retention` and `Lru`: any threads, keys, weights, limits, offers,
  registries, projects and scopes), one invariant per component. `RetentionInv` and `ShardInv` carry
  `CacheInv`: the byte counter is the sum of the entries, and the entries are the tail of the history of
  uses in which each key stands once (`Lined`), so that what is evicted was used least recently.
  `CursorInv` makes an id name one binding across restarts; `AccessInv` compares a call with the one
  registry document it read; `StatusInv` follows each line of a status: the number that its pointer
  gave was current then (`HeldInv`), numbers are not used twice (`NumbersInv`), so that the generation
  that is loaded by that number was current then too; `ChangesInv` has the
  difference of every project the comparison has come to. Results: `CachesAreKept`,
  `CursorsKeepTheirRequests`, `ReadsAreBound`, `HiddenPartsAreAbsent`, `StatusesAreHonest`,
  `ComparisonsAreExact` (an answer is a complete and minimal patch, a refusal carries none).
* **`DeployProofs`** (`DeployParameters`: any packagers, versions, artifacts, Pythons, shells, plans and
  bounds, with nothing said of which commands overlap). `RootInv` relates a packager's position to the
  lockfile (`LockOK`), the bytes and the environment (`BytesOK`) of its version, for versions on which
  no two packagers have met; `Apart` says that two which have the same version in hand have met.
  `EntryInv` says what a launch command has read by each of its steps (`CommandOK`), that a record which
  was true at every moment agrees with all of it (`SteadyOK`), that one which was met at the probe did so
  for the version the pointer named (`MetOK`), and that no two lockfiles have the same number
  (`Numbered`). `UpdateInv` says what an update has accepted by then. Results: `ActiveStaysLocked`,
  `ActivationsAreVerified`, `VerdictsAreTrue`, `UpdatesAreTruthful`.

Several of these proofs follow a recursive function (`Ball`, `Total`, `WeightOf`) or a sequence through
its length. What such a function is, is got from a set: of the places where it would fail, the least
one contradicts its equation (`LayersExist`, `GoesOn`, `MinIsLeast`). For this the
models define them as recursive functions, and their constants are typed by named operators
(`WalkParameters`, `BudgetParameters`, `AnswerParameters` and the like), which are the assumptions.

The type invariants have no run of their own: they are conjuncts of the inductive invariants, proved
for every instance.

**Only model-checked.** Liveness under fairness is outside the proof system: `CallTerminates`,
`EveryCallEnds` (of `Recovery` and of `Delegation`), `StopIsObeyed`, `CommandEnds`, `InterruptEnds` and
`EveryQueryEnds` are checked on instances. So are the two disagreements of section 5.

## 7. Known differences between code and documents

Besides the two of section 5, met while modelling and not part of a run. Where one limits a property, the
property is stated so that it holds, and says so.

* A guard that its caller keeps (`Keepers`) stays holding admission when the *second* lock fails
  with something other than a timeout or a cancellation (`guard/engine.py:309`), although the engine
  promises the release of every acquired guard when the wait fails. Hence
  `ClosedCallLeavesNoLock` speaks of closers.
* `graph_status` reads project pointers one after the other (`tools/status.py:176`); the combination it
  reports need not be one that a catalog ever pinned, although `status.py:6-8` calls it what is
  actually pinned. `StatusIsHonest` states what does hold: each project's line was so during the call.
* The evidence `watcher_hint` is never used: `verified_at` is not copied from the daemon's answer
  (`_daemon_section` in `tools/status.py`).
* An `inspect()` that finds the lock held by another command's probe, or by a server that has
  written no record yet, reports the record that lies there as running, also that of a process long
  dead (`gateway.py:254-262`; `docs/local-gateway.md:53` and `:119-121` say that it appears stopped). A
  `start` then answers "reused" and launches nothing, a `status` says running. `ReportsAreTrue` says
  what does hold: what `stop` reports of the process it asked to leave and `start` of the child it
  launched is so; and what a `start` would reuse owned the instance once, and was alive when the lock was
  found busy or came later, if a recorded owner held the lock.
* Two `stop` commands share one `stop.json`; the one that read an older record can overwrite the
  request of the other, whose owner then never sees it. Hence one stop in the run of `StopIsObeyed`.
* `shutdown()` checks for an earlier outcome and stores its own in two separate critical sections;
  two handlers both drain, and cancellations are counted twice (`lifecycle.py:345`, against
  `lifecycle.py:341-342`).
* `drain()` calls `release_all` on the guard object that queries share. A query between its two
  acquisitions then fails in `release_early` (`guard/engine.py:250`) and leaves `data.lock` held with no
  query in flight, although `lifecycle.py:257-259` says that a query cut short by a drain leaves no
  lock behind. `DrainIsSound` speaks of the counter and the outcome, not of the lock files.
* `proven` of an impact answer is not always part of `nodes` when a budget cut the wide walk
  (`impact.py:236`, against `impact.py:11`). `ProvenIsBacked` states
  it for uncut closures, where it holds.
* A symbol search whose scan stops at its cap, or is passed over because index matches of other
  kinds fill the allowance, is not marked as truncated (`search.py:264-289`, against
  `search.py:16-17`). `UnmarkedIsWhole` excludes these two cases explicitly.
* `ambiguous` looks only at the candidates that were kept: a limit of one hides a shared best rank
  (`search.py:204`, against `docs/query-engine.md:36-37`).
* `oversized_item` is also said of an item that would fit alone, because it was measured beside
  later collections (`budget.py:114`, against `budget.py:13-15`).
* `require_fresh` answers `NOT_READY` without a job id when the daemon answers with an existing
  publication (`tools/query.py:284`, against `docs/reference/mcp.md:331-332`), or with an object whose job
  id is not usable, though it may have queued work then. `RefusedMeansNothing` does not count this
  `NOT_READY` as a refusal.
* A cancel is sent before it is known whose job it is: for a job of a solution that the caller does
  not see the answer is `NOT_FOUND`, after the daemon has acted (`tools/job.py:207`).
* A readiness probe takes a retained generation for readable on its pointer and manifest alone, while
  `runtime.py:174` speaks of manifest and shard verification. `ReadyIsEarned` says so.
* An install of a version that exists removes its environment before it builds the new one
  (`create_environment` in `release/package.py`), and `stage_artifact` overwrites a staged artifact of
  the same name, although `docs/release-packaging.md:51` says that a failing install never removes a
  version that already existed. The lockfile stays, which is what `ActiveIsLocked` says; it says nothing
  of the environment or of staged bytes.
* Nothing keeps two packagers on one install root apart: `release/package.py` takes no lock. An
  install that fails removes what another has activated meanwhile if both work on one version, and
  an activation may then name an environment that is gone. `ActiveIsLocked` and `ActivationIsVerified`
  except versions on which two have met, and no others.
* The digest of a launch plan covers `AXIOM_*` settings copied from the shell, so that two shells may
  see drift (`scoped_environment` in `entrypoints.py`, against `docs/locked-entrypoints.md:75`), and the
  version of the environment's Python, so that an environment made with another Python is drift, as
  `docs/locked-entrypoints.md:56-61` says. It does not cover the distributions in the environment: one
  that is replaced under the same Python and lockfile is not seen. The pointer is read first and not
  again, so another version may be active by the time ok is printed. `VerifyIsTrue` speaks of the same
  shell and of what was read.
* On POSIX an environment's `bin/python` is a link out of it, which `resolve()` follows; such an
  interpreter is refused as outside the environment.
* A solution outside a token's scope is `FORBIDDEN` at the HTTP boundary and `NOT_FOUND` over stdio,
  although `docs/reference/mcp.md:16` promises equivalent results. `HiddenLooksAbsent` speaks of the
  tool layer, which answers `NOT_FOUND`.
* Cursor ids are deterministic: after a restart an id of the old store may be known again.
  `CursorKeepsItsRequest` holds because the id is a digest of the binding.
* `http.main` composes the tools and builds the application before the `try` that closes the
  runtime (`http.py:414-424`); a failure there leaves it open in a process that ends.
  `LifespanIsWhole` speaks of a `main` that has served.
* `Lifecycle.readiness()` does not look at the drain: it can report ready while queries are refused.

## 8. Not modelled

Byte formats, canonical encodings, digests and field validation (`manifest.py`, documents of
`query/model.py`, the fields of an update plan), textual ranking, path syntax, header parsing,
redaction and printed text are data and string processing; where they decide something, the models
use the decision (bytes that are not the published ones are refused, a rank, a refusal code). The web framework, the MCP SDK, httpx,
pip, the operating system's locks and `graphd` are outside the repository and appear only as the
behaviours the code relies on. Also left out: the inventory over all gateway instances (`list`, a bare
`stop`), the replay of a request body at the HTTP boundary (token ids are taken to be distinct), the
readiness flags of `Lifecycle`, the handshake and stream observation helpers of the HTTP transport,
the guard's ABI descriptor and interop driver, `doctor` and the version report, the projection of
query results into documents, and the building of a wheel.
