------------------------------- MODULE Access -------------------------------
(***************************************************************************)
(* One tool call from its transport to the files it reads: the boundary's  *)
(* checks (HTTP only), the tool layer's own authentication and             *)
(* authorization, and the resolution of logical names to directories       *)
(* through the registry document, which its owner may rewrite at any       *)
(* moment and which the gateway reads again for every call.                *)
(*                                                                         *)
(* A credential stands for its digest.  Token ids are taken to be          *)
(* distinct.  What the calls share is in Retention, Cursors and Delegation.*)
(***************************************************************************)
EXTENDS Naturals, Sequences, FiniteSets, SequencesExt

CONSTANTS
    Documents,      \* registry documents: [sound, rows]
    Credentials,    \* credential registries: sequences of [value, audience, wellFormed, ...]
    Asks,           \* what a client may send
    AllowedHosts,   \* [name, port] that the policy admits; port None admits every port
    AllowedOrigins,
    None,
    MaxRewrites     \* bound: times the registry is rewritten

(* A row is one repository of a solution: [sol, inst, repo, root, projs].  *)
(* sound: every rule of parse_registry but those on duplicates below.      *)
(* The rows of an absent file are none.                                    *)

AccessParameters ==
    /\ \A d \in Documents :
         /\ DOMAIN d.rows \subseteq Nat
         /\ d.rows = [i \in DOMAIN d.rows |-> d.rows[i]]
         /\ d = [sound |-> d.sound, rows |-> d.rows]
         /\ \A i \in DOMAIN d.rows :
              LET r == d.rows[i] IN
              r = [sol |-> r.sol, inst |-> r.inst, repo |-> r.repo, root |-> r.root,
                   projs |-> r.projs]
    /\ None \notin Documents

VARIABLES
    registry,    \* the document in AXIOM_HOME
    rewrites,
    creds,       \* the credential registry the process starts with
    call,
    during       \* the documents that were the registry at some moment of the call

accessVars == <<registry, rewrites, creds, call, during>>

NoCall ==
    [at |-> "down", ask |-> None, doc |-> None, todo |-> {}, reads |-> {}, code |-> "none"]

----------------------------------------------------------------------------
(* The registry. *)

RowsOf(d, s) == {i \in DOMAIN d.rows : d.rows[i].sol = s}

\* load_registry and parse_registry.
Readable(d) ==
    /\ d.sound
    /\ \A i, j \in DOMAIN d.rows :
         i # j /\ d.rows[i].sol = d.rows[j].sol =>
            d.rows[i].repo # d.rows[j].repo /\ d.rows[i].projs \cap d.rows[j].projs = {}

\* SnapshotRegistry.solution, as a test.
Known(d, s) == RowsOf(d, s) # {}

SolutionProjects(d, s) == UNION {d.rows[i].projs : i \in RowsOf(d, s)}

\* The first repository that lists the project, and the guard directory of the solution's
\* instance (RegisteredSource.source).
Location(d, s, p) ==
    LET r == d.rows[Min({i \in RowsOf(d, s) : p \in d.rows[i].projs})]
    IN  [proj |-> p, root |-> r.root, inst |-> r.inst]

----------------------------------------------------------------------------
(* Credentials. *)

\* Runtime.configured: one entry that cannot be registered keeps the gateway from starting.
Configured(c) ==
    /\ \A i \in DOMAIN c : c[i].wellFormed /\ c[i].audience = "mcp" /\ c[i].value # None
    /\ \A i, j \in DOMAIN c : i # j => c[i].value # c[j].value

Recognised(v) == v # None /\ \E i \in DOMAIN creds : creds[i].value = v
ScopeOf(v) == CHOOSE t \in ToSet(creds) : t.value = v

\* host_allowed and origin_allowed, on headers that are what they should be; a header that is
\* not is None as a host, and no member of AllowedOrigins as an origin.
HostAllowed(h) ==
    h # None /\ \E e \in AllowedHosts : e.name = h.name /\ (e.port = None \/ e.port = h.port)
OriginAllowed(o) == o = None \/ o \in AllowedOrigins

ToolCapability(tool) ==
    CASE tool = "reconcile" -> "reconcile"
      [] tool = "verify" -> "checkpoint"
      [] OTHER -> "read"

----------------------------------------------------------------------------
AccessInit ==
    /\ registry \in Documents /\ rewrites = 0
    /\ creds \in Credentials
    /\ call = NoCall /\ during = {}

\* External: the owner rewrites the registry, whole.
Rewrite ==
    /\ call.at \notin {"refused", "ended"} /\ rewrites < MaxRewrites
    /\ rewrites' = rewrites + 1
    /\ registry' \in Documents \ {registry}
    /\ during' = during \cup {registry'}
    /\ UNCHANGED <<creds, call>>

Start ==
    /\ call.at = "down"
    /\ call' = [call EXCEPT !.at =
                  IF Configured(creds) /\ Readable(registry) THEN "ready" ELSE "refused"]
    /\ UNCHANGED <<registry, rewrites, creds, during>>

Arrive ==
    /\ call.at = "ready"
    /\ \E a \in Asks :
         call' = [NoCall EXCEPT !.at = IF a.via = "http" THEN "boundary" ELSE "context",
                                !.ask = a]
    /\ during' = {registry}
    /\ UNCHANGED <<registry, rewrites, creds>>

Answer(c) == [call EXCEPT !.at = "ended", !.code = c]
Become(c) == call' = c /\ UNCHANGED <<registry, rewrites, creds, during>>

\* SecurityMiddleware: headers, credential, size of the body; then, for a tool call, the
\* scope that the arguments declare and the capability.
Boundary(a) ==
    LET t == ScopeOf(a.value) IN
    IF ~HostAllowed(a.host) \/ ~OriginAllowed(a.origin) THEN "FORBIDDEN"
    ELSE IF ~Recognised(a.value) THEN "UNAUTHENTICATED"
    ELSE IF a.form = "large" THEN "VALIDATION_ERROR"
    ELSE IF a.form = "other" THEN "pass"
    ELSE IF /\ a.sol \in t.sols
            /\ a.projs # None => a.projs \subseteq t.projs
            /\ ToolCapability(a.tool) \in t.caps
         THEN "pass"
         ELSE "FORBIDDEN"

CrossBoundary ==
    /\ call.at = "boundary"
    /\ LET code == Boundary(call.ask) IN
         \/ code # "pass" /\ Become(Answer(code))
         \/ code = "pass" /\ call.ask.form = "other" /\ Become(Answer("NO_TOOL"))
         \/ code = "pass" /\ call.ask.form # "other" /\ Become([call EXCEPT !.at = "context"])

\* Runtime.context: the credential again, and the registry as it is now.
Context ==
    /\ call.at = "context"
    /\ \/ ~Recognised(call.ask.value) /\ Become(Answer("UNAUTHENTICATED"))
       \/ /\ Recognised(call.ask.value)
          /\ \/ ~Readable(registry) /\ Become(Answer("SNAPSHOT_UNAVAILABLE"))
             \/ Readable(registry) /\ Become([call EXCEPT !.at = "handler", !.doc = registry])

\* Mutant: a project that is there but outside the token's scope is forbidden.
MutResolveProjects(a, t, d) ==
    LET available == SolutionProjects(d, a.sol) IN
    IF a.projs = None THEN [code |-> "OK", projs |-> available \cap t.projs]
    ELSE IF ~(a.projs \subseteq available) THEN [code |-> "NOT_FOUND", projs |-> {}]
    ELSE IF ~(a.projs \subseteq t.projs) THEN [code |-> "FORBIDDEN", projs |-> {}]
    ELSE [code |-> "OK", projs |-> a.projs]

\* ToolContext.resolve_projects: "OK" and what was asked for, or all that the token sees.
ResolveProjects(a, t, d) ==
    LET available == SolutionProjects(d, a.sol) IN
    IF a.projs = None THEN [code |-> "OK", projs |-> available \cap t.projs]
    ELSE IF a.projs \subseteq available \cap t.projs THEN [code |-> "OK", projs |-> a.projs]
    ELSE [code |-> "NOT_FOUND", projs |-> {}]

\* A handler up to its first read or its request to the daemon.
Resolve(a, t, d) ==
    LET no(c) == [code |-> c, projs |-> {}]
        r == ResolveProjects(a, t, d)
    IN  IF a.tool = "unknown" THEN no("NOT_FOUND")
        ELSE IF ToolCapability(a.tool) \notin t.caps THEN no("FORBIDDEN")
        ELSE IF a.tool = "version" THEN no("REPORTED")
        ELSE IF a.sol \notin t.sols \/ ~Known(d, a.sol) THEN no("NOT_FOUND")
        ELSE IF r.code # "OK" THEN r
        ELSE IF a.tool \in {"reconcile", "verify"} THEN no("DELEGATED")
        ELSE IF r.projs = {} THEN no("NOT_FOUND")
        ELSE r

Handle ==
    /\ call.at = "handler"
    /\ LET r == Resolve(call.ask, ScopeOf(call.ask.value), call.doc) IN
         \/ r.code # "OK" /\ Become(Answer(r.code))
         \/ r.code = "OK" /\ Become([call EXCEPT !.at = "load", !.todo = r.projs])

\* Mutant: a project is located in the registry as it is by now.
MutLoad(p) ==
    /\ call.at = "load" /\ p \in call.todo
    /\ Known(registry, call.ask.sol) /\ p \in SolutionProjects(registry, call.ask.sol)
    /\ Become([call EXCEPT !.todo = @ \ {p},
                           !.reads = @ \cup {Location(registry, call.ask.sol, p)}])

Failures == {"SNAPSHOT_UNAVAILABLE", "INTERNAL_ERROR"}

\* load_project and load_pinned_project, one project after the other.
Load(p) ==
    /\ call.at = "load" /\ p \in call.todo
    /\ Become([call EXCEPT !.todo = @ \ {p},
                           !.reads = @ \cup {Location(call.doc, call.ask.sol, p)}])

\* Nothing to read: graph_query finds the member unavailable in the catalog, or a file is not
\* there, which no handler expects of read_bounded and call_tool answers.
LoadFails ==
    /\ call.at = "load" /\ call.todo # {}
    /\ \E code \in Failures : Become(Answer(code))

Serve == call.at = "load" /\ call.todo = {} /\ Become(Answer("OK"))

AccessNext ==
    \/ Rewrite \/ Start \/ Arrive \/ CrossBoundary \/ Context \/ Handle
    \/ (\E p \in call.todo : Load(p)) \/ LoadFails \/ Serve

----------------------------------------------------------------------------
\* Everything one call reads is where a single registry document bound it, to a root and a
\* guard directory, without ambiguity, and that document was the registry at some moment of
\* the call, however often it was rewritten; the caller's token covers every project read, and
\* a call that is served has read all it asked for, or all that its token sees.
ServedAsBound ==
    call.reads # {} =>
        LET t == ScopeOf(call.ask.value)
            s == call.ask.sol
            read == {x.proj : x \in call.reads}
        IN  /\ \E d \in during :
                 /\ \A x \in call.reads, i \in RowsOf(d, s) :
                      x.proj \in d.rows[i].projs =>
                         x.root = d.rows[i].root /\ x.inst = d.rows[i].inst
                 /\ read \subseteq SolutionProjects(d, s)
                 /\ call.code = "OK" =>
                      read = IF call.ask.projs = None THEN SolutionProjects(d, s) \cap t.projs
                                                      ELSE call.ask.projs
            /\ "read" \in t.caps /\ s \in t.sols /\ read \subseteq t.projs

\* A document without what the token does not see; a row keeps its place.
Visible(d, t) ==
    LET seen == {i \in DOMAIN d.rows : d.rows[i].sol \in t.sols}
    IN  [d EXCEPT !.rows = [i \in seen |-> [d.rows[i] EXCEPT !.projs = @ \cap t.projs]]]

\* What a token does not see might as well not exist: a call is answered as it would be by a
\* registry without the solutions and the projects outside the token's scope.
HiddenLooksAbsent ==
    call.at = "ended" /\ call.doc # None =>
        LET t == ScopeOf(call.ask.value)
            r == Resolve(call.ask, t, Visible(call.doc, t))
        IN  IF r.code = "OK" THEN call.code \in {"OK"} \cup Failures
                             ELSE call.code = r.code /\ call.reads = {}
=============================================================================
