----------------------------- MODULE Delegation -----------------------------
(***************************************************************************)
(* The tools that delegate: graph_reconcile, graph_verify, graph_job       *)
(* (status and cancel) and graph_query with consistency require_fresh.     *)
(* Each call authorizes its caller, then asks graphd over the bounded      *)
(* retrying HttpControlClient, and projects the answer.  The daemon is     *)
(* outside the repository: it may answer an attempt at any later time, or  *)
(* never, and what it does at an attempt that was given up still counts.   *)
(***************************************************************************)
EXTENDS Naturals

CONSTANTS
    Calls,         \* tool calls, each on a worker thread of its own
    Solutions,
    Registered,    \* the solutions of the registry the gateway runs with
    OldJobs,       \* jobs that graphd holds already
    OwnerOf,       \* OwnerOf[j]: the solution of old job j
    Requests,      \* Requests[c]: what c may ask: op, caps, sees, solution, target
    Refusals,      \* Refusals[c]: the error answers c may get: a status and a body
    NoJob,
    MaxAttempts    \* ControlClientSettings.max_attempts

Attempts == 1..MaxAttempts
NewJobs == Calls \X Attempts     \* <<c, n>>: what attempt n of c enqueues
Jobs == NewJobs \cup OldJobs

Writes == {"reconcile", "verify", "fresh"}
Ops == Writes \cup {"status", "cancel"}
Caps == {"read", "reconcile", "checkpoint"}

(* errors.py *)
CanonicalCodes ==
    {"UNSUPPORTED_OPERATION", "LIMIT_EXCEEDED", "VALIDATION_ERROR", "UNAUTHENTICATED", "FORBIDDEN",
     "NOT_FOUND", "CONFLICT", "INCOMPATIBLE_INPUT", "RATE_LIMITED", "SNAPSHOT_EXPIRED",
     "SNAPSHOT_UNAVAILABLE", "SNAPSHOT_CORRUPT", "DAEMON_UNAVAILABLE", "PROJECT_UNAVAILABLE",
     "NOT_READY", "INTERNAL_ERROR"}

(* An error's body is the canonical code that it carries, or "none".       *)
RefusalType == [status : {s \in Nat : s >= 400}, body : CanonicalCodes \cup {"none"}]

(* graphd's answer to a job that it does not hold. *)
JobNotFound == [status |-> 404, body |-> "NOT_FOUND"]

ASSUME DelegationAssumption ==
    /\ MaxAttempts \in Nat \ {0}
    /\ Refusals \in [Calls -> SUBSET RefusalType]
    /\ Registered \subseteq Solutions
    /\ OldJobs \cap NewJobs = {} /\ NoJob \notin Jobs
    /\ OwnerOf \in [OldJobs -> Solutions]
    /\ Requests \in [Calls -> SUBSET [op : Ops, caps : SUBSET Caps, sees : SUBSET Solutions,
                                      solution : Solutions, target : Jobs]]

AnyRequest == UNION {Requests[c] : c \in Calls}

VARIABLES
    control,    \* this gateway has a control plane configured
    request,    \* request[c]: what call c asks, and its principal
    pc,         \* pc[c]: where the call is
    tries,      \* tries[c]: attempts that _request has made
    exchange,   \* exchange[c][n]: how far attempt n has come on the wire
    gaveUp,     \* attempts whose answer the client did not wait for
    code,       \* code[c]: the code of the answer, OK or an error's
    handle,     \* handle[c]: the job that the answer names
    job         \* job[j]: the state of job j in graphd

vars == <<control, request, pc, tries, exchange, gaveUp, code, handle, job>>

(* What has come of an attempt.  The body of an accepted request is, to    *)
(* the handler that asked, a usable job handle, a usable answer without a  *)
(* job ("plain"), an object that is neither ("unusable"), or no JSON       *)
(* object at all ("garbled").                                              *)
Unsent == [status |-> 0, body |-> "unsent"]
Sent == [status |-> 0, body |-> "sent"]
Accepted(body) == [status |-> 200, body |-> body]

Unreadable == {Accepted("unusable"), Accepted("garbled")}
Answers == {Accepted("job"), Accepted("plain")} \cup Unreadable \cup {JobNotFound}
           \cup UNION {Refusals[c] : c \in Calls}
Exchanges == {Unsent, Sent} \cup Answers
Codes == CanonicalCodes \cup {"none", "OK"}
JobStates == {"none", "open", "cancelled", "ended"}

Init ==
    /\ control \in BOOLEAN
    /\ request \in [Calls -> AnyRequest]
    /\ \A c \in Calls : request[c] \in Requests[c]
    /\ pc = [c \in Calls |-> "new"]
    /\ tries = [c \in Calls |-> 0]
    /\ exchange = [c \in Calls |-> [n \in Attempts |-> Unsent]]
    /\ gaveUp = {}
    /\ code = [c \in Calls |-> "none"]
    /\ handle = [c \in Calls |-> NoJob]
    /\ job = [j \in Jobs |-> IF j \in OldJobs THEN "open" ELSE "none"]

-----------------------------------------------------------------------------
(* The handler's refusals, before any control traffic. *)

(* ToolPrincipal.require, and the registry lookup that follows it. *)
Require(capability, r) ==
    CASE capability \notin r.caps -> "FORBIDDEN"
      [] capability \in r.caps /\ r.solution \notin r.sees \cap Registered -> "NOT_FOUND"
      [] OTHER -> "none"

(* require_control is the last thing a handler asks before it delegates. *)
ThenControl(refused) ==
    IF refused = "none" /\ ~control THEN "DAEMON_UNAVAILABLE" ELSE refused

ReconcileRefusal(r) == ThenControl(Require("reconcile", r))

VerifyRefusal(r) == ThenControl(Require("checkpoint", r))

(* A job call names no solution: whose job it is shows in the answer. *)
JobRefusal(r) ==
    ThenControl(IF r.op = "cancel" /\ "reconcile" \notin r.caps THEN "FORBIDDEN" ELSE "none")

(* A defect for comparison: the read capability is taken to be enough. *)
MutFreshRefusal(r) == ThenControl(Require("read", r))

(* The read is authorized first, the mutation capability after it. *)
FreshRefusal(r) ==
    ThenControl(IF Require("read", r) = "none" /\ "reconcile" \notin r.caps
                THEN "FORBIDDEN" ELSE Require("read", r))

Refusal(r) == CASE r.op = "reconcile" -> ReconcileRefusal(r)
                [] r.op = "verify" -> VerifyRefusal(r)
                [] r.op = "fresh" -> FreshRefusal(r)
                [] r.op \in {"status", "cancel"} -> JobRefusal(r)

Finish(c, said, j) ==
    /\ pc' = [pc EXCEPT ![c] = "done"]
    /\ code' = [code EXCEPT ![c] = said]
    /\ handle' = [handle EXCEPT ![c] = j]

Admit(c) ==
    /\ pc[c] = "new"
    /\ \/ /\ Refusal(request[c]) # "none"
          /\ Finish(c, Refusal(request[c]), NoJob)
       \/ /\ Refusal(request[c]) = "none"
          /\ pc' = [pc EXCEPT ![c] = "send"]
          /\ UNCHANGED <<code, handle>>
    /\ UNCHANGED <<control, request, tries, exchange, gaveUp, job>>

-----------------------------------------------------------------------------
(* HttpControlClient._request *)

Send(c) ==
    /\ pc[c] = "send"
    /\ pc' = [pc EXCEPT ![c] = "wait"]
    /\ tries' = [tries EXCEPT ![c] = @ + 1]
    /\ exchange' = [exchange EXCEPT ![c][tries[c] + 1] = Sent]
    /\ UNCHANGED <<control, request, gaveUp, code, handle, job>>

Answer(c) == exchange[c][tries[c]]

(* Sleep, and round the loop; after the last attempt the error is raised. *)
AgainOr(c, said) ==
    \/ /\ tries[c] < MaxAttempts
       /\ pc' = [pc EXCEPT ![c] = "send"]
       /\ UNCHANGED <<code, handle>>
    \/ /\ tries[c] = MaxAttempts
       /\ Finish(c, said, NoJob)

(* A defect for comparison: the last attempt has no timeout. *)
MutGiveUp(c) ==
    /\ pc[c] = "wait" /\ tries[c] < MaxAttempts
    /\ gaveUp' = gaveUp \cup {<<c, tries[c]>>}
    /\ AgainOr(c, "DAEMON_UNAVAILABLE")
    /\ UNCHANGED <<control, request, tries, exchange, job>>

(* The timeout passes, or the connection breaks, before the answer is in. *)
GiveUp(c) ==
    /\ pc[c] = "wait"
    /\ gaveUp' = gaveUp \cup {<<c, tries[c]>>}
    /\ AgainOr(c, "DAEMON_UNAVAILABLE")
    /\ UNCHANGED <<control, request, tries, exchange, job>>

RetryStatuses == {429, 503}

StatusCodeFallback ==
    [s \in {400, 401, 403, 404, 409, 422, 429, 503} |->
        CASE s = 400 -> "VALIDATION_ERROR"
          [] s = 401 -> "UNAUTHENTICATED"
          [] s = 403 -> "FORBIDDEN"
          [] s = 404 -> "NOT_FOUND"
          [] s = 409 -> "CONFLICT"
          [] s = 422 -> "INCOMPATIBLE_INPUT"
          [] s = 429 -> "RATE_LIMITED"
          [] s = 503 -> "NOT_READY"]

(* The canonical code of the body wins over the status. *)
ErrorOf(a) ==
    CASE a.body # "none" -> a.body
      [] a.body = "none" /\ a.status \in DOMAIN StatusCodeFallback -> StatusCodeFallback[a.status]
      [] OTHER -> "DAEMON_UNAVAILABLE"

ReceiveBusy(c) ==
    /\ pc[c] = "wait" /\ Answer(c).status \in RetryStatuses
    /\ AgainOr(c, ErrorOf(Answer(c)))
    /\ UNCHANGED <<control, request, tries, exchange, gaveUp, job>>

(* Any other error status is terminal. *)
ReceiveRefusal(c) ==
    /\ pc[c] = "wait" /\ Answer(c).status >= 400 /\ Answer(c).status \notin RetryStatuses
    /\ Finish(c, ErrorOf(Answer(c)), NoJob)
    /\ UNCHANGED <<control, request, tries, exchange, gaveUp, job>>

(* _payload *)
ReceiveGarbled(c) ==
    /\ pc[c] = "wait" /\ Answer(c) = Accepted("garbled")
    /\ Finish(c, "DAEMON_UNAVAILABLE", NoJob)
    /\ UNCHANGED <<control, request, tries, exchange, gaveUp, job>>

-----------------------------------------------------------------------------
(* What the handlers make of an object that they are answered with. *)

SolutionOf(j) == IF j \in OldJobs THEN OwnerOf[j] ELSE request[j[1]].solution

(* A defect for comparison: the handle of the first attempt is answered. *)
MutHandle(c) == IF Answer(c) = Accepted("job") THEN <<c, 1>> ELSE NoJob

Handle(c) == IF Answer(c) = Accepted("job") THEN <<c, tries[c]>> ELSE NoJob

Readable == {Accepted("job"), Accepted("plain")}

(* A job handle, or a publication that satisfies the barrier already. *)
ReceiveReconcile(c) ==
    /\ pc[c] = "wait" /\ request[c].op = "reconcile"
    /\ \/ Answer(c) \in Readable /\ Finish(c, "OK", Handle(c))
       \/ Answer(c) = Accepted("unusable") /\ Finish(c, "DAEMON_UNAVAILABLE", NoJob)
    /\ UNCHANGED <<control, request, tries, exchange, gaveUp, job>>

(* A job handle, or the verdict; one that overstates itself is unusable. *)
ReceiveVerify(c) ==
    /\ pc[c] = "wait" /\ request[c].op = "verify"
    /\ \/ Answer(c) \in Readable /\ Finish(c, "OK", Handle(c))
       \/ Answer(c) = Accepted("unusable") /\ Finish(c, "DAEMON_UNAVAILABLE", NoJob)
    /\ UNCHANGED <<control, request, tries, exchange, gaveUp, job>>

(* Any object: its job id is passed on when it has a usable one. *)
ReceiveFresh(c) ==
    /\ pc[c] = "wait" /\ request[c].op = "fresh"
    /\ Answer(c) \in Readable \cup {Accepted("unusable")}
    /\ Finish(c, "NOT_READY", Handle(c))
    /\ UNCHANGED <<control, request, tries, exchange, gaveUp, job>>

(* A defect for comparison: the job's solution is not looked at. *)
MutReceiveJob(c) ==
    /\ pc[c] = "wait" /\ Answer(c) = Accepted("job")
    /\ request[c].op \in {"status", "cancel"}
    /\ Finish(c, "OK", request[c].target)
    /\ UNCHANGED <<control, request, tries, exchange, gaveUp, job>>

ReceiveJob(c) ==
    /\ pc[c] = "wait" /\ request[c].op \in {"status", "cancel"}
    /\ LET j == request[c].target
           mine == SolutionOf(j) \in request[c].sees \cap Registered
       IN \/ Answer(c) = Accepted("job") /\ mine /\ Finish(c, "OK", j)
          \/ Answer(c) = Accepted("job") /\ ~mine /\ Finish(c, "NOT_FOUND", NoJob)
          \/ Answer(c) = Accepted("unusable") /\ Finish(c, "DAEMON_UNAVAILABLE", NoJob)
    /\ UNCHANGED <<control, request, tries, exchange, gaveUp, job>>

-----------------------------------------------------------------------------
(* graphd, as the code uses it *)

Reply(c, n, a) ==
    /\ exchange[c][n] = Sent
    /\ exchange' = [exchange EXCEPT ![c][n] = a]
    /\ UNCHANGED <<control, request, pc, tries, gaveUp, code, handle>>

(* It turns the request away, and nothing changes there. *)
DaemonRefuses(c, n) ==
    /\ \E a \in Refusals[c] : Reply(c, n, a)
    /\ UNCHANGED job

(* It queues a job; the body that says so may not be usable. *)
DaemonEnqueues(c, n) ==
    /\ request[c].op \in Writes
    /\ \E a \in {Accepted("job")} \cup Unreadable : Reply(c, n, a)
    /\ job' = [job EXCEPT ![<<c, n>>] = "open"]

(* A publication, or a verdict, already answers the request. *)
DaemonSatisfies(c, n) ==
    /\ request[c].op \in Writes
    /\ \E a \in {Accepted("plain")} \cup Unreadable : Reply(c, n, a)
    /\ UNCHANGED job

DaemonFindsJob(c, n) ==
    /\ request[c].op \in {"status", "cancel"}
    /\ LET j == request[c].target
       IN \/ /\ job[j] = "none" /\ Reply(c, n, JobNotFound)
             /\ UNCHANGED job
          \/ /\ job[j] # "none"
             /\ \E a \in {Accepted("job")} \cup Unreadable : Reply(c, n, a)
             /\ job' = IF request[c].op = "cancel" /\ job[j] = "open"
                       THEN [job EXCEPT ![j] = "cancelled"] ELSE job

DaemonWorks(j) ==
    /\ job[j] = "open"
    /\ job' = [job EXCEPT ![j] = "ended"]
    /\ UNCHANGED <<control, request, pc, tries, exchange, gaveUp, code, handle>>

-----------------------------------------------------------------------------
Receive(c) == ReceiveBusy(c) \/ ReceiveRefusal(c) \/ ReceiveGarbled(c)
              \/ ReceiveReconcile(c) \/ ReceiveVerify(c) \/ ReceiveFresh(c) \/ ReceiveJob(c)

Client(c) == Admit(c) \/ Send(c) \/ GiveUp(c) \/ Receive(c)

Daemon(c, n) == DaemonRefuses(c, n) \/ DaemonEnqueues(c, n)
                \/ DaemonSatisfies(c, n) \/ DaemonFindsJob(c, n)

Next ==
    \/ \E c \in Calls : Client(c)
    \/ \E c \in Calls, n \in Attempts : Daemon(c, n)
    \/ \E j \in Jobs : DaemonWorks(j)

Spec == Init /\ [][Next]_vars

(* A worker thread runs on, and httpx times a request out. *)
LiveSpec == Spec /\ \A c \in Calls : WF_vars(Client(c))

-----------------------------------------------------------------------------
(* Every variable has its type; in particular no call makes more attempts  *)
(* than max_attempts.                                                      *)
TypeOK ==
    /\ control \in BOOLEAN
    /\ request \in [Calls -> AnyRequest]
    /\ \A c \in Calls : request[c] \in Requests[c]
    /\ pc \in [Calls -> {"new", "send", "wait", "done"}]
    /\ tries \in [Calls -> 0..MaxAttempts]
    /\ exchange \in [Calls -> [Attempts -> Exchanges]]
    /\ gaveUp \subseteq NewJobs
    /\ code \in [Calls -> Codes]
    /\ handle \in [Calls -> Jobs \cup {NoJob}]
    /\ job \in [Jobs -> JobStates]

(* The capability that a mutation asks for. *)
Mutation(op) == IF op = "verify" THEN "checkpoint" ELSE "reconcile"

(* Work is queued in graphd only for a caller that holds the capability    *)
(* and sees the registered solution (the order of the checks in            *)
(* graph_reconcile, graph_verify and _require_fresh), and a job is         *)
(* cancelled only by a caller with the reconcile capability.               *)
OnlyAuthorized ==
    /\ \A k \in NewJobs : job[k] # "none" =>
          LET r == request[k[1]]
          IN control /\ Mutation(r.op) \in r.caps /\ r.solution \in r.sees \cap Registered
    /\ \A j \in Jobs : job[j] = "cancelled" =>
          \E c \in Calls : /\ request[c].op = "cancel" /\ request[c].target = j
                           /\ "reconcile" \in request[c].caps

(* A job that a call queued is the one whose handle the call answers with. *)
(* The exceptions are the attempts whose answer was never read: given up   *)
(* by the client's timeout, or not usable.  So a retry queues a second     *)
(* job only where an answer was lost, never after an answer was read.      *)
NoOrphans ==
    \A c \in Calls, n \in Attempts : job[<<c, n>>] # "none" =>
        \/ <<c, n>> \in gaveUp
        \/ exchange[c][n] \in Unreadable
        \/ n = tries[c] /\ pc[c] = "wait"
        \/ n = tries[c] /\ handle[c] = <<c, n>>

(* The errors after which a caller may take it that nothing was queued.    *)
(* An outage is none of them, and neither is what require_fresh always     *)
(* answers: NOT_READY, whatever the object that _require_fresh was given.  *)
SaysNothingQueued(c) ==
    /\ code[c] \in CanonicalCodes \ {"DAEMON_UNAVAILABLE"}
    /\ ~(request[c].op = "fresh" /\ code[c] = "NOT_READY")

(* After such an error, with every attempt answered, no work is behind:    *)
(* the attempts before the last were refused with 429 or 503, for nothing  *)
(* else is retried, and no body that is turned away for its form, with     *)
(* work queued, is reported as a refusal.                                  *)
RefusedMeansNothing ==
    \A c \in Calls :
        /\ pc[c] = "done" /\ SaysNothingQueued(c)
        /\ \A n \in Attempts : <<c, n>> \notin gaveUp
        => \A n \in Attempts : job[<<c, n>>] = "none"

(* The daemon itself says so in an error's body, or fails with a status    *)
(* that the client has no code for.                                        *)
DaemonSaysSo(a) ==
    /\ a.status >= 400
    /\ \/ a.body = "DAEMON_UNAVAILABLE"
       \/ a.body = "none" /\ a.status \notin DOMAIN StatusCodeFallback

(* DAEMON_UNAVAILABLE is said of a gateway without control plane; when all *)
(* allowed attempts were made and the last one went unanswered; of a body  *)
(* that cannot be used, which for require_fresh is one that is no object;  *)
(* and of a daemon that says so.  It is never said because 429 or 503, by  *)
(* their status, lasted to the end, nor with attempts left.                *)
UnavailableIsReal ==
    \A c \in Calls : code[c] = "DAEMON_UNAVAILABLE" =>
        \/ ~control /\ tries[c] = 0
        \/ tries[c] = MaxAttempts /\ <<c, tries[c]>> \in gaveUp
        \/ /\ tries[c] > 0
           /\ \/ Answer(c) = Accepted("garbled")
              \/ Answer(c) = Accepted("unusable") /\ request[c].op # "fresh"
              \/ DaemonSaysSo(Answer(c))

(* A job answer, status or cancel, is about a job that graphd holds, of a  *)
(* registered solution that the caller sees.                               *)
JobAnswersInScope ==
    \A c \in Calls : request[c].op \in {"status", "cancel"} /\ code[c] = "OK" =>
        LET j == request[c].target
        IN /\ handle[c] = j /\ SolutionOf(j) \in request[c].sees \cap Registered
           /\ job[j] # "none" /\ (request[c].op = "cancel" => job[j] # "open")

(* What a caller is told of its work: nothing was queued when it is        *)
(* refused, a job that is answered is one it may see, and an outage has a  *)
(* cause.                                                                  *)
AnswersMatchWork == RefusedMeansNothing /\ JobAnswersInScope /\ UnavailableIsReal

(* Every call is answered, whatever the daemon does: the attempts are      *)
(* bounded and each of them times out.                                     *)
EveryCallEnds == \A c \in Calls : <>(pc[c] = "done")
=============================================================================
