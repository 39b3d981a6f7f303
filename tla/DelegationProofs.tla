-------------------------- MODULE DelegationProofs --------------------------
(* Proofs about Delegation, for any calls, jobs and number of attempts. *)
EXTENDS Delegation, TLAPS

(* What each handler has made sure of when it sends its first request. *)
Admitted(r) ==
    /\ control
    /\ r.op \in {"reconcile", "fresh", "cancel"} => "reconcile" \in r.caps
    /\ r.op = "verify" => "checkpoint" \in r.caps
    /\ r.op \in Writes => r.solution \in r.sees \cap Registered

(* Where the call is bounds how many attempts it has made. *)
Counting ==
    \A c \in Calls :
        /\ pc[c] = "new" => tries[c] = 0
        /\ pc[c] = "send" => tries[c] < MaxAttempts
        /\ pc[c] = "wait" => tries[c] > 0
        /\ pc[c] # "done" => code[c] = "none"
        /\ \A n \in Attempts : n > tries[c] => exchange[c][n] = Unsent

(* Only an admitted call has traffic. *)
Admission ==
    \A c \in Calls :
        /\ pc[c] \in {"send", "wait"} => Admitted(request[c])
        /\ \A n \in Attempts : exchange[c][n] # Unsent => Admitted(request[c])

(* The answers that may come with a queued job. *)
Queueing == {Accepted("job")} \cup Unreadable

(* Those that never do. *)
Turned == {Accepted("plain"), JobNotFound} \cup UNION {Refusals[c] : c \in Calls}

(* Only an answered write has queued a job. *)
Backed ==
    \A c \in Calls, n \in Attempts : job[<<c, n>>] # "none" =>
        exchange[c][n] \in Queueing /\ request[c].op \in Writes

(* An attempt that the client is past was given up, or turned away. *)
Settled ==
    \A c \in Calls, n \in Attempts :
        n < tries[c] \/ (n = tries[c] /\ pc[c] = "send")
        => <<c, n>> \in gaveUp \/ exchange[c][n] \in Turned

(* The last attempt of an answered call. *)
Concluded ==
    \A c \in Calls, n \in Attempts : pc[c] = "done" /\ n = tries[c] =>
        \/ <<c, n>> \in gaveUp
        \/ exchange[c][n] \in Turned \cup Unreadable
        \/ exchange[c][n] = Accepted("job") /\ (request[c].op \in Writes => handle[c] = <<c, n>>)

IInv == /\ TypeOK /\ Counting /\ Admission /\ Backed /\ Settled /\ Concluded
        /\ OnlyAuthorized /\ UnavailableIsReal

(* The handlers refuse with a code, and let through only admitted requests. *)
LEMMA RefusalSays ==
    ASSUME NEW r, r.op \in Ops
    PROVE  /\ Refusal(r) \in Codes
           /\ Refusal(r) = "none" => Admitted(r)
           /\ Refusal(r) = "DAEMON_UNAVAILABLE" => ~control
BY DEF Refusal, ReconcileRefusal, VerifyRefusal, FreshRefusal, JobRefusal, ThenControl,
       Require, Admitted, Ops, Writes, Codes, CanonicalCodes

(* The kinds of answer are told apart by their status and their body. *)
LEMMA AnswerKinds ==
    /\ Unsent \notin Answers /\ Sent \notin Answers /\ Unsent # Sent
    /\ \A a \in Queueing \cup {Accepted("plain")} : ~(a.status >= 400)
    /\ \A a \in Queueing : a # Accepted("plain")
    /\ Accepted("job") \notin Unreadable /\ Accepted("garbled") # Accepted("unusable")
    /\ \A a \in Turned \ {Accepted("plain")} :
          a.status >= 400 /\ a.body \in CanonicalCodes \cup {"none"}
    /\ \A a \in Answers : a \in Queueing \/ a \in Turned
    /\ Queueing \cup Turned \subseteq Answers
<1>1. \A c \in Calls : Refusals[c] \subseteq RefusalType
    BY DelegationAssumption
<1>2. \A a \in RefusalType : /\ a.status >= 400 /\ a.status \in Nat
                             /\ a.body \in CanonicalCodes \cup {"none"}
    BY DEF RefusalType
<1>3. JobNotFound.status = 404 /\ JobNotFound.body = "NOT_FOUND"
    BY DEF JobNotFound
<1>4. \A b : Accepted(b).status = 200 /\ Accepted(b).body = b
    BY DEF Accepted
<1>5. Unsent.status = 0 /\ Sent.status = 0 /\ Unsent.body = "unsent" /\ Sent.body = "sent"
    BY DEF Unsent, Sent
<1>6. \A a \in Queueing \cup {Accepted("plain")} : a.status = 200
    BY <1>4 DEF Queueing, Unreadable
<1>7. \A a \in Turned \ {Accepted("plain")} :
          a.status >= 400 /\ a.status # 0 /\ a.body \in CanonicalCodes \cup {"none"}
    BY <1>1, <1>2, <1>3 DEF Turned, CanonicalCodes
<1>8. /\ \A a \in Answers : a \in Queueing \/ a \in Turned
      /\ Queueing \cup Turned \subseteq Answers
    BY DEF Answers, Queueing, Turned, Unreadable
<1>9. \A a \in Queueing : a.body # "plain"
    BY <1>4 DEF Queueing, Unreadable
<1> QED BY <1>4, <1>5, <1>6, <1>7, <1>8, <1>9 DEF Unreadable

(* An answer that turns a request away queues nothing. *)
LEMMA TurnedQueueNothing == \A a \in Queueing : a \notin Turned
BY AnswerKinds

(* The code of an error is a canonical one. *)
LEMMA ErrorType ==
    ASSUME NEW a \in Turned \ {Accepted("plain")}
    PROVE  /\ ErrorOf(a) \in CanonicalCodes
           /\ ErrorOf(a) = "DAEMON_UNAVAILABLE" => DaemonSaysSo(a)
<1>1. a.status >= 400 /\ a.body \in CanonicalCodes \cup {"none"}
    BY AnswerKinds
<1>2. \A s \in DOMAIN StatusCodeFallback :
          StatusCodeFallback[s] \in CanonicalCodes \ {"DAEMON_UNAVAILABLE"}
    BY DEF StatusCodeFallback, CanonicalCodes
<1>3. "DAEMON_UNAVAILABLE" \in CanonicalCodes /\ "none" \notin CanonicalCodes
    BY DEF CanonicalCodes
<1> HIDE DEF CanonicalCodes
<1>4. CASE a.body # "none"
    BY <1>1, <1>4 DEF ErrorOf, DaemonSaysSo
<1>5. CASE a.body = "none" /\ a.status \in DOMAIN StatusCodeFallback
    BY <1>2, <1>5 DEF ErrorOf
<1>6. CASE a.body = "none" /\ a.status \notin DOMAIN StatusCodeFallback
    BY <1>1, <1>3, <1>6 DEF ErrorOf, DaemonSaysSo
<1> QED BY <1>4, <1>5, <1>6

(* Calls and attempts name the jobs they queue. *)
LEMMA Pairs ==
    /\ \A c \in Calls, n \in Attempts : <<c, n>> \in Jobs /\ <<c, n>> \in NewJobs
    /\ \A j \in NewJobs : j[1] \in Calls /\ j[2] \in Attempts /\ j = <<j[1], j[2]>>
    /\ \A j \in Jobs : j \in OldJobs \/ j \in NewJobs
BY DEF Jobs, NewJobs

(* There is at least one attempt. *)
LEMMA MaxIsNat == MaxAttempts \in Nat /\ MaxAttempts > 0
<1>1. MaxAttempts \in Nat \ {0}
    BY DelegationAssumption, Zenon
<1> QED BY <1>1

(* Attempts are counted from one to max_attempts. *)
LEMMA AttemptIsNat == \A n \in Attempts : n \in Nat /\ n > 0 /\ n <= MaxAttempts
BY MaxIsNat DEF Attempts

(* A queued job is none of the old ones. *)
LEMMA JobKinds == NoJob \notin Jobs /\ \A j \in NewJobs : j \notin OldJobs
<1>1. OldJobs \cap NewJobs = {} /\ NoJob \notin Jobs
    BY DelegationAssumption, Zenon
<1> QED BY <1>1

(* A request's operation is one of the five, and its target is a job. *)
LEMMA RequestType ==
    ASSUME TypeOK, NEW c \in Calls PROVE request[c].op \in Ops /\ request[c].target \in Jobs
<1>1. request[c] \in Requests[c]
    BY DEF TypeOK
<1>2. Requests[c] \subseteq [op : Ops, caps : SUBSET Caps, sees : SUBSET Solutions,
                             solution : Solutions, target : Jobs]
    BY DelegationAssumption
<1> QED BY <1>1, <1>2

(* The invariant holds before the first request is sent. *)
LEMMA Initially == Init => IInv
<1> SUFFICES ASSUME Init PROVE IInv
    OBVIOUS
<1>1. TypeOK
  <2>1. control \in BOOLEAN /\ gaveUp \subseteq NewJobs
    BY DEF Init
  <2>2. /\ request \in [Calls -> AnyRequest]
        /\ \A c \in Calls : request[c] \in Requests[c]
    BY DEF Init
  <2>3. pc \in [Calls -> {"new", "send", "wait", "done"}]
    BY DEF Init
  <2>7. 0 \in 0..MaxAttempts
    BY MaxIsNat
  <2>8. tries \in [Calls -> 0..MaxAttempts]
    BY <2>7 DEF Init
  <2>4. exchange \in [Calls -> [Attempts -> Exchanges]]
    BY DEF Init, Exchanges
  <2>5. code \in [Calls -> Codes] /\ handle \in [Calls -> Jobs \cup {NoJob}]
    BY DEF Init, Codes
  <2>6. job \in [Jobs -> JobStates]
    BY DEF Init, JobStates
  <2> QED BY <2>1, <2>2, <2>3, <2>4, <2>5, <2>6, <2>8 DEF TypeOK
<1>2. /\ \A c \in Calls : pc[c] = "new" /\ tries[c] = 0 /\ code[c] = "none"
      /\ \A c \in Calls, n \in Attempts : exchange[c][n] = Unsent
    BY DEF Init
<1>3. /\ \A j \in NewJobs : job[j] = "none"
      /\ \A j \in Jobs : job[j] # "cancelled"
    BY Pairs, JobKinds DEF Init
<1>4. /\ Counting /\ Admission
    BY <1>2, MaxIsNat DEF Counting, Admission
<1>7. \A c \in Calls, n \in Attempts : ~(n < tries[c]) /\ pc[c] # "send" /\ pc[c] # "done"
    BY <1>2, AttemptIsNat
<1>8. Settled /\ Concluded
    BY <1>7, Zenon DEF Settled, Concluded
<1>5. UnavailableIsReal
    BY <1>2 DEF UnavailableIsReal
<1>6. Backed /\ OnlyAuthorized
    BY <1>3, Pairs DEF Backed, OnlyAuthorized
<1> QED BY <1>1, <1>4, <1>5, <1>6, <1>8 DEF IInv

-----------------------------------------------------------------------------
(* The handlers, before and between attempts. *)

(* A handler authorizes its call, or refuses it before anything is sent. *)
LEMMA AdmitInv == ASSUME IInv, NEW c \in Calls, Admit(c) PROVE IInv'
<1> USE DEF IInv
<1>0. /\ Refusal(request[c]) \in Codes
      /\ Refusal(request[c]) = "none" => Admitted(request[c])
      /\ Refusal(request[c]) = "DAEMON_UNAVAILABLE" => ~control
    BY RefusalSays, RequestType
<1>1. TypeOK'
    BY <1>0 DEF Admit, Finish, TypeOK
<1>2. Counting'
    BY MaxIsNat DEF Admit, Finish, TypeOK, Counting
<1>3. Admission'
    BY <1>0 DEF Admit, Finish, TypeOK, Admission, Admitted
<1>4. Backed'
    BY DEF Admit, Backed
<1>5. Settled'
    BY <1>2, AttemptIsNat DEF Admit, Finish, TypeOK, Settled, Counting
<1>6. Concluded'
    BY AttemptIsNat DEF Admit, Finish, TypeOK, Concluded, Counting
<1>7. OnlyAuthorized'
    BY DEF Admit, OnlyAuthorized
<1>8. UnavailableIsReal'
    BY <1>0 DEF Admit, Finish, TypeOK, UnavailableIsReal, Counting, Answer
<1> QED BY <1>1, <1>2, <1>3, <1>4, <1>5, <1>6, <1>7, <1>8

(* The client sends the next attempt. *)
LEMMA SendInv == ASSUME IInv, NEW c \in Calls, Send(c) PROVE IInv'
<1> USE DEF IInv
<1>0. tries[c] + 1 \in Attempts /\ tries[c] \in Nat /\ exchange[c][tries[c] + 1] = Unsent
  <2>1. tries[c] \in 0..MaxAttempts /\ tries[c] < MaxAttempts
    BY DEF Send, TypeOK, Counting
  <2>2. tries[c] \in Nat /\ tries[c] + 1 \in Attempts /\ tries[c] + 1 > tries[c]
    BY <2>1, MaxIsNat DEF Attempts
  <2>3. exchange[c][tries[c] + 1] = Unsent
    BY <2>2 DEF Counting
  <2> QED BY <2>2, <2>3
<1>1. TypeOK'
    BY <1>0, MaxIsNat DEF Send, TypeOK, Exchanges, Attempts
<1>2. Counting'
    BY <1>0, MaxIsNat, AttemptIsNat DEF Send, TypeOK, Counting
<1>3. Admission'
    BY <1>0 DEF Send, TypeOK, Admission, Admitted
<1>4. Backed'
    BY <1>0, AnswerKinds DEF Send, TypeOK, Backed
<1>5. Settled'
  <2> SUFFICES ASSUME NEW d \in Calls, NEW n \in Attempts,
                      n < tries'[d] \/ (n = tries'[d] /\ pc'[d] = "send")
               PROVE  <<d, n>> \in gaveUp \/ exchange'[d][n] \in Turned
    BY DEF Settled, Send
  <2>1. CASE d = c
    <3>0. tries'[c] = tries[c] + 1 /\ pc'[c] = "wait" /\ pc[c] = "send" /\ n \in Nat
        BY AttemptIsNat DEF Send, TypeOK
    <3>1. (n < tries[c] \/ n = tries[c]) /\ pc[c] = "send"
        BY <1>0, <2>1, <3>0
    <3>2. exchange'[c][n] = exchange[c][n]
        BY <1>0, <3>0, <3>1 DEF Send, TypeOK
    <3> QED BY <2>1, <3>1, <3>2 DEF Settled
  <2>2. CASE d # c
    <3>1. tries'[d] = tries[d] /\ pc'[d] = pc[d] /\ exchange'[d] = exchange[d]
        BY <2>2 DEF Send, TypeOK
    <3> QED BY <3>1 DEF Settled
  <2> QED BY <2>1, <2>2
<1>6. Concluded'
    BY <1>0, AttemptIsNat DEF Send, TypeOK, Concluded
<1>7. OnlyAuthorized'
    BY DEF Send, OnlyAuthorized
<1>8. UnavailableIsReal'
    BY <1>0 DEF Send, TypeOK, Counting, UnavailableIsReal, Answer
<1> QED BY <1>1, <1>2, <1>3, <1>4, <1>5, <1>6, <1>7, <1>8

(* What a step of the client that ends an attempt leaves as it was. *)
Frame == UNCHANGED <<control, request, tries, exchange, job>>

(* Going round again keeps the invariant when the attempt is accounted for. *)
LEMMA AgainInv ==
    ASSUME IInv, NEW c \in Calls, NEW said, AgainOr(c, said), pc[c] = "wait",
           said \in Codes, Frame, gaveUp \subseteq gaveUp', gaveUp' \subseteq NewJobs,
           <<c, tries[c]>> \in gaveUp' \/ exchange[c][tries[c]] \in Turned,
           said = "DAEMON_UNAVAILABLE" =>
              <<c, tries[c]>> \in gaveUp' \/ DaemonSaysSo(Answer(c))
    PROVE  IInv'
<1> USE DEF IInv, Frame
<1>0. tries[c] \in Attempts
    BY MaxIsNat DEF TypeOK, Counting, Attempts
<1>1. TypeOK'
    BY DEF AgainOr, Finish, TypeOK
<1>2. Counting'
    BY <1>0, AttemptIsNat DEF AgainOr, Finish, TypeOK, Counting
<1>3. Admission'
    BY DEF AgainOr, Finish, TypeOK, Admission, Admitted
<1>4. Backed' /\ OnlyAuthorized'
    BY DEF Backed, OnlyAuthorized
<1>5. Settled'
    BY DEF AgainOr, Finish, TypeOK, Settled
<1>6. CASE pc' = [pc EXCEPT ![c] = "send"] /\ UNCHANGED <<code, handle>>
  <2>1. Concluded'
    BY <1>6 DEF TypeOK, Concluded
  <2>2. UnavailableIsReal'
    BY <1>6 DEF UnavailableIsReal, Answer
  <2> QED BY <2>1, <2>2, <1>1, <1>2, <1>3, <1>4, <1>5
<1>7. CASE tries[c] = MaxAttempts /\ Finish(c, said, NoJob)
  <2>1. Concluded'
    BY <1>7 DEF Finish, TypeOK, Concluded
  <2>2. UnavailableIsReal'
    BY <1>0, <1>7, AttemptIsNat DEF Finish, TypeOK, UnavailableIsReal, Answer
  <2> QED BY <2>1, <2>2, <1>1, <1>2, <1>3, <1>4, <1>5
<1> QED BY <1>6, <1>7 DEF AgainOr

(* An attempt times out (httpx.TransportError in _request). *)
LEMMA GiveUpInv == ASSUME IInv, NEW c \in Calls, GiveUp(c) PROVE IInv'
<1>1. tries[c] \in Attempts
    BY MaxIsNat DEF IInv, GiveUp, TypeOK, Counting, Attempts
<1>2. gaveUp' \subseteq NewJobs
    BY <1>1, Pairs DEF IInv, TypeOK, GiveUp
<1> QED BY <1>2, AgainInv DEF GiveUp, Codes, CanonicalCodes, Frame

(* An error status is read from an answer that turns the request away, and *)
(* its code is canonical.                                                  *)
LEMMA RefusalRead ==
    ASSUME IInv, NEW c \in Calls, pc[c] = "wait", Answer(c).status >= 400
    PROVE  /\ Answer(c) \in Turned \ {Accepted("plain")}
           /\ ErrorOf(Answer(c)) \in CanonicalCodes
           /\ ErrorOf(Answer(c)) = "DAEMON_UNAVAILABLE" => DaemonSaysSo(Answer(c))
<1>1. Answer(c) \in Exchanges
  <2>1. tries[c] \in Attempts
    BY MaxIsNat DEF IInv, TypeOK, Counting, Attempts
  <2> QED BY <2>1 DEF IInv, TypeOK, Answer
<1>2. Unsent.status = 0 /\ Sent.status = 0 /\ Accepted("plain").status = 200
    BY DEF Unsent, Sent, Accepted
<1>3. Answer(c) \in Answers /\ Answer(c) # Accepted("plain")
    BY <1>1, <1>2 DEF Exchanges
<1>4. Answer(c) \in Turned \ {Accepted("plain")}
    BY <1>3, AnswerKinds
<1> QED BY <1>4, ErrorType

(* The codes of errors are codes. *)
LEMMA CodesAre == CanonicalCodes \subseteq Codes /\ {"OK", "none"} \cap CanonicalCodes = {}
BY DEF Codes, CanonicalCodes

(* 429 or 503 arrives: another attempt, or the last answer is raised as itself. *)
LEMMA ReceiveBusyInv == ASSUME IInv, NEW c \in Calls, ReceiveBusy(c) PROVE IInv'
<1> DEFINE said == ErrorOf(Answer(c))
<1>0. pc[c] = "wait" /\ Answer(c).status >= 400
    BY DEF ReceiveBusy, RetryStatuses
<1>1. said \in Codes /\ (said = "DAEMON_UNAVAILABLE" => DaemonSaysSo(Answer(c)))
    BY <1>0, RefusalRead, CodesAre
<1>2. AgainOr(c, said) /\ exchange[c][tries[c]] \in Turned
    BY <1>0, RefusalRead DEF ReceiveBusy, Answer
<1>3. gaveUp' = gaveUp /\ gaveUp \subseteq NewJobs /\ Frame /\ pc[c] = "wait"
    BY DEF ReceiveBusy, IInv, TypeOK, Frame
<1> HIDE DEF said
<1> QED BY <1>1, <1>2, <1>3, AgainInv

(* An answer that ends the call keeps the invariant when the code and the  *)
(* handle fit it.                                                          *)
LEMMA FinishInv ==
    ASSUME IInv, NEW c \in Calls, NEW said \in Codes, NEW j \in Jobs \cup {NoJob},
           Finish(c, said, j), pc[c] = "wait", Frame, gaveUp' = gaveUp,
           \/ exchange[c][tries[c]] \in Turned \cup Unreadable
           \/ /\ exchange[c][tries[c]] = Accepted("job")
              /\ request[c].op \in Writes => j = <<c, tries[c]>>,
           said = "DAEMON_UNAVAILABLE" =>
              \/ Answer(c) = Accepted("garbled")
              \/ Answer(c) = Accepted("unusable") /\ request[c].op # "fresh"
              \/ DaemonSaysSo(Answer(c))
    PROVE  IInv'
<1> USE DEF IInv, Frame
<1>0. tries[c] \in Attempts
    BY MaxIsNat DEF TypeOK, Counting, Attempts
<1>1. TypeOK'
    BY DEF Finish, TypeOK
<1>2. Counting'
    BY <1>0, AttemptIsNat DEF Finish, TypeOK, Counting
<1>3. Admission'
    BY DEF Finish, TypeOK, Admission, Admitted
<1>4. Backed' /\ OnlyAuthorized'
    BY DEF Backed, OnlyAuthorized
<1>5. Settled'
    BY DEF Finish, TypeOK, Settled
<1>6. Concluded'
    BY DEF Finish, TypeOK, Concluded
<1>8. UnavailableIsReal'
    BY <1>0 DEF Finish, TypeOK, Counting, UnavailableIsReal, Answer
<1> QED BY <1>1, <1>2, <1>3, <1>4, <1>5, <1>6, <1>8

(* Another error status arrives. *)
LEMMA ReceiveRefusalInv == ASSUME IInv, NEW c \in Calls, ReceiveRefusal(c) PROVE IInv'
<1>1. /\ exchange[c][tries[c]] \in Turned /\ ErrorOf(Answer(c)) \in Codes
      /\ ErrorOf(Answer(c)) = "DAEMON_UNAVAILABLE" => DaemonSaysSo(Answer(c))
    BY RefusalRead, CodesAre DEF ReceiveRefusal, Answer
<1> QED BY <1>1, FinishInv DEF ReceiveRefusal, Frame

(* A body that is no JSON object arrives. *)
LEMMA ReceiveGarbledInv == ASSUME IInv, NEW c \in Calls, ReceiveGarbled(c) PROVE IInv'
<1>1. exchange[c][tries[c]] \in Unreadable /\ "DAEMON_UNAVAILABLE" \in Codes
    BY DEF ReceiveGarbled, Answer, Unreadable, Codes, CanonicalCodes
<1> QED BY <1>1, FinishInv DEF ReceiveGarbled, Frame

(* The handle of an attempt that was answered is a job or none. *)
LEMMA HandleType ==
    ASSUME IInv, NEW c \in Calls, pc[c] = "wait"
    PROVE  Handle(c) \in Jobs \cup {NoJob}
<1>1. tries[c] \in Attempts
    BY MaxIsNat DEF IInv, TypeOK, Counting, Attempts
<1> QED BY <1>1, Pairs DEF Handle

(* What a writing handler makes of an object. *)
LEMMA ObjectInv ==
    ASSUME IInv, NEW c \in Calls, pc[c] = "wait", NEW said \in Codes, Frame, gaveUp' = gaveUp,
           \/ /\ Answer(c) \in Readable \cup {Accepted("unusable")}
              /\ Finish(c, said, Handle(c)) /\ said # "DAEMON_UNAVAILABLE"
           \/ /\ Answer(c) = Accepted("unusable") /\ request[c].op # "fresh"
              /\ Finish(c, said, NoJob)
    PROVE  IInv'
<1>1. Handle(c) \in Jobs \cup {NoJob} /\ (Answer(c) = Accepted("job") => Handle(c) = <<c, tries[c]>>)
    BY HandleType DEF Handle
<1>2. Accepted("plain") \in Turned /\ Accepted("unusable") \in Unreadable
    BY DEF Turned, Unreadable
<1>3. CASE /\ Answer(c) \in Readable \cup {Accepted("unusable")}
           /\ Finish(c, said, Handle(c)) /\ said # "DAEMON_UNAVAILABLE"
    BY <1>1, <1>2, <1>3, FinishInv DEF Answer, Readable
<1>4. CASE /\ Answer(c) = Accepted("unusable") /\ request[c].op # "fresh"
           /\ Finish(c, said, NoJob)
    BY <1>2, <1>4, FinishInv DEF Answer
<1> QED BY <1>3, <1>4

(* The codes that the handlers give. *)
LEMMA HandlerCodes == {"OK", "NOT_READY", "NOT_FOUND", "DAEMON_UNAVAILABLE"} \subseteq Codes
BY DEF Codes, CanonicalCodes

(* graph_reconcile reads its answer. *)
LEMMA ReceiveReconcileInv == ASSUME IInv, NEW c \in Calls, ReceiveReconcile(c) PROVE IInv'
BY HandlerCodes, ObjectInv DEF ReceiveReconcile, Frame

(* graph_verify reads its answer. *)
LEMMA ReceiveVerifyInv == ASSUME IInv, NEW c \in Calls, ReceiveVerify(c) PROVE IInv'
BY HandlerCodes, ObjectInv DEF ReceiveVerify, Frame

(* graph_query's require_fresh reads its answer. *)
LEMMA ReceiveFreshInv == ASSUME IInv, NEW c \in Calls, ReceiveFresh(c) PROVE IInv'
BY HandlerCodes, ObjectInv DEF ReceiveFresh, Frame

(* graph_job reads its answer and checks its scope again. *)
LEMMA ReceiveJobInv == ASSUME IInv, NEW c \in Calls, ReceiveJob(c) PROVE IInv'
<1>1. request[c].target \in Jobs /\ request[c].op \notin Writes
    BY RequestType DEF ReceiveJob, IInv, Writes
<1>2. CASE Answer(c) = Accepted("job") /\ Finish(c, "OK", request[c].target)
    BY <1>1, <1>2, HandlerCodes, FinishInv DEF ReceiveJob, Answer, Frame
<1>3. CASE Answer(c) = Accepted("job") /\ Finish(c, "NOT_FOUND", NoJob)
    BY <1>1, <1>3, HandlerCodes, FinishInv DEF ReceiveJob, Answer, Frame
<1>4. CASE Answer(c) = Accepted("unusable") /\ Finish(c, "DAEMON_UNAVAILABLE", NoJob)
    BY <1>1, <1>4, HandlerCodes, ObjectInv DEF ReceiveJob, Frame, Writes
<1> QED BY <1>2, <1>3, <1>4 DEF ReceiveJob

-----------------------------------------------------------------------------
(* graphd answers; the attempt it answers may have been given up. *)

(* An answer of the daemon that leaves the jobs in order keeps the invariant. *)
LEMMA ReplyInv ==
    ASSUME IInv, NEW c \in Calls, NEW n \in Attempts,
           NEW a \in Answers, Reply(c, n, a),
           job' \in [Jobs -> JobStates], Backed', OnlyAuthorized'
    PROVE  IInv'
<1> USE DEF IInv
<1>0. /\ exchange[c][n] = Sent /\ exchange'[c][n] = a /\ exchange[c][n] # Unsent
      /\ exchange[c][n] \notin Turned \cup Queueing
      /\ \A d \in Calls, m \in Attempts : d # c \/ m # n => exchange'[d][m] = exchange[d][m]
    BY AnswerKinds DEF Reply, TypeOK
<1>1. TypeOK'
    BY DEF Reply, TypeOK, Exchanges
<1>2. Counting'
    BY <1>0 DEF Reply, Counting
<1>3. Admission'
    BY <1>0 DEF Reply, Admission, Admitted
<1>4. Settled'
    BY <1>0 DEF Reply, Settled
<1>5. Concluded'
    BY <1>0 DEF Reply, Concluded, Queueing
<1>6. UnavailableIsReal'
  <2> DEFINE Cause(e, d) == \/ e = Accepted("garbled")
                            \/ e = Accepted("unusable") /\ request[d].op # "fresh"
                            \/ DaemonSaysSo(e)
  <2> SUFFICES ASSUME NEW d \in Calls, code[d] = "DAEMON_UNAVAILABLE"
               PROVE  \/ ~control /\ tries[d] = 0
                      \/ tries[d] = MaxAttempts /\ <<d, tries[d]>> \in gaveUp
                      \/ tries[d] > 0 /\ Cause(exchange'[d][tries[d]], d)
    BY DEF UnavailableIsReal, Reply, Answer
  <2>1. ~Cause(Sent, d)
    BY DEF Sent, Accepted, DaemonSaysSo
  <2>2. CASE tries[d] > 0 /\ Cause(exchange[d][tries[d]], d)
    <3>1. tries[d] \in Attempts
        BY <2>2, MaxIsNat DEF TypeOK, Attempts
    <3>2. exchange[d][tries[d]] # Sent
        BY <2>1, <2>2
    <3> HIDE DEF Cause
    <3>3. exchange'[d][tries[d]] = exchange[d][tries[d]]
        BY <1>0, <3>1, <3>2
    <3> QED BY <2>2, <3>3
  <2>3. \/ ~control /\ tries[d] = 0
        \/ tries[d] = MaxAttempts /\ <<d, tries[d]>> \in gaveUp
        \/ tries[d] > 0 /\ Cause(exchange[d][tries[d]], d)
    BY DEF UnavailableIsReal, Answer
  <2> QED BY <2>2, <2>3
<1> QED BY <1>1, <1>2, <1>3, <1>4, <1>5, <1>6

(* An attempt that graphd has not answered has queued nothing. *)
LEMMA SentMadeNothing ==
    ASSUME IInv, NEW c \in Calls, NEW n \in Attempts, exchange[c][n] = Sent
    PROVE  job[<<c, n>>] = "none" /\ Admitted(request[c])
BY AnswerKinds DEF IInv, Backed, Admission

(* Answering one attempt disturbs what backs the jobs of no other. *)
LEMMA ReplyBacked ==
    ASSUME IInv, NEW c \in Calls, NEW n \in Attempts, NEW a, Reply(c, n, a),
           \A j \in NewJobs : job'[j] # "none" =>
              job[j] # "none" \/ (j = <<c, n>> /\ a \in Queueing
                                   /\ request[c].op \in Writes)
    PROVE  Backed'
<1> SUFFICES ASSUME NEW d \in Calls, NEW m \in Attempts, job'[<<d, m>>] # "none"
             PROVE  exchange'[d][m] \in Queueing /\ request[d].op \in Writes
    BY DEF Backed, Reply
<1>0. /\ exchange[c][n] = Sent /\ exchange'[c][n] = a
      /\ (d # c \/ m # n => exchange'[d][m] = exchange[d][m])
    BY DEF Reply, IInv, TypeOK
<1>1. CASE d = c /\ m = n
    BY <1>0, <1>1, Pairs, SentMadeNothing
<1>2. CASE d # c \/ m # n
  <2>1. <<d, m>> \in NewJobs /\ <<d, m>> # <<c, n>>
    BY <1>2, Pairs
  <2> QED BY <1>0, <1>2, <2>1 DEF IInv, Backed
<1> QED BY <1>1, <1>2

(* The daemon answers with an error. *)
LEMMA DaemonRefusesInv ==
    ASSUME IInv, NEW c \in Calls, NEW n \in Attempts, DaemonRefuses(c, n) PROVE IInv'
<1>1. PICK a \in Refusals[c] : Reply(c, n, a)
    BY DEF DaemonRefuses
<1>2. job' = job
    BY DEF DaemonRefuses
<1>3. Backed'
    BY <1>1, <1>2, ReplyBacked
<1>4. OnlyAuthorized'
    BY <1>1, <1>2 DEF IInv, OnlyAuthorized, Reply
<1>5. a \in Answers /\ job' \in [Jobs -> JobStates]
    BY <1>2 DEF Answers, IInv, TypeOK
<1> QED BY <1>1, <1>3, <1>4, <1>5, ReplyInv

(* The daemon answers with a publication that already exists. *)
LEMMA DaemonSatisfiesInv ==
    ASSUME IInv, NEW c \in Calls, NEW n \in Attempts, DaemonSatisfies(c, n) PROVE IInv'
<1>1. PICK a \in {Accepted("plain")} \cup Unreadable : Reply(c, n, a)
    BY DEF DaemonSatisfies
<1>2. job' = job
    BY DEF DaemonSatisfies
<1>3. Backed'
    BY <1>1, <1>2, ReplyBacked
<1>4. OnlyAuthorized'
    BY <1>1, <1>2 DEF IInv, OnlyAuthorized, Reply
<1>5. a \in Answers /\ job' \in [Jobs -> JobStates]
    BY <1>2 DEF Answers, IInv, TypeOK
<1> QED BY <1>1, <1>3, <1>4, <1>5, ReplyInv

(* An admitted write holds the capability that it needs. *)
LEMMA AdmittedMayWrite ==
    ASSUME NEW r, Admitted(r), r.op \in Writes
    PROVE  control /\ Mutation(r.op) \in r.caps /\ r.solution \in r.sees \cap Registered
BY DEF Admitted, Mutation, Writes

(* The daemon queues the job of an attempt. *)
LEMMA DaemonEnqueuesInv ==
    ASSUME IInv, NEW c \in Calls, NEW n \in Attempts, DaemonEnqueues(c, n) PROVE IInv'
<1>1. PICK a \in Queueing : Reply(c, n, a)
    BY DEF DaemonEnqueues, Queueing
<1>2. /\ job' = [job EXCEPT ![<<c, n>>] = "open"] /\ request[c].op \in Writes
      /\ <<c, n>> \in Jobs /\ <<c, n>> \in NewJobs
    BY Pairs DEF DaemonEnqueues
<1>3. /\ job'[<<c, n>>] = "open"
      /\ \A j \in Jobs : j # <<c, n>> => job'[j] = job[j]
    BY <1>2 DEF IInv, TypeOK
<1>4. Backed'
    BY <1>1, <1>2, <1>3, Pairs, ReplyBacked DEF Jobs
<1>5. OnlyAuthorized'
  <2>1. control' = control /\ request' = request
    BY <1>1 DEF Reply
  <2>2. Admitted(request[c])
    BY <1>1, SentMadeNothing DEF Reply
  <2>3. ASSUME NEW k \in NewJobs, job'[k] # "none"
        PROVE  LET r == request[k[1]]
               IN control /\ Mutation(r.op) \in r.caps /\ r.solution \in r.sees \cap Registered
    <3>1. CASE k = <<c, n>>
        BY <1>2, <2>2, <3>1, AdmittedMayWrite
    <3>2. CASE k # <<c, n>>
        BY <1>3, <2>3, <3>2 DEF IInv, OnlyAuthorized, Jobs
    <3> QED BY <3>1, <3>2
  <2>4. ASSUME NEW j \in Jobs, job'[j] = "cancelled"
        PROVE  \E d \in Calls : /\ request[d].op = "cancel" /\ request[d].target = j
                                /\ "reconcile" \in request[d].caps
    BY <1>3, <2>4 DEF IInv, OnlyAuthorized
  <2> QED BY <2>1, <2>3, <2>4 DEF OnlyAuthorized
<1>6. a \in Answers /\ job' \in [Jobs -> JobStates]
    BY <1>2, AnswerKinds DEF JobStates, IInv, TypeOK
<1> QED BY <1>1, <1>4, <1>5, <1>6, ReplyInv

(* The daemon finds the job of a graph_job call, and cancels it if asked to. *)
LEMMA DaemonFindsJobInv ==
    ASSUME IInv, NEW c \in Calls, NEW n \in Attempts, DaemonFindsJob(c, n) PROVE IInv'
<1> DEFINE t == request[c].target
<1>1. t \in Jobs
    BY RequestType DEF IInv
<1>2. PICK a \in Queueing \cup {JobNotFound} : Reply(c, n, a)
    BY DEF DaemonFindsJob, Queueing
<1>3. \/ job' = job
      \/ /\ job[t] = "open" /\ job' = [job EXCEPT ![t] = "cancelled"]
         /\ request[c].op = "cancel"
    BY DEF DaemonFindsJob
<1>4. /\ job' \in [Jobs -> JobStates]
      /\ \A j \in Jobs : (job'[j] # "none") => (job[j] # "none")
    BY <1>1, <1>3 DEF IInv, TypeOK, JobStates
<1>5. Backed'
    BY <1>2, <1>4, ReplyBacked DEF Jobs
<1>6. OnlyAuthorized'
  <2>1. control' = control /\ request' = request
    BY <1>2 DEF Reply
  <2>2. ASSUME NEW j \in Jobs, job'[j] = "cancelled"
        PROVE  \E d \in Calls : /\ request[d].op = "cancel" /\ request[d].target = j
                                /\ "reconcile" \in request[d].caps
    <3>1. CASE job[j] = "cancelled"
        BY <3>1 DEF IInv, OnlyAuthorized
    <3>2. CASE job[j] # "cancelled"
      <4>1. j = t /\ request[c].op = "cancel"
        BY <1>1, <1>3, <2>2, <3>2 DEF IInv, TypeOK
      <4>2. Admitted(request[c])
        BY <1>2, SentMadeNothing DEF Reply
      <4>3. "reconcile" \in request[c].caps
        BY <4>1, <4>2 DEF Admitted
      <4> QED BY <4>1, <4>3
    <3> QED BY <3>1, <3>2
  <2>3. \A k \in NewJobs : job'[k] # "none" => job[k] # "none"
    BY <1>4 DEF Jobs
  <2> QED BY <2>1, <2>2, <2>3 DEF IInv, OnlyAuthorized
<1>7. a \in Answers
    BY AnswerKinds DEF Turned
<1> QED BY <1>2, <1>4, <1>5, <1>6, <1>7, ReplyInv

(* A job moves on by itself. *)
LEMMA DaemonWorksInv == ASSUME IInv, NEW j \in Jobs, DaemonWorks(j) PROVE IInv'
<1> USE DEF IInv
<1>1. /\ TypeOK' /\ job[j] = "open" /\ job'[j] = "ended"
      /\ \A k \in Jobs : k # j => job'[k] = job[k]
    BY DEF DaemonWorks, TypeOK, JobStates
<1>2. Counting' /\ Settled' /\ Concluded' /\ UnavailableIsReal'
    BY DEF DaemonWorks, Counting, Settled, Concluded, UnavailableIsReal, Answer
<1>3. Admission'
    BY DEF DaemonWorks, Admission, Admitted
<1>4. Backed'
    BY <1>1, Pairs DEF DaemonWorks, Backed
<1>5. OnlyAuthorized'
    BY <1>1 DEF DaemonWorks, OnlyAuthorized, Jobs
<1> QED BY <1>1, <1>2, <1>3, <1>4, <1>5

(* Every step keeps the invariant. *)
LEMMA NextInv == IInv /\ [Next]_vars => IInv'
<1> SUFFICES ASSUME IInv, [Next]_vars PROVE IInv'
    OBVIOUS
<1>1. ASSUME NEW c \in Calls, Client(c) PROVE IInv'
    BY <1>1, AdmitInv, SendInv, GiveUpInv, ReceiveBusyInv, ReceiveRefusalInv,
       ReceiveGarbledInv, ReceiveReconcileInv, ReceiveVerifyInv, ReceiveFreshInv, ReceiveJobInv DEF Client, Receive
<1>2. ASSUME NEW c \in Calls, NEW n \in Attempts, Daemon(c, n) PROVE IInv'
    BY <1>2, DaemonRefusesInv, DaemonEnqueuesInv, DaemonSatisfiesInv, DaemonFindsJobInv
    DEF Daemon
<1>3. ASSUME NEW j \in Jobs, DaemonWorks(j) PROVE IInv'
    BY <1>3, DaemonWorksInv
<1>4. CASE UNCHANGED vars
    BY <1>4 DEF vars, IInv, TypeOK, Counting, Admission, Admitted, Backed, Settled, Concluded,
       OnlyAuthorized, UnavailableIsReal, Answer
<1> QED BY <1>1, <1>2, <1>3, <1>4 DEF Next

(* The inductive invariant. *)
THEOREM Invariance == Spec => []IInv
<1>1. Init => IInv
    BY Initially
<1>2. IInv /\ [Next]_vars => IInv'
    BY NextInv
<1> QED BY <1>1, <1>2, PTL DEF Spec

(* Every variable keeps its type, and no call makes more attempts than     *)
(* ControlClientSettings.max_attempts.                                     *)
THEOREM TypeCorrect == Spec => []TypeOK
<1>1. IInv => TypeOK
    BY DEF IInv
<1> QED BY <1>1, Invariance, PTL

(* graphd is asked to queue or to cancel work only for authorized callers, *)
(* whatever the number of calls and retries (ToolPrincipal.require before  *)
(* the control plane).                                                     *)
THEOREM Authorized == Spec => []OnlyAuthorized
<1>1. IInv => OnlyAuthorized
    BY DEF IInv
<1> QED BY <1>1, Invariance, PTL

(* _request queues a second job only where an answer was lost or unusable: *)
(* any other job that a call queued is the handle it answers with.         *)
THEOREM OrphansAreLosses == Spec => []NoOrphans
<1>1. IInv => NoOrphans
  <2> SUFFICES ASSUME IInv, NEW c \in Calls, NEW n \in Attempts, job[<<c, n>>] # "none"
               PROVE  \/ <<c, n>> \in gaveUp
                      \/ exchange[c][n] \in Unreadable
                      \/ n = tries[c] /\ pc[c] = "wait"
                      \/ n = tries[c] /\ handle[c] = <<c, n>>
    BY DEF NoOrphans
  <2>1. /\ exchange[c][n] \in Queueing /\ request[c].op \in Writes
        /\ exchange[c][n] # Unsent /\ exchange[c][n] \notin Turned
    BY AnswerKinds, TurnedQueueNothing DEF IInv, Backed
  <2>2. n \in Nat /\ n > 0 /\ tries[c] \in Nat
    BY AttemptIsNat, MaxIsNat DEF IInv, TypeOK
  <2>3. n < tries[c] \/ n = tries[c]
    BY <2>1, <2>2 DEF IInv, Counting
  <2>4. CASE n < tries[c]
    BY <2>1, <2>4 DEF IInv, Settled
  <2>5. CASE n = tries[c]
    <3>1. pc[c] \in {"new", "send", "wait", "done"}
        BY DEF IInv, TypeOK
    <3>2. CASE pc[c] = "new"
        BY <2>2, <2>5, <3>2 DEF IInv, Counting
    <3>3. CASE pc[c] = "send"
        BY <2>1, <2>5, <3>3 DEF IInv, Settled
    <3>4. CASE pc[c] = "wait"
        BY <2>5, <3>4
    <3>5. CASE pc[c] = "done"
        BY <2>1, <2>5, <3>5 DEF IInv, Concluded, Queueing
    <3> QED BY <3>1, <3>2, <3>3, <3>4, <3>5
  <2> QED BY <2>3, <2>4, <2>5
<1> QED BY <1>1, Invariance, PTL

(* _request and the handlers say DAEMON_UNAVAILABLE with one of its causes *)
(* only, and of silence only when all attempts are used up.                *)
THEOREM OutagesAreReal == Spec => []UnavailableIsReal
<1>1. IInv => UnavailableIsReal
    BY DEF IInv
<1> QED BY <1>1, Invariance, PTL

-----------------------------------------------------------------------------
(* What a caller is told of its work, over the invariant above. *)

(* A job answer is given only where graphd has the job, and no longer open *)
(* if it was to be cancelled.                                              *)
Heard ==
    \A c \in Calls, n \in Attempts :
        exchange[c][n] = Accepted("job") /\ request[c].op \in {"status", "cancel"} =>
            /\ job[request[c].target] # "none"
            /\ request[c].op = "cancel" => job[request[c].target] # "open"

(* The codes that do not say that nothing was queued. *)
LeavesOpen(op, said) == said \in {"OK", "DAEMON_UNAVAILABLE"} \/ (op = "fresh" /\ said = "NOT_READY")

(* A write whose answer may come with work, and was waited for, says so. *)
Told ==
    \A c \in Calls, n \in Attempts :
        pc[c] = "done" /\ n = tries[c] /\ <<c, n>> \notin gaveUp
        /\ exchange[c][n] \in Queueing /\ request[c].op \in Writes
        => LeavesOpen(request[c].op, code[c])

AnswersInv == IInv /\ Heard /\ Told /\ JobAnswersInScope

(* A step of a call changes nothing for another call or in graphd, and an  *)
(* answer that it ends with is the one that its last attempt got.          *)
Says(c) ==
    /\ job' = job /\ request' = request /\ pc[c] # "done"
    /\ \A d \in Calls \ {c} : /\ pc'[d] = pc[d] /\ code'[d] = code[d]
                              /\ handle'[d] = handle[d] /\ tries'[d] = tries[d]
                              /\ exchange'[d] = exchange[d]
    /\ gaveUp \subseteq gaveUp'
    /\ \A n \in Attempts : exchange'[c][n] \in {exchange[c][n], Sent}
    /\ \/ pc'[c] # "done" /\ code'[c] = code[c]
       \/ /\ pc'[c] = "done" /\ tries'[c] = tries[c] /\ exchange'[c] = exchange[c]
          /\ \/ tries[c] = 0
             \/ <<c, tries[c]>> \in gaveUp'
             \/ Answer(c) \notin Queueing \/ request[c].op \notin Writes
             \/ LeavesOpen(request[c].op, code'[c])
          /\ code'[c] = "OK" /\ request[c].op \in {"status", "cancel"} =>
               /\ pc[c] = "wait" /\ Answer(c) = Accepted("job") /\ handle'[c] = request[c].target
               /\ SolutionOf(request[c].target) \in request[c].sees \cap Registered

(* A call that is refused, or sends. *)
LEMMA AdmitSays == ASSUME IInv, NEW c \in Calls, Admit(c) PROVE Says(c)
<1>1. tries[c] = 0
    BY DEF Admit, IInv, Counting
<1>2. CASE Refusal(request[c]) # "none" /\ Finish(c, Refusal(request[c]), NoJob)
  <2>1. Refusal(request[c]) # "OK"
    BY RequestType DEF IInv, Ops, Writes, Refusal, ReconcileRefusal, VerifyRefusal, FreshRefusal,
       JobRefusal, ThenControl, Require
  <2> QED BY <1>1, <1>2, <2>1 DEF Admit, Finish, IInv, TypeOK, Says
<1>3. CASE pc' = [pc EXCEPT ![c] = "send"] /\ UNCHANGED <<code, handle>>
    BY <1>3 DEF Admit, IInv, TypeOK, Says
<1> QED BY <1>2, <1>3 DEF Admit

(* An attempt is on the wire, and nothing has come of it yet. *)
LEMMA SendSays == ASSUME IInv, NEW c \in Calls, Send(c) PROVE Says(c)
<1>1. exchange' = [exchange EXCEPT ![c] = [exchange[c] EXCEPT ![tries[c] + 1] = Sent]]
    BY DEF Send
<1>2. /\ \A d \in Calls \ {c} : exchange'[d] = exchange[d]
      /\ \A n \in Attempts : exchange'[c][n] \in {exchange[c][n], Sent}
    BY <1>1 DEF IInv, TypeOK
<1> QED BY <1>2 DEF Send, IInv, TypeOK, Says

(* An attempt that failed is tried again, or reported. *)
LEMMA AgainSays ==
    ASSUME IInv, NEW c \in Calls, NEW said, AgainOr(c, said), pc[c] = "wait", said # "OK",
           Frame, gaveUp \subseteq gaveUp',
           <<c, tries[c]>> \in gaveUp' \/ Answer(c) \notin Queueing
    PROVE  Says(c)
BY DEF AgainOr, Finish, Frame, IInv, TypeOK, Says

(* An answer that was read ends the call. *)
LEMMA FinishSays ==
    ASSUME IInv, NEW c \in Calls, NEW said, NEW j, Finish(c, said, j), pc[c] = "wait",
           Frame, gaveUp' = gaveUp,
           \/ Answer(c) \notin Queueing \/ request[c].op \notin Writes
           \/ LeavesOpen(request[c].op, said),
           said = "OK" /\ request[c].op \in {"status", "cancel"} =>
             /\ Answer(c) = Accepted("job") /\ j = request[c].target
             /\ SolutionOf(j) \in request[c].sees \cap Registered
    PROVE  Says(c)
BY DEF Finish, Frame, IInv, TypeOK, Says

(* Every step of a call says what it may. *)
LEMMA ClientSays == ASSUME IInv, NEW c \in Calls, Client(c) PROVE Says(c)
<1>1. CASE Admit(c)
    BY <1>1, AdmitSays
<1>2. CASE Send(c)
    BY <1>2, SendSays
<1>3. CASE GiveUp(c)
    BY <1>3, AgainSays DEF GiveUp, Frame
<1>4. CASE ReceiveBusy(c)
  <2>1. pc[c] = "wait" /\ Answer(c).status >= 400
    BY <1>4 DEF ReceiveBusy, RetryStatuses
  <2>2. Answer(c) \notin Queueing /\ ErrorOf(Answer(c)) # "OK"
    BY <2>1, RefusalRead, CodesAre, TurnedQueueNothing
  <2> QED BY <1>4, <2>2, AgainSays DEF ReceiveBusy, Frame
<1>5. CASE ReceiveRefusal(c)
  <2>1. pc[c] = "wait" /\ Answer(c).status >= 400
    BY <1>5 DEF ReceiveRefusal
  <2>2. Answer(c) \notin Queueing /\ ErrorOf(Answer(c)) # "OK"
    BY <2>1, RefusalRead, CodesAre, TurnedQueueNothing
  <2> QED BY <1>5, <2>2, FinishSays DEF ReceiveRefusal, Frame
<1>6. CASE ReceiveGarbled(c)
    BY <1>6, FinishSays DEF ReceiveGarbled, Frame, LeavesOpen
<1>7. CASE ReceiveReconcile(c) \/ ReceiveVerify(c)
    BY <1>7, FinishSays DEF ReceiveReconcile, ReceiveVerify, Frame, LeavesOpen
<1>8. CASE ReceiveFresh(c)
    BY <1>8, FinishSays DEF ReceiveFresh, Frame, LeavesOpen
<1>9. CASE ReceiveJob(c)
    BY <1>9, FinishSays DEF ReceiveJob, Frame, Writes
<1> QED BY <1>1, <1>2, <1>3, <1>4, <1>5, <1>6, <1>7, <1>8, <1>9 DEF Client, Receive

(* graphd never forgets a job, and one that has ended stays ended. *)
JobsMove ==
    \A j \in Jobs : /\ job[j] # "none" => job'[j] # "none"
                    /\ job[j] \notin {"none", "open"} => job'[j] \notin {"none", "open"}

(* What the daemon answers to a call of graph_job is what it then knows;   *)
(* no step of the daemon takes a step for a call.                          *)
Serves(c, n) ==
    /\ JobsMove
    /\ UNCHANGED <<request, pc, tries, gaveUp, code, handle>>
    /\ \A d \in Calls, m \in Attempts : d # c \/ m # n => exchange'[d][m] = exchange[d][m]
    /\ exchange[c][n] = Sent
    /\ exchange'[c][n] = Accepted("job") /\ request[c].op \in {"status", "cancel"} =>
         /\ job'[request[c].target] # "none"
         /\ request[c].op = "cancel" => job'[request[c].target] # "open"

(* What a reply alone changes. *)
LEMMA ReplyServes ==
    ASSUME IInv, NEW c \in Calls, NEW n \in Attempts, NEW a, Reply(c, n, a)
    PROVE  /\ UNCHANGED <<request, pc, tries, gaveUp, code, handle>>
           /\ \A d \in Calls, m \in Attempts : d # c \/ m # n => exchange'[d][m] = exchange[d][m]
           /\ exchange[c][n] = Sent /\ exchange'[c][n] = a
BY DEF Reply, IInv, TypeOK

(* Every answer of the daemon is served so. *)
LEMMA DaemonServes ==
    ASSUME IInv, NEW c \in Calls, NEW n \in Attempts, Daemon(c, n) PROVE Serves(c, n)
<1>1. CASE DaemonRefuses(c, n)
  <2>1. PICK a \in Refusals[c] : Reply(c, n, a)
    BY <1>1 DEF DaemonRefuses
  <2>2. a # Accepted("job") /\ job' = job
    BY <1>1, TurnedQueueNothing DEF DaemonRefuses, Turned, Queueing
  <2> QED BY <2>1, <2>2, ReplyServes DEF Serves, JobsMove
<1>2. CASE DaemonEnqueues(c, n)
  <2>1. PICK a : Reply(c, n, a)
    BY <1>2 DEF DaemonEnqueues
  <2>2. job[<<c, n>>] = "none" /\ <<c, n>> \in Jobs
    BY <2>1, ReplyServes, Pairs, SentMadeNothing
  <2>3. job' = [job EXCEPT ![<<c, n>>] = "open"] /\ request[c].op \in Writes
    BY <1>2 DEF DaemonEnqueues
  <2>4. JobsMove
    BY <2>2, <2>3 DEF IInv, TypeOK, JobsMove
  <2> QED BY <2>1, <2>3, <2>4, ReplyServes DEF Serves, Writes
<1>3. CASE DaemonSatisfies(c, n)
  <2>1. PICK a \in {Accepted("plain")} \cup Unreadable : Reply(c, n, a)
    BY <1>3 DEF DaemonSatisfies
  <2>2. job' = job /\ a # Accepted("job")
    BY <1>3, <2>1 DEF DaemonSatisfies, Accepted, Unreadable
  <2> QED BY <2>1, <2>2, ReplyServes DEF Serves, JobsMove
<1>4. CASE DaemonFindsJob(c, n)
  <2> DEFINE t == request[c].target
  <2>1. t \in Jobs
    BY RequestType DEF IInv
  <2>2. CASE job[t] = "none" /\ Reply(c, n, JobNotFound) /\ job' = job
    <3>1. JobNotFound # Accepted("job")
        BY DEF JobNotFound, Accepted
    <3> QED BY <2>2, <3>1, ReplyServes DEF Serves, JobsMove
  <2>3. CASE /\ job[t] # "none" /\ \E a \in {Accepted("job")} \cup Unreadable : Reply(c, n, a)
             /\ job' = IF request[c].op = "cancel" /\ job[t] = "open"
                       THEN [job EXCEPT ![t] = "cancelled"] ELSE job
    <3>1. PICK a : Reply(c, n, a)
        BY <2>3
    <3>2. JobsMove
        BY <2>1, <2>3 DEF IInv, TypeOK, JobsMove
    <3>3. job'[t] # "none" /\ (request[c].op = "cancel" => job'[t] # "open")
        BY <2>1, <2>3 DEF IInv, TypeOK
    <3> QED BY <3>1, <3>2, <3>3, ReplyServes DEF Serves
  <2> QED BY <1>4, <2>2, <2>3 DEF DaemonFindsJob
<1> QED BY <1>1, <1>2, <1>3, <1>4 DEF Daemon

(* What was found out about a job holds on while jobs only move on. *)
LEMMA HeardStays ==
    ASSUME IInv, NEW c \in Calls, JobsMove, request' = request,
           job[request[c].target] # "none",
           request[c].op = "cancel" => job[request[c].target] # "open"
    PROVE  /\ job'[request[c].target] # "none"
           /\ request[c].op = "cancel" => job'[request[c].target] # "open"
<1> DEFINE t == request[c].target
<1>1. t \in Jobs
    BY RequestType DEF IInv
<1> HIDE DEF t
<1>2. /\ job[t] # "none" => job'[t] # "none"
      /\ job[t] \notin {"none", "open"} => job'[t] \notin {"none", "open"}
    BY <1>1 DEF JobsMove
<1>3. job[t] # "none" /\ (request[c].op = "cancel" => job[t] # "open")
    BY DEF t
<1>4. job'[t] # "none" /\ (request[c].op = "cancel" => job'[t] # "open")
    BY <1>2, <1>3
<1> QED BY <1>4 DEF t

(* A step of a call keeps what callers are told true. *)
LEMMA SaysInv ==
    ASSUME AnswersInv, NEW c \in Calls, Client(c) PROVE (Heard /\ Told /\ JobAnswersInScope)'
<1>1. Says(c)
    BY ClientSays DEF AnswersInv
<1>2. Heard'
  <2>1. Sent # Accepted("job")
    BY DEF Sent, Accepted
  <2> QED BY <1>1, <2>1 DEF Says, AnswersInv, Heard
<1>3. Told'
  <2> SUFFICES ASSUME NEW d \in Calls, NEW n \in Attempts, pc'[d] = "done", n = tries'[d],
                      <<d, n>> \notin gaveUp', exchange'[d][n] \in Queueing,
                      request'[d].op \in Writes
               PROVE  LeavesOpen(request'[d].op, code'[d])
    BY DEF Told
  <2>1. CASE d = c
    BY <1>1, <2>1, AttemptIsNat DEF Says, Answer
  <2>2. CASE d # c
    BY <1>1, <2>2 DEF Says, AnswersInv, Told
  <2> QED BY <2>1, <2>2
<1>4. JobAnswersInScope'
  <2> SUFFICES ASSUME NEW d \in Calls, request[d].op \in {"status", "cancel"}, code'[d] = "OK"
               PROVE  LET j == request[d].target
                      IN /\ handle'[d] = j /\ SolutionOf(j) \in request[d].sees \cap Registered
                         /\ job[j] # "none" /\ (request[d].op = "cancel" => job[j] # "open")
    BY <1>1 DEF JobAnswersInScope, SolutionOf, Says
  <2>1. CASE d = c
    <3>1. code[c] = "none"
        BY <1>1 DEF Says, AnswersInv, IInv, Counting
    <3>2. pc[c] = "wait" /\ Answer(c) = Accepted("job")
        BY <1>1, <2>1, <3>1 DEF Says
    <3>3. tries[c] \in Attempts
        BY <3>2, MaxIsNat DEF AnswersInv, IInv, TypeOK, Counting, Attempts
    <3> QED BY <1>1, <2>1, <3>1, <3>2, <3>3 DEF Says, AnswersInv, Heard, Answer
  <2>2. CASE d # c
    BY <1>1, <2>2 DEF Says, AnswersInv, JobAnswersInScope
  <2> QED BY <2>1, <2>2
<1> QED BY <1>2, <1>3, <1>4

(* An answer of the daemon keeps what callers were told true. *)
LEMMA ServesInv ==
    ASSUME AnswersInv, NEW c \in Calls, NEW n \in Attempts, Daemon(c, n)
    PROVE  (Heard /\ Told /\ JobAnswersInScope)'
<1>1. Serves(c, n)
    BY DaemonServes DEF AnswersInv
<1>2. Heard'
    BY <1>1, HeardStays DEF Serves, AnswersInv, Heard
<1>3. Told'
  <2> SUFFICES ASSUME NEW d \in Calls, NEW m \in Attempts, pc[d] = "done", m = tries[d],
                      <<d, m>> \notin gaveUp, exchange'[d][m] \in Queueing,
                      request[d].op \in Writes
               PROVE  LeavesOpen(request[d].op, code[d])
    BY <1>1 DEF Told, Serves
  <2>1. exchange[d][m] # Sent
    BY AnswerKinds DEF AnswersInv, IInv, Concluded, Queueing
  <2>2. exchange'[d][m] = exchange[d][m]
    BY <1>1, <2>1 DEF Serves
  <2> QED BY <2>2 DEF AnswersInv, Told
<1>4. JobAnswersInScope'
    BY <1>1, HeardStays DEF Serves, AnswersInv, JobAnswersInScope, SolutionOf
<1> QED BY <1>2, <1>3, <1>4

(* A job that moves on by itself keeps it true, too. *)
LEMMA WorksInv ==
    ASSUME AnswersInv, NEW j \in Jobs, DaemonWorks(j) PROVE (Heard /\ Told /\ JobAnswersInScope)'
<1>1. /\ JobsMove /\ UNCHANGED <<request, pc, tries, gaveUp, code, handle, exchange>>
    BY DEF DaemonWorks, AnswersInv, IInv, TypeOK, JobsMove
<1>2. Heard'
    BY <1>1, HeardStays DEF AnswersInv, Heard
<1>3. Told'
    BY <1>1 DEF AnswersInv, Told
<1>4. JobAnswersInScope'
    BY <1>1, HeardStays DEF AnswersInv, JobAnswersInScope, SolutionOf
<1> QED BY <1>2, <1>3, <1>4

(* A refused caller's work was not done.  The attempts before the last     *)
(* were busy, and the last one ended the call.                             *)
LEMMA RefusalsAreTrue == ASSUME IInv, Told PROVE RefusedMeansNothing
<1> SUFFICES ASSUME NEW c \in Calls, pc[c] = "done", SaysNothingQueued(c),
                    \A m \in Attempts : <<c, m>> \notin gaveUp,
                    NEW n \in Attempts, job[<<c, n>>] # "none"
             PROVE  FALSE
    BY DEF RefusedMeansNothing
<1>1. /\ exchange[c][n] \in Queueing /\ request[c].op \in Writes
      /\ exchange[c][n] # Unsent /\ exchange[c][n] \notin Turned
    BY AnswerKinds, TurnedQueueNothing DEF IInv, Backed
<1>2. n \in Nat /\ tries[c] \in Nat
    BY AttemptIsNat, MaxIsNat DEF IInv, TypeOK
<1>3. CASE n > tries[c]
    BY <1>1, <1>3 DEF IInv, Counting
<1>4. CASE n < tries[c]
    BY <1>1, <1>4 DEF IInv, Settled
<1>5. CASE n = tries[c]
  <2>1. LeavesOpen(request[c].op, code[c])
    BY <1>1, <1>5 DEF Told
  <2> QED BY <2>1, CodesAre DEF SaysNothingQueued, LeavesOpen
<1> QED BY <1>2, <1>3, <1>4, <1>5

(* What a caller is told of its work is so: a refusal that was waited for  *)
(* means that nothing was queued, a job that is answered is one it may     *)
(* see, and an outage has one of the causes that UnavailableIsReal lists,  *)
(* whatever answers come late or not at all.                               *)
THEOREM AnswersAreTrue == Spec => []AnswersMatchWork
<1>1. Init => Heard /\ Told /\ JobAnswersInScope
  <2>1. Unsent # Accepted("job")
    BY DEF Unsent, Accepted
  <2> QED BY <2>1 DEF Init, Heard, Told, JobAnswersInScope
<1>2. AnswersInv /\ [Next]_vars => (Heard /\ Told /\ JobAnswersInScope)'
  <2> SUFFICES ASSUME AnswersInv, [Next]_vars PROVE (Heard /\ Told /\ JobAnswersInScope)'
    OBVIOUS
  <2>1. CASE UNCHANGED vars
    BY <2>1 DEF vars, AnswersInv, Heard, Told, JobAnswersInScope, SolutionOf
  <2> QED BY <2>1, SaysInv, ServesInv, WorksInv DEF Next
<1>3. AnswersInv => AnswersMatchWork
    BY RefusalsAreTrue DEF AnswersInv, IInv, AnswersMatchWork
<1> QED BY <1>1, <1>2, <1>3, Invariance, PTL DEF Spec, AnswersInv
=============================================================================
