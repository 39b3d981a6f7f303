---------------------------- MODULE AtomicQuery ----------------------------
(***************************************************************************)
(* What graph_query promises (docs/guides/snapshots.md, "One generation    *)
(* per query"): an answer is the requested part of ONE catalog vector that *)
(* was the published one at some moment of the call; a pinned call gets    *)
(* the pinned vector or nothing.                                           *)
(***************************************************************************)
EXTENDS Naturals, Sequences, Functions

CONSTANTS Readers, Projects, Gens

VARIABLES
    published,   \* every catalog vector published so far, in order
    call         \* call[r]: the query r is running or has finished

Vectors == [Projects -> Gens]
NoPin == <<>>

Scopes == (SUBSET Projects) \ {{}}
Pins(scope) == {NoPin} \cup [scope -> Gens]

Idle == [state |-> "idle"]

AtomicInit ==
    /\ \E v \in Vectors : published = <<v>>
    /\ call = [r \in Readers |-> Idle]

Publish ==
    /\ \E v \in Vectors : published' = Append(published, v)
    /\ UNCHANGED call

Begin(r) ==
    /\ call[r].state # "pending"
    /\ \E scope \in Scopes : \E pin \in Pins(scope) :
         call' = [call EXCEPT ![r] =
                    [state |-> "pending", scope |-> scope, pin |-> pin,
                     since |-> Len(published)]]
    /\ UNCHANGED published

Answer(r) ==
    /\ call[r].state = "pending"
    /\ \E k \in call[r].since .. Len(published) :
         LET v == Restrict(published[k], call[r].scope) IN
         /\ call[r].pin \in {NoPin, v}
         /\ call' = [call EXCEPT ![r] = [state |-> "answered", vector |-> v]]
    /\ UNCHANGED published

Refuse(r) ==
    /\ call[r].state = "pending"
    /\ call' = [call EXCEPT ![r] = [state |-> "refused"]]
    /\ UNCHANGED published

\* The caller takes the result and goes on to something else.
Forget(r) ==
    /\ call[r].state \in {"answered", "refused"}
    /\ call' = [call EXCEPT ![r] = Idle]
    /\ UNCHANGED published

AtomicNext ==
    \/ Publish
    \/ \E r \in Readers : Begin(r) \/ Answer(r) \/ Refuse(r) \/ Forget(r)

AtomicSpec == AtomicInit /\ [][AtomicNext]_<<published, call>>
=============================================================================
