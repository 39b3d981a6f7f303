---------------------------- MODULE MCDelegation ----------------------------
(* Instances of Delegation for TLC. *)
EXTENDS Delegation, TLC

CONSTANTS c1, c2, old

S == {"alpha", "beta", "retired"}
MCOwnerOf == old :> "beta"

Ask(op, caps, sees, solution, target) ==
    [op |-> op, caps |-> caps, sees |-> sees, solution |-> solution, target |-> target]

(* c1 writes: with all capabilities, without the one it needs, and for a  *)
(* solution that it does not see or that is not registered.               *)
WriteRequests ==
    {Ask(op, Caps, {"alpha"}, "alpha", old) : op \in Writes}
    \cup {Ask("fresh", {"read"}, {"alpha"}, "alpha", old)}
    \cup {Ask("reconcile", Caps, {"alpha", "retired"}, s, old) : s \in {"beta", "retired"}}

(* c2 cancels what c1's first attempt queues, or asks about a job of a     *)
(* solution that its caller does not see.                                  *)
JobRequests ==
    {Ask("cancel", Caps, {"alpha"}, "alpha", <<c1, 1>>),
     Ask("cancel", {"read"}, {"beta"}, "beta", old),
     Ask("status", {"read"}, {"alpha"}, "alpha", old)}

(* c1 meets bare statuses, with and without a code of their own, and an    *)
(* error whose canonical code contradicts its status; c2 meets a busy one. *)
Bare(s) == [status |-> s, body |-> "none"]
MCRefusals ==
    (c1 :> {Bare(503), Bare(409), Bare(500), [status |-> 403, body |-> "DAEMON_UNAVAILABLE"]})
    @@ (c2 :> {Bare(429)})

MCRequests == (c1 :> WriteRequests) @@ (c2 :> JobRequests)
=============================================================================
