------------------------------ MODULE MCGuard ------------------------------
(* An instance of SolutionGuard for TLC: one process of each role. *)
EXTENDS SolutionGuard, TLC

CONSTANTS s1, k1, w1

MCSources == {s1}
MCKeepers == {k1}
MCPublishers == {w1}
=============================================================================
