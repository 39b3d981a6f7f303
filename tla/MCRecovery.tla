----------------------------- MODULE MCRecovery -----------------------------
(* An instance of Recovery for TLC. *)
EXTENDS Recovery, TLC

CONSTANTS r1, d1

MCReader == {r1}
MCWriters == {d1}
MCProject == {1}
MCTwoShards == {"nodes", "edges"}
=============================================================================
