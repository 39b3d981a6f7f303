----------------------------- MODULE MCSnapshot -----------------------------
(* Instances of SnapshotQuery for TLC. *)
EXTENDS SnapshotQuery, TLC

CONSTANTS r1, d1

MCReader == {r1}
MCWriters == {d1}
MCProject == {1}
MCProjects == {1, 2}
MCShards == {"nodes"}

=============================================================================
