----------------------------- MODULE MCGateway -----------------------------
(* An instance of Gateway for TLC: two launches, and a command of each kind. *)
EXTENDS Gateway, TLC

CONSTANTS l1, l2, a1, o1, q1

MCLaunches == {l1, l2}
MCStarts == {a1}
MCStops == {o1}
MCStatuses == {q1}
MCConfigs == {"a"}
=============================================================================
