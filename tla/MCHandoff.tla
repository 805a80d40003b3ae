------------------------------ MODULE MCHandoff -------------------------------
(* A worker and the two that send to it. *)
EXTENDS Handoff

CONSTANTS a, b, c

MCWorkers == {a, b, c}
MCTargets == {a}
===============================================================================
