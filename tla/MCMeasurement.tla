---------------------------- MODULE MCMeasurement ----------------------------
(* Measurement for TLC: two compilers, the fewest rounds that have both a     *)
(* warmup and a retained observation, every controller.                       *)
EXTENDS Measurement

AllControllers == {"daily", "weekly", "representative", "diagnostic", "recovery", "hash"}
\* Two workloads where a cohort may end between them.
MCCaseCount == [c \in AllControllers |-> IF c \in {"representative", "diagnostic"} THEN 2 ELSE 1]
TwoRoles == <<"native", "other">>
=============================================================================
