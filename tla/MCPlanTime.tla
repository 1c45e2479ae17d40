----------------------------- MODULE MCPlanTime -----------------------------
(* Small instances of PlanTime for TLC. *)
EXTENDS PlanTime

(* A phase without workers, with one group, with a longer group before a
   shorter one *)
MCPlanWorkers == {<<>>, <<2>>, <<3, 1>>}

(* The plan's repeats, and an override *)
MCRepeatFlags == {-1, 2}
=============================================================================
