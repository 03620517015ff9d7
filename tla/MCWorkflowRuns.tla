--------------------------- MODULE MCWorkflowRuns ---------------------------
(* A fan-out of two executions, and a step that waits for it.              *)
EXTENDS WorkflowRuns

CONSTANTS a, b

PlanStepOf == [x \in Execs |-> IF x = 3 THEN b ELSE a]
PlanAfter == [n \in Steps |-> IF n = b THEN {a} ELSE {}]
=============================================================================
