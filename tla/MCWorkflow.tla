----------------------------- MODULE MCWorkflow -----------------------------
(* The two registered workflows (src/src/workflows/return_workflow.py). *)
EXTENDS Workflow

ReturnOrder == <<FALSE, FALSE, FALSE, TRUE, FALSE, FALSE, FALSE>>
CustomOrder == <<FALSE, TRUE, FALSE, TRUE, FALSE, FALSE>>
\* Two gates that meet, as no registered workflow has them.
GateAfterGate == <<FALSE, TRUE, TRUE, FALSE>>

CustomInstances == {"c1"}
CustomDefinition == [n \in CustomInstances |-> CustomOrder]

AllInstances == {"r1", "c1", "g1"}
AllDefinitions ==
    [n \in AllInstances |->
        CASE n = "r1" -> ReturnOrder [] n = "c1" -> CustomOrder [] n = "g1" -> GateAfterGate]
=============================================================================
