-------------------------- MODULE MCWorkflowEngine --------------------------
(* Instances of WorkflowEngine for TLC.                                    *)
EXTENDS WorkflowEngine, TLC

CONSTANTS w1, w2, r1

\* One workflow, without another generation.
OneWorkflow == {w1}
NoGenerations == (w1 :> {})

\* An older and a newer generation of one source job.
TwoWorkflows == {w1, w2}
Generations == (w1 :> {w2}) @@ (w2 :> {})

\* A run for the events of the (older) workflow.
OneRun == {r1}
OldTarget == (r1 :> w1)

None == {}
=============================================================================
