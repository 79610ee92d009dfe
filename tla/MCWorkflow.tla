----------------------------- MODULE MCWorkflow -----------------------------
(* Slot 0 takes tables of up to MaxSteps steps, slot 1 of one step: a long *)
(* undo chain beside another workflow.  A larger table in slot 1 is cut    *)
(* off in the state workflow_begin makes, so no fair step is ever lost.    *)
EXTENDS Workflow

ShortSecond == step_count[1] <= 1
=============================================================================
