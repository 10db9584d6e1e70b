--------------------------- MODULE MCWorkflowRouter ---------------------------
(* WorkflowRouter with model values. *)
EXTENDS WorkflowRouter, TLC

CONSTANTS w1, m1, m2, none

MCWorkflows == {w1}
MCMetas == {m1, m2}
MCSelectors == {"closeEpoch", "initiateRebalance"}
MCSymmetry == Permutations(MCMetas)
================================================================================
