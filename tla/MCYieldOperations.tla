-------------------------- MODULE MCYieldOperations --------------------------
(* Model checking of YieldOperations on a small deployment.                    *)
EXTENDS YieldOperations

CONSTANTS parent, child1, child2, aave, compound
==============================================================================
