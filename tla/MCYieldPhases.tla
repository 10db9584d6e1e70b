--------------------------- MODULE MCYieldPhases ---------------------------
(* Model checking of YieldPhases on small deployments.                         *)
EXTENDS YieldPhases, TLC

CONSTANTS parent, child1, child2, aave, compound

MCChildren == {child1, child2}
MCProtocols == {aave, compound}

\* Child chains are interchangeable, and so are protocols.
MCSymmetry == Permutations(MCChildren) \union Permutations(MCProtocols)
==============================================================================
