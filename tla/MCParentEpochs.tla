--------------------------- MODULE MCParentEpochs ---------------------------
(* Model checking of ParentEpochs with two users, one of them the treasury, so *)
(* that its fee shares are withdrawn and claimed like any others.              *)
EXTENDS ParentEpochs

CONSTANTS alice, treasury

==============================================================================
