-------------------------- MODULE MCRestLevelSource --------------------------
(* Small instances of RestLevelSource and of the history of its races.       *)
EXTENDS RestConvergence

CONSTANTS v0, c1

mcNewRow == [c \in Cols |-> v0]

MCFairSpec ==
  TrackedSpec /\ WF_vars(LoadStep) /\ WF_vars(EditStep) /\ WF_vars(AnswersArrive)
==============================================================================
