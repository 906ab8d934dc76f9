-------------------------- MODULE MCWorkflowEngine --------------------------
(* A manifest with a step of each kind; SoleStep are the validated ones.       *)
EXTENDS WorkflowEngine, TLC

CONSTANTS draft, publish, assemble, c1, c2, k1, k2

MCSteps == {draft, publish, assemble}
MCPosition == publish :> 1 @@ draft :> 2 @@ assemble :> 3
MCDependsOn == draft :> {} @@ publish :> {draft} @@ assemble :> {draft, publish}
MCCommand == {draft, publish}
MCIdempotent == {draft, assemble}
MCMaximum == draft :> 1 @@ publish :> 2 @@ assemble :> 1
MCTransient == draft :> 2 @@ publish :> 2 @@ assemble :> 1

SoleStep == {draft}

MCControllers == {c1, c2}
TwoChildren == {k1, k2}

Slots == Permutations(MCControllers) \cup Permutations(TwoChildren)
=============================================================================
