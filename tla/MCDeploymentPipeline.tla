------------------------ MODULE MCDeploymentPipeline ------------------------
(* Model checking of DeploymentPipeline.                                   *)
EXTENDS DeploymentPipeline, TLC

\* The slots for callbacks are interchangeable.
HookSymmetry == Permutations(Hooks)
=============================================================================
