-------------------------- MODULE MCDeployPipeline --------------------------
(* Two runs, of one ref or of two, with inputs that bring them to the apps *)
(* and inputs that must not; or one run with any inputs.                   *)
EXTENDS DeployPipeline, TLC

CONSTANTS r1, r2, main, branch, bff, agent

MCRuns == {r1, r2}
MCOneRun == {r1}
MCRefs == {main, branch}
MCApps == {bff, agent}

Asking(ask, execute, phrase, tests) ==
  [ask |-> ask, execute |-> execute, phrase |-> phrase, tests |-> tests]

MCInputs ==
  {Asking(ask, TRUE, TRUE, FALSE) :
     ask \in {{"publish", "apply", "rollout"}, {"apply", "rollout"}, {"apply"}, {"publish"}}}
  \union {Asking({"publish", "apply", "rollout"}, FALSE, TRUE, FALSE),
          Asking({"apply"}, TRUE, FALSE, FALSE),
          Asking({"config"}, FALSE, TRUE, TRUE)}

MCAnyInput == Input

Symmetry == Permutations(MCApps) \union Permutations(MCRuns)
=============================================================================
