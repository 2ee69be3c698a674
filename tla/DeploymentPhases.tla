--------------------------- MODULE DeploymentPhases ---------------------------
(***************************************************************************)
(* What the deployment of a chain promises the guardian, without the       *)
(* nodes: docs/deployment_chain.md section 3 and the phase of              *)
(* sentry/deployment/manager.py. Detection is armed ("operational") only   *)
(* from a chain that has been launched and has then been joined; a launch  *)
(* or a new join takes the arming back.                                    *)
(***************************************************************************)
VARIABLE stage

Launched == stage # "stowed"
Joined == stage \in {"chain_joining", "operational"}

Init == stage = "stowed"

\* The line is thrown, from any stage: a chain may be launched again.
Launch == stage' = "deployed"

\* The landed nodes look for each other.
Join == Launched /\ stage' = "chain_joining"

\* The post-landing test arms a joined chain.
Arm == Joined /\ stage' = "operational"

\* The manager's process is restarted and remembers nothing.
Forget == stage' = "stowed"

Next == Launch \/ Join \/ Arm \/ Forget

Spec == Init /\ [][Next]_stage
===============================================================================
