------------------------------ MODULE Deployment ------------------------------
(***************************************************************************)
(* The deployment of one chain of nodes: the manager                       *)
(* (sentry/deployment/manager.py) with the topology it builds and joins    *)
(* (chain_topology.py) and the post-landing test (post_landing.py). The    *)
(* launch, the join and the test are public and may be called in any       *)
(* order, any number of times; full_deploy_sequence calls all three.       *)
(*                                                                         *)
(* Every random draw comes from a generator the call seeds anew with a     *)
(* fixed number, so on the same chain the same nodes join and pass each    *)
(* time; which ones is chosen in the initial state.                        *)
(***************************************************************************)
EXTENDS DeploymentPhysics, Sequences

CONSTANTS
  Configs,       \* the chain configurations considered
  MaxLaunches,   \* bound of the model: how often the chain is launched
  None           \* Python's None

ASSUME ConfigAssumption ==
  Configs \subseteq [method : STRING, count : Nat, mass : Nat, velocity : Nat]
ASSUME LaunchAssumption == MaxLaunches \in Nat
ASSUME NoneAssumption ==
  /\ None \notin [launch : Nat, nodes : SUBSET Nat, up : SUBSET Nat, joined : SUBSET Nat]
  /\ None \notin [launch : Nat, joined : SUBSET Nat, failed : SUBSET Nat]
  /\ None \notin [launch : Nat, checked : SUBSET Nat, passed : SUBSET Nat]

VARIABLES
  config,        \* the manager's configuration
  joins,         \* the nodes whose draws in simulate_mesh_auto_join succeed
  fit,           \* the nodes whose draws in run_post_landing_check all succeed
  phase,         \* state.phase
  topology,      \* state.topology, numbered by the launch that built it
  joinResult,    \* state.join_result
  postLanding,   \* state.post_landing
  calls,         \* the calls full_deploy_sequence has yet to make
  launches       \* how many topologies have been built

draws == <<config, joins, fit>>
vars == <<draws, phase, topology, joinResult, postLanding, calls, launches>>

------------------------------------------------------------------------------
Phases == {"stowed", "deployed", "chain_joining", "operational"}

\* Mutant of Landed: a node that joined the chain before counts as joined.
LandedJoined(n) ==
  [launch |-> n, nodes |-> LandedNodes(config), up |-> Survivors(config),
   joined |-> IF topology = None THEN {} ELSE topology.joined]

\* build_chain_topology: no node of a landed chain has joined yet.
Landed(n) ==
  [launch |-> n, nodes |-> LandedNodes(config), up |-> Survivors(config),
   joined |-> {}]

\* mesh_peer_list: the neighbours in the topology, whatever their condition.
Peers(i) == {i - 1, i + 1} \cap topology.nodes

DeploymentTypeOK ==
  /\ config \in Configs
  /\ joins \subseteq Nat /\ fit \subseteq Nat
  /\ phase \in Phases
  /\ topology = None \/ topology \in [launch : 1..launches, nodes : SUBSET Nat,
                                      up : SUBSET Nat, joined : SUBSET Nat]
  /\ joinResult = None \/ joinResult \in [launch : 1..launches,
                                          joined : SUBSET Nat, failed : SUBSET Nat]
  /\ postLanding = None \/ postLanding \in [launch : 1..launches, checked : SUBSET Nat,
                                            passed : SUBSET Nat]
  /\ calls \in {<<>>, <<"join", "test">>, <<"test">>}
  /\ launches \in 0..MaxLaunches

------------------------------------------------------------------------------
\* Mutant of BuildChain: the intermediate phase is left in place.
BuildChainDeploying ==
  /\ launches < MaxLaunches
  /\ launches' = launches + 1
  /\ topology' = Landed(launches + 1)
  /\ phase' = "deploying"
  /\ UNCHANGED <<draws, joinResult, postLanding>>

\* The body of simulate_launch. The join result and the report of an earlier
\* launch are kept.
BuildChain ==
  /\ launches < MaxLaunches
  /\ launches' = launches + 1
  /\ topology' = Landed(launches + 1)
  /\ phase' = "deployed"
  /\ UNCHANGED <<draws, joinResult, postLanding>>

\* simulate_launch() by itself.
SimulateLaunch ==
  /\ calls = <<>>
  /\ BuildChain
  /\ UNCHANGED calls

\* full_deploy_sequence(): the launch, after which the other two calls follow.
FullDeploySequence ==
  /\ calls = <<>>
  /\ BuildChain
  /\ calls' = <<"join", "test">>

\* Who makes a call: anyone, or full_deploy_sequence when it is that call's turn.
Calling(call) ==
  \/ calls = <<>> /\ UNCHANGED calls
  \/ calls # <<>> /\ Head(calls) = call /\ calls' = Tail(calls)

\* run_mesh_auto_join(): an error before the first launch.
RunMeshAutoJoin ==
  LET joined == topology.up \cap joins IN
  /\ Calling("join")
  /\ topology # None
  /\ phase' = "chain_joining"
  /\ topology' = [topology EXCEPT !.joined = joined]
  /\ joinResult' = [launch |-> topology.launch, joined |-> joined,
                    failed |-> topology.nodes \ joined]
  /\ UNCHANGED <<draws, postLanding, launches>>

\* Mutant of Passing: the mesh is not part of the test.
PassingUnjoined == topology.up \cap fit

\* A node passes when it is operational, fit, and has joined the mesh.
Passing == topology.up \cap fit \cap topology.joined

\* run_post_landing_checks(): with no node passing the phase stays what it was.
RunPostLandingChecks ==
  /\ Calling("test")
  /\ topology # None
  /\ postLanding' = [launch |-> topology.launch, checked |-> topology.nodes,
                     passed |-> Passing]
  /\ phase' = IF Passing # {} THEN "operational" ELSE phase
  /\ UNCHANGED <<draws, topology, joinResult, launches>>

\* The process is restarted: a manager keeps nothing but its mission profile.
Restart ==
  /\ phase' = "stowed"
  /\ topology' = None /\ joinResult' = None /\ postLanding' = None
  /\ calls' = <<>>
  /\ UNCHANGED <<draws, launches>>

Init ==
  /\ config \in Configs
  /\ joins \in SUBSET LandedNodes(config)
  /\ fit \in SUBSET LandedNodes(config)
  /\ phase = "stowed"
  /\ topology = None /\ joinResult = None /\ postLanding = None
  /\ calls = <<>>
  /\ launches = 0

Next ==
  \/ SimulateLaunch
  \/ FullDeploySequence
  \/ RunMeshAutoJoin
  \/ RunPostLandingChecks
  \/ Restart

Spec == Init /\ [][Next]_vars

------------------------------------------------------------------------------
\* An armed chain is backed by the chain it is: the phase is operational only
\* while the report and the join result at hand are those of the present launch
\* and some node of it works, has joined and has passed (manager.py:91-98).
OperationalIsBacked ==
  phase = "operational" =>
    /\ topology # None /\ joinResult # None /\ postLanding # None
    /\ postLanding.launch = topology.launch
    /\ joinResult.launch = topology.launch
    /\ joinResult.joined = topology.joined
    /\ postLanding.passed # {}
    /\ postLanding.passed \subseteq topology.joined
    /\ topology.joined \subseteq topology.up

\* On a line that held, the peers a working node is told to join are working
\* nodes: mesh_peer_list does not look (chain_topology.py:155-165), so this
\* rests on the impact leaving a line whole or not at all.
LivePeersAreLive ==
  topology # None =>
    \A i \in topology.up : Peers(i) \subseteq topology.up \/ ChainBroken(config)

\* The manager takes the chain through its phases as the guardian relies on it.
Stage == INSTANCE DeploymentPhases WITH stage <- phase
ImplementsPhases == Stage!Spec
===============================================================================
