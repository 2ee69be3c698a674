--------------------------- MODULE DeploymentProofs ---------------------------
(***************************************************************************)
(* The deployment manager, proved for every set of chain configurations,   *)
(* every outcome of the draws and every number of launches.                *)
(***************************************************************************)
EXTENDS Deployment, TLAPS

------------------------------------------------------------------------------
(***************************************************************************)
(* Types.                                                                  *)
(***************************************************************************)

\* A landed chain has its nodes, the working ones among them, and none joined.
LEMMA LandedChain ==
  ASSUME config \in Configs, NEW n \in Nat
  PROVE  /\ Landed(n) \in [launch : {n}, nodes : SUBSET Nat, up : SUBSET Nat,
                           joined : SUBSET Nat]
         /\ Landed(n).joined = {}
<1>1. config.count \in Nat
  BY ConfigAssumption
<1>2. NodeCount(config) \in Nat
  BY <1>1 DEF NodeCount
<1>3. LandedNodes(config) \subseteq Nat
  BY <1>2 DEF LandedNodes
<1>4. Survivors(config) \subseteq Nat
  BY <1>3 DEF Survivors
<1> QED
  BY <1>3, <1>4 DEF Landed

\* What a launch does, with the sequence's other calls left to make.
LEMMA BuildChainTypes ==
  ASSUME DeploymentTypeOK, BuildChain, calls' \in {<<>>, <<"join", "test">>}
  PROVE  DeploymentTypeOK'
<1>1. launches + 1 \in Nat /\ launches' \in 0..MaxLaunches /\ launches' = launches + 1
  BY LaunchAssumption DEF DeploymentTypeOK, BuildChain
<1>2. topology' \in [launch : {launches + 1}, nodes : SUBSET Nat, up : SUBSET Nat,
                     joined : SUBSET Nat]
  BY <1>1, LandedChain DEF DeploymentTypeOK, BuildChain
<1>3. {launches + 1} \subseteq 1..launches' /\ 1..launches \subseteq 1..launches'
  BY <1>1 DEF DeploymentTypeOK
<1> QED
  BY <1>1, <1>2, <1>3 DEF DeploymentTypeOK, BuildChain, draws, Phases

\* Whoever makes a call, the calls left to make stay a rest of the sequence.
LEMMA CallingTypes ==
  ASSUME DeploymentTypeOK, NEW call \in {"join", "test"}, Calling(call)
  PROVE  calls' \in {<<>>, <<"join", "test">>, <<"test">>}
<1>1. Tail(<<"join", "test">>) = <<"test">> /\ Tail(<<"test">>) = <<>>
  OBVIOUS
<1> QED
  BY <1>1 DEF DeploymentTypeOK, Calling

LEMMA TypeStep == DeploymentTypeOK /\ [Next]_vars => DeploymentTypeOK'
<1> SUFFICES ASSUME DeploymentTypeOK, [Next]_vars
             PROVE  DeploymentTypeOK'
  OBVIOUS
<1>1. CASE SimulateLaunch
  BY <1>1, BuildChainTypes DEF SimulateLaunch
<1>2. CASE FullDeploySequence
  BY <1>2, BuildChainTypes DEF FullDeploySequence
<1>3. CASE RunMeshAutoJoin
  <2>1. calls' \in {<<>>, <<"join", "test">>, <<"test">>}
    BY <1>3, CallingTypes DEF RunMeshAutoJoin
  <2>2. topology \in [launch : 1..launches, nodes : SUBSET Nat, up : SUBSET Nat,
                      joined : SUBSET Nat]
    BY <1>3 DEF RunMeshAutoJoin, DeploymentTypeOK
  <2>3. topology' \in [launch : 1..launches, nodes : SUBSET Nat, up : SUBSET Nat,
                       joined : SUBSET Nat]
    BY <1>3, <2>2 DEF RunMeshAutoJoin
  <2>4. joinResult' \in [launch : 1..launches, joined : SUBSET Nat, failed : SUBSET Nat]
    BY <1>3, <2>2 DEF RunMeshAutoJoin
  <2> QED
    BY <1>3, <2>1, <2>3, <2>4 DEF RunMeshAutoJoin, DeploymentTypeOK, draws, Phases
<1>4. CASE RunPostLandingChecks
  <2>1. calls' \in {<<>>, <<"join", "test">>, <<"test">>}
    BY <1>4, CallingTypes DEF RunPostLandingChecks
  <2>2. topology \in [launch : 1..launches, nodes : SUBSET Nat, up : SUBSET Nat,
                      joined : SUBSET Nat]
    BY <1>4 DEF RunPostLandingChecks, DeploymentTypeOK
  <2>3. postLanding' \in [launch : 1..launches, checked : SUBSET Nat, passed : SUBSET Nat]
    BY <1>4, <2>2 DEF RunPostLandingChecks, Passing
  <2> QED
    BY <1>4, <2>1, <2>3 DEF RunPostLandingChecks, DeploymentTypeOK, draws, Phases
<1>5. CASE Restart
  BY <1>5 DEF Restart, DeploymentTypeOK, draws, Phases
<1>6. CASE UNCHANGED vars
  BY <1>6 DEF vars, draws, DeploymentTypeOK
<1> QED
  BY <1>1, <1>2, <1>3, <1>4, <1>5, <1>6 DEF Next

LEMMA TypeInit == Init => DeploymentTypeOK
<1> SUFFICES ASSUME Init
             PROVE  DeploymentTypeOK
  OBVIOUS
<1>1. config.count \in Nat
  BY ConfigAssumption DEF Init
<1>2. NodeCount(config) \in Nat
  BY <1>1 DEF NodeCount
<1>3. LandedNodes(config) \subseteq Nat
  BY <1>2 DEF LandedNodes
<1> QED
  BY <1>3, LaunchAssumption DEF Init, DeploymentTypeOK, Phases

\* Every reachable state of the deployment manager is well typed.
THEOREM DeploymentTypes == Spec => []DeploymentTypeOK
BY TypeInit, TypeStep, PTL DEF Spec

------------------------------------------------------------------------------
(***************************************************************************)
(* The impact.                                                             *)
(***************************************************************************)

\* A quotient lies between two bounds when the dividend lies between their multiples.
LEMMA QuotientBounds ==
  ASSUME NEW d \in Nat, d > 0, NEW x \in Int, NEW low \in Int, NEW high \in Int,
         low * d <= x, x <= high * d
  PROVE  low <= x \div d /\ x \div d <= high
<1> DEFINE q == x \div d
<1>1. q \in Int /\ d * q <= x /\ x < d * q + d
  OBVIOUS
<1> HIDE DEF q
<1>2. low * d < (q + 1) * d /\ q * d <= high * d
  BY <1>1
<1>3. low < q + 1 /\ q <= high
  BY <1>1, <1>2
<1>4. low <= q /\ q <= high
  BY <1>1, <1>3
<1> QED BY <1>4 DEF q

\* The peak at any node of a line: never above the launch's own, and never below
\* 74.8 percent of it (88 percent for the whip, 85 for a slow launch).
LEMMA PeakBounds ==
  ASSUME NEW c \in Configs, NEW i \in 0..(NodeCount(c) - 1)
  PROVE  /\ 748 * LaunchPeakG[Method(c)] <= 10 * (PeakG(c, i) + 1)
         /\ PeakG(c, i) <= 100 * LaunchPeakG[Method(c)]
         /\ PeakG(c, i) \in Int
<1>1. c.count \in Nat /\ c.velocity \in Nat /\ c.mass \in Nat
  BY ConfigAssumption
<1> DEFINE m == NodeCount(c) - 1
           p == LaunchPeakG[Method(c)]
           a == 100 * m - 12 * i
           v == VelocityFactor(c)
<1>2. m \in Nat /\ m >= 1
  BY <1>1 DEF NodeCount
<1>3. v \in 8500..10000
  BY <1>1 DEF VelocityFactor
<1>4. p \in {8, 35, 55, 450}
  BY DEF Method, LaunchPeakG
<1>5. PeakG(c, i) = (p * a * v) \div (10000 * m)
  BY DEF PeakG
<1>6. i \in 0..m
  OBVIOUS
<1> HIDE DEF m, p, v
<1>7. a \in Nat /\ 88 * m <= a /\ a <= 100 * m
  BY <1>2, <1>6
<1> HIDE DEF a
<1>8. /\ a * v \in Nat
      /\ (88 * m) * 8500 <= a * v
      /\ a * v <= (100 * m) * 10000
  BY <1>2, <1>3, <1>7
<1>9. p * a * v = p * (a * v)
  BY <1>3, <1>4, <1>7
<1> DEFINE w == a * v
<1> HIDE DEF w
<1>10. /\ w \in Nat /\ 748000 * m <= w /\ w <= 1000000 * m
       /\ p * a * v = p * w
  BY <1>2, <1>8, <1>9 DEF w
<1> DEFINE low == (748 * p) \div 10
<1>11. low \in Int /\ 10 * low <= 748 * p /\ 748 * p < 10 * (low + 1)
  BY <1>4
<1> HIDE DEF low
<1>12. p * w \in Nat /\ low * (10000 * m) <= p * w /\ p * w <= (100 * p) * (10000 * m)
  <2>1. CASE p = 8
    BY <1>2, <1>10, <1>11, <2>1
  <2>2. CASE p = 35
    BY <1>2, <1>10, <1>11, <2>2
  <2>3. CASE p = 55
    BY <1>2, <1>10, <1>11, <2>3
  <2>4. CASE p = 450
    BY <1>2, <1>10, <1>11, <2>4
  <2> QED BY <1>4, <2>1, <2>2, <2>3, <2>4
<1>13. 10000 * m \in Nat /\ 10000 * m > 0 /\ 100 * p \in Int
  BY <1>2, <1>4
<1>14. low <= (p * w) \div (10000 * m) /\ (p * w) \div (10000 * m) <= 100 * p
  BY <1>11, <1>12, <1>13, QuotientBounds
<1>15. PeakG(c, i) = (p * w) \div (10000 * m)
  BY <1>5, <1>10
<1>16. PeakG(c, i) \in Int
  BY <1>12, <1>13, <1>15
<1> QED BY <1>4, <1>11, <1>14, <1>15, <1>16 DEF p
\* The line survives the impact whole or not at all: only the hand-emplaced one
\* stays below the 25 g of the weakest part, and that at every node.
LEMMA AllOrNoneSurvive ==
  ASSUME NEW c \in Configs, NEW i \in 0..(NodeCount(c) - 1), NEW j \in 0..(NodeCount(c) - 1),
         \A part \in DOMAIN SurvivalG : PeakG(c, i) <= 100 * SurvivalG[part]
  PROVE  \A part \in DOMAIN SurvivalG : PeakG(c, j) <= 100 * SurvivalG[part]
<1>1. /\ DOMAIN SurvivalG = {"pi_zero_2w", "rtl_sdr_v3", "mems_mic", "lipo_2s"}
      /\ SurvivalG["rtl_sdr_v3"] = 25
      /\ \A part \in DOMAIN SurvivalG : SurvivalG[part] \in {25, 30, 40, 60}
  BY DEF SurvivalG
<1>2. PeakG(c, i) <= 2500
  BY <1>1
<1>3. LaunchPeakG[Method(c)] \in {8, 35, 55, 450}
  BY DEF Method, LaunchPeakG
<1>4. LaunchPeakG[Method(c)] = 8
  BY <1>2, <1>3, PeakBounds
<1>5. PeakG(c, j) \in Int /\ PeakG(c, j) <= 800
  BY <1>4, PeakBounds
<1> QED BY <1>1, <1>5

\* The topology at hand is what the launch of this configuration left.
TopologyLanded ==
  topology # None => /\ topology.nodes = LandedNodes(config)
                     /\ topology.up = Survivors(config)

LEMMA LandedStep ==
  ASSUME DeploymentTypeOK, TopologyLanded, [Next]_vars
  PROVE  TopologyLanded'
<1>1. CASE SimulateLaunch \/ FullDeploySequence
  BY <1>1 DEF SimulateLaunch, FullDeploySequence, BuildChain, Landed, draws, TopologyLanded
<1>2. CASE RunMeshAutoJoin
  <2>1. /\ topology # None /\ config' = config
        /\ topology' = [topology EXCEPT !.joined = topology.up \cap joins]
    BY <1>2 DEF RunMeshAutoJoin, draws
  <2>2. topology \in [launch : 1..launches, nodes : SUBSET Nat, up : SUBSET Nat,
                      joined : SUBSET Nat]
    BY <2>1 DEF DeploymentTypeOK
  <2>3. topology'.nodes = topology.nodes /\ topology'.up = topology.up
    BY <2>1, <2>2
  <2> QED BY <2>1, <2>3 DEF TopologyLanded
<1>3. CASE RunPostLandingChecks
  BY <1>3 DEF RunPostLandingChecks, draws, TopologyLanded
<1>4. CASE Restart
  BY <1>4 DEF Restart, TopologyLanded
<1>5. CASE UNCHANGED vars
  BY <1>5 DEF vars, draws, TopologyLanded
<1> QED BY <1>1, <1>2, <1>3, <1>4, <1>5 DEF Next

\* A landed neighbour of a working node works, unless the line broke.
LEMMA NeighboursWork ==
  ASSUME config \in Configs, topology # None, TopologyLanded
  PROVE  LivePeersAreLive
<1> SUFFICES ASSUME NEW i \in topology.up, ~ChainBroken(config),
                    NEW j \in Peers(i)
             PROVE  j \in topology.up
  BY DEF LivePeersAreLive
<1>1. i \in Survivors(config) /\ j \in LandedNodes(config)
  BY DEF TopologyLanded, Peers
<1>2. /\ i \in 0..(NodeCount(config) - 1) /\ j \in 0..(NodeCount(config) - 1)
      /\ \A part \in DOMAIN SurvivalG : PeakG(config, i) <= 100 * SurvivalG[part]
  BY <1>1 DEF Survivors, LandedNodes
<1>3. \A part \in DOMAIN SurvivalG : PeakG(config, j) <= 100 * SurvivalG[part]
  BY <1>2, AllOrNoneSurvive
<1>4. ~LineBreaks(config, j)
  BY <1>1 DEF ChainBroken
<1> QED BY <1>1, <1>3, <1>4 DEF TopologyLanded, Survivors

LEMMA LandedInvariant == Spec => [](DeploymentTypeOK /\ TopologyLanded)
<1>1. Init => TopologyLanded
  BY DEF Init, TopologyLanded
<1>2. DeploymentTypeOK /\ TopologyLanded /\ [Next]_vars => TopologyLanded'
  BY LandedStep
<1> QED BY <1>1, <1>2, DeploymentTypes, PTL DEF Spec

(***************************************************************************)
(* LivePeersAreLive, for every configuration, whatever its length, launch    *)
(* method and velocity: the peer list of a working node, which looks at no   *)
(* node's condition, names working nodes only, if the line held.            *)
(***************************************************************************)
THEOREM PeersAreLive == Spec => []LivePeersAreLive
<1>1. DeploymentTypeOK /\ TopologyLanded => LivePeersAreLive
  BY NeighboursWork DEF DeploymentTypeOK, LivePeersAreLive
<1> QED BY <1>1, LandedInvariant, PTL

------------------------------------------------------------------------------
(***************************************************************************)
(* The arming of a chain.                                                  *)
(***************************************************************************)

\* What each phase says of the topology: before the launch there is none, after
\* it no node has joined, once joined the join result is about this topology, and
\* once armed the test would pass some node again.
PhaseMeaning ==
  /\ phase = "stowed" <=> topology = None
  /\ topology # None => topology.joined \subseteq topology.up
  /\ phase = "deployed" => topology.joined = {}
  /\ phase \in {"chain_joining", "operational"} =>
       /\ joinResult # None
       /\ joinResult.launch = topology.launch
       /\ joinResult.joined = topology.joined
  /\ phase = "operational" => Passing # {}

IInv == DeploymentTypeOK /\ PhaseMeaning /\ OperationalIsBacked

LEMMA ArmingStep == IInv /\ [Next]_vars => IInv'
<1> SUFFICES ASSUME IInv, [Next]_vars
             PROVE  PhaseMeaning' /\ OperationalIsBacked'
  BY TypeStep DEF IInv
<1> USE DEF IInv
<1>1. ASSUME BuildChain
      PROVE  PhaseMeaning' /\ OperationalIsBacked'
  <2>1. launches + 1 \in Nat /\ config \in Configs
    BY DEF DeploymentTypeOK
  <2>2. /\ topology' = Landed(launches + 1)
        /\ phase' = "deployed"
    BY <1>1 DEF BuildChain
  <2>3. topology' # None /\ topology'.joined = {}
    BY <2>1, <2>2, LandedChain, NoneAssumption
  <2> QED
    BY <2>2, <2>3 DEF PhaseMeaning, OperationalIsBacked
<1>2. CASE SimulateLaunch
  BY <1>1, <1>2 DEF SimulateLaunch
<1>3. CASE FullDeploySequence
  BY <1>1, <1>3 DEF FullDeploySequence
<1>4. CASE RunMeshAutoJoin
  <2> DEFINE joined == topology.up \cap joins
  <2>1. topology \in [launch : 1..launches, nodes : SUBSET Nat, up : SUBSET Nat,
                      joined : SUBSET Nat]
    BY <1>4 DEF RunMeshAutoJoin, DeploymentTypeOK
  <2>2. /\ topology' = [topology EXCEPT !.joined = joined]
        /\ joinResult' = [launch |-> topology.launch, joined |-> joined,
                          failed |-> topology.nodes \ joined]
        /\ phase' = "chain_joining"
    BY <1>4 DEF RunMeshAutoJoin
  <2>3. /\ topology'.launch = topology.launch
        /\ topology'.up = topology.up
        /\ topology'.joined = joined
    BY <2>1, <2>2
  <2>4. topology' \in [launch : Nat, nodes : SUBSET Nat, up : SUBSET Nat, joined : SUBSET Nat]
    BY <2>1, <2>2 DEF DeploymentTypeOK
  <2>5. joinResult' \in [launch : Nat, joined : SUBSET Nat, failed : SUBSET Nat]
    BY <2>1, <2>2 DEF DeploymentTypeOK
  <2>6. topology' # None /\ joinResult' # None
    BY <2>4, <2>5, NoneAssumption
  <2> QED
    BY <2>2, <2>3, <2>6 DEF PhaseMeaning, OperationalIsBacked
<1>5. CASE RunPostLandingChecks
  <2>1. topology # None /\ UNCHANGED <<topology, joinResult>>
    BY <1>5 DEF RunPostLandingChecks
  <2>2. /\ postLanding' = [launch |-> topology.launch, checked |-> topology.nodes,
                           passed |-> Passing]
        /\ phase' = IF Passing # {} THEN "operational" ELSE phase
    BY <1>5 DEF RunPostLandingChecks
  <2>3. Passing' = Passing
    BY <1>5 DEF RunPostLandingChecks, Passing, draws
  <2>4. CASE Passing = {}
    \* Such a chain was not armed before: the same nodes pass each time.
    <3>1. phase' = phase /\ phase # "operational"
      BY <2>2, <2>4 DEF PhaseMeaning
    <3> QED
      BY <2>1, <2>2, <2>3, <3>1 DEF PhaseMeaning, OperationalIsBacked
  <2>5. CASE Passing # {}
    <3>1. topology \in [launch : 1..launches, nodes : SUBSET Nat, up : SUBSET Nat,
                        joined : SUBSET Nat]
      BY <2>1 DEF DeploymentTypeOK
    <3>2. phase' = "operational" /\ postLanding'.passed = Passing
          /\ postLanding'.launch = topology.launch
      BY <2>2, <2>5
    <3>3. postLanding' \in [launch : Nat, checked : SUBSET Nat, passed : SUBSET Nat]
      BY <2>2, <3>1 DEF Passing, DeploymentTypeOK
    <3>4. postLanding' # None
      BY <3>3, NoneAssumption
    <3>5. phase \in {"chain_joining", "operational"}
      \* Launched and not joined, no node could have passed.
      BY <2>1, <2>5 DEF PhaseMeaning, Passing, DeploymentTypeOK, Phases
    <3>6. PhaseMeaning'
      BY <2>1, <2>3, <2>5, <3>2, <3>5 DEF PhaseMeaning
    <3>7. Passing \subseteq topology.joined
      BY DEF Passing
    <3> QED
      BY <2>1, <2>5, <3>2, <3>4, <3>5, <3>6, <3>7 DEF PhaseMeaning, OperationalIsBacked
  <2> QED
    BY <2>4, <2>5
<1>6. CASE Restart
  BY <1>6 DEF Restart, PhaseMeaning, OperationalIsBacked
<1>7. CASE UNCHANGED vars
  BY <1>7 DEF vars, draws, PhaseMeaning, OperationalIsBacked, Passing
<1> QED
  BY <1>2, <1>3, <1>4, <1>5, <1>6, <1>7 DEF Next

LEMMA ArmingInit == Init => IInv
<1> SUFFICES ASSUME Init
             PROVE  PhaseMeaning /\ OperationalIsBacked
  BY TypeInit DEF IInv
<1> QED
  BY DEF Init, PhaseMeaning, OperationalIsBacked

\* An operational chain has a node that works, has joined and has passed the test
\* of the present launch, whatever was launched, joined or tested before.
THEOREM ArmedIsBacked == Spec => []OperationalIsBacked
<1>1. Spec => []IInv
  BY ArmingInit, ArmingStep, PTL DEF Spec
<1>2. IInv => OperationalIsBacked
  BY DEF IInv
<1> QED
  BY <1>1, <1>2, PTL

\* Only a hand-emplaced chain is ever armed.
OnlyEmplacedIsArmed == phase = "operational" => config.method = "hand_emplace"

(***************************************************************************)
(* No chain that is thrown ever becomes operational (physics.py:138-142 with *)
(* manager.py:96): the softest throw is above what the receiver of a node     *)
(* survives, at every node, velocity and length. The default launch method   *)
(* and every unknown one are such throws.                                   *)
(***************************************************************************)
THEOREM ThrownChainsStaySilent == Spec => []OnlyEmplacedIsArmed
<1>1. ASSUME DeploymentTypeOK, TopologyLanded, OperationalIsBacked
      PROVE  OnlyEmplacedIsArmed
  <2> SUFFICES ASSUME phase = "operational", config.method # "hand_emplace"
               PROVE  FALSE
    BY DEF OnlyEmplacedIsArmed
  <2>1. /\ topology # None /\ postLanding.passed # {}
        /\ postLanding.passed \subseteq topology.joined /\ topology.joined \subseteq topology.up
    BY <1>1 DEF OperationalIsBacked
  <2>2. PICK i : i \in Survivors(config)
    BY <1>1, <2>1 DEF TopologyLanded
  <2>3. config \in Configs
    BY <1>1 DEF DeploymentTypeOK
  <2>4. i \in 0..(NodeCount(config) - 1) /\ PeakG(config, i) <= 2500
    BY <2>2 DEF Survivors, LandedNodes, SurvivalG
  <2>5. LaunchPeakG[Method(config)] \in {35, 55, 450}
    BY DEF Method, LaunchPeakG
  <2>6. 748 * LaunchPeakG[Method(config)] <= 10 * (PeakG(config, i) + 1) /\ PeakG(config, i) \in Int
    BY <2>3, <2>4, PeakBounds
  <2> QED BY <2>4, <2>5, <2>6
<1> QED BY <1>1, LandedInvariant, ArmedIsBacked, PTL

\* The manager implements the phases the guardian relies on: a chain is not armed
\* unless it has been launched and joined since.
THEOREM ManagerImplementsPhases == Spec => ImplementsPhases
<1>1. Init => Stage!Init
  BY DEF Init, Stage!Init
<1>2. IInv /\ [Next]_vars => [Stage!Next]_phase
  <2> SUFFICES ASSUME IInv, [Next]_vars
               PROVE  [Stage!Next]_phase
    OBVIOUS
  <2>1. CASE SimulateLaunch \/ FullDeploySequence
    BY <2>1 DEF SimulateLaunch, FullDeploySequence, BuildChain, Stage!Next, Stage!Launch
  <2>2. CASE RunMeshAutoJoin
    BY <2>2 DEF RunMeshAutoJoin, IInv, PhaseMeaning, Stage!Next, Stage!Join, Stage!Launched
  <2>3. CASE RunPostLandingChecks
    <3>1. CASE Passing = {}
      BY <2>3, <3>1 DEF RunPostLandingChecks
    <3>2. CASE Passing # {}
      <4>1. phase' = "operational"
        BY <2>3, <3>2 DEF RunPostLandingChecks
      <4>2. phase \in {"chain_joining", "operational"}
        BY <2>3, <3>2 DEF RunPostLandingChecks, IInv, PhaseMeaning, Passing,
                          DeploymentTypeOK, Phases
      <4> QED
        BY <4>1, <4>2 DEF Stage!Next, Stage!Arm, Stage!Joined
    <3> QED
      BY <3>1, <3>2
  <2>4. CASE Restart
    BY <2>4 DEF Restart, Stage!Next, Stage!Forget
  <2>5. CASE UNCHANGED vars
    BY <2>5 DEF vars
  <2> QED
    BY <2>1, <2>2, <2>3, <2>4, <2>5 DEF Next
<1>3. Spec => []IInv
  BY ArmingInit, ArmingStep, PTL DEF Spec
<1> QED
  BY <1>1, <1>2, <1>3, PTL DEF Spec, ImplementsPhases, Stage!Spec
===============================================================================
