-------------------------- MODULE DeploymentPhysics --------------------------
(***************************************************************************)
(* Which nodes of a thrown line come down in working order                 *)
(* (sentry/deployment/physics.py). The code computes with floating-point   *)
(* numbers; here acceleration is in hundredths of g, mass in grams and     *)
(* velocity in m/s, rounded down. A configuration is a record of the       *)
(* fields of ChainDeploymentConfig that matter.                            *)
(***************************************************************************)
EXTENDS Integers

LaunchPeakG == [hand_emplace          |-> 8,
                pneumatic_soft        |-> 35,
                spring_launcher       |-> 55,
                line_charge_reference |-> 450]

\* What each component of a node survives, in g.
SurvivalG == [pi_zero_2w |-> 40, rtl_sdr_v3 |-> 25, mems_mic |-> 30, lipo_2s |-> 60]

\* An unknown launch method is taken for the soft pneumatic one.
Method(c) ==
  IF c.method \in DOMAIN LaunchPeakG THEN c.method ELSE "pneumatic_soft"

NodeCount(c) == IF c.count < 2 THEN 2 ELSE c.count

\* At 25 m/s and above the launch is felt in full.
VelocityFactor(c) == 8500 + 60 * (IF c.velocity < 25 THEN c.velocity ELSE 25)

\* Mutant of PeakG: the whip takes off half of the peak by the end of the line.
PeakGHalved(c, i) ==
  (LaunchPeakG[Method(c)] * (100 * (NodeCount(c) - 1) - 50 * i) * VelocityFactor(c))
    \div (10000 * (NodeCount(c) - 1))

\* The peak at node i: the whip takes off up to 12 percent along the line.
PeakG(c, i) ==
  (LaunchPeakG[Method(c)] * (100 * (NodeCount(c) - 1) - 12 * i) * VelocityFactor(c))
    \div (10000 * (NodeCount(c) - 1))

\* The tension, mass * 9.81 * (peak + sin 15 degrees), is above 1200 N. The
\* anchor's line never breaks.
LineBreaks(c, i) == i > 0 /\ (PeakG(c, i) + 26) * c.mass > 12232416

\* The nodes the result holds: the loop stops at the first break.
LandedNodes(c) ==
  {i \in 0..(NodeCount(c) - 1) : \A j \in 1..(i - 1) : ~LineBreaks(c, j)}

\* node_operational: every component survives and the line holds.
Survivors(c) ==
  {i \in LandedNodes(c) : /\ \A part \in DOMAIN SurvivalG : PeakG(c, i) <= 100 * SurvivalG[part]
                          /\ ~LineBreaks(c, i)}

ChainBroken(c) == \E i \in LandedNodes(c) : LineBreaks(c, i)
==============================================================================
