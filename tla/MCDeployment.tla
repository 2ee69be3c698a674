----------------------------- MODULE MCDeployment -----------------------------
(***************************************************************************)
(* Three-node chains: hand-emplaced, thrown softly at two velocities, by   *)
(* spring, by an unknown method, and hand-emplaced with nodes so heavy     *)
(* that the line breaks; and a chain whose profile asks for one node.      *)
(***************************************************************************)
EXTENDS Deployment

Chain(method, count, mass, velocity) ==
  [method |-> method, count |-> count, mass |-> mass, velocity |-> velocity]

SomeConfigs ==
  { Chain("hand_emplace", 3, 250, 18),
    Chain("hand_emplace", 3, 20000, 18),
    Chain("hand_emplace", 1, 250, 0),
    Chain("pneumatic_soft", 3, 250, 18),
    Chain("pneumatic_soft", 3, 250, 0),
    Chain("spring_launcher", 3, 250, 30),
    Chain("catapult", 3, 250, 18),
    Chain("line_charge_reference", 3, 250, 30) }
===============================================================================
