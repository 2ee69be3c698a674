---------------------------- MODULE MCSensorWatch ----------------------------
(***************************************************************************)
(* Model checking of a node on watch: the weights, thresholds and duty cycle *)
(* of the shipped configuration, on nodes with and without hardware.        *)
(***************************************************************************)
EXTENDS SensorWatch

DefaultWeights == [pir |-> 30, acoustic |-> 25, rf |-> 20, visual |-> 25, passive |-> 10]
DefaultThresholds == [yellow |-> 35, orange |-> 55, red |-> 75]

\* No device is found and psutil is missing: everything is simulated.
Bare == [devices |-> {}, psutil |-> FALSE, active |-> 4, sleep |-> 6, step |-> 2,
         uptime |-> 60, scenario |-> "benign", noise |-> {-1, 0, 1}]

\* A node of the bill of materials, sampling every 2 s.
Field == [Bare EXCEPT !.devices = {"pir", "acoustic", "visual", "tamper"}, !.psutil = TRUE,
                      !.noise = {-1, 1}]

\* The same without a sleep window, and with a motion sensor only, every second.
AlwaysOn == [Field EXCEPT !.step = 10, !.active = 10, !.sleep = 0, !.devices = {}, !.noise = {0}]
Fast == [Field EXCEPT !.step = 1, !.uptime = 1, !.devices = {"pir"}, !.noise = {0}]

\* The fallback scenarios of the live array.
Staged == {[Bare EXCEPT !.scenario = s] : s \in {"intrusion", "jamming", "low_visibility"}}

ModelConfigs == {Bare, Field, AlwaysOn, Fast} \cup Staged
ModelSamples ==
  [c \in ModelConfigs |-> CASE c = Bare -> 168
                            [] c = AlwaysOn -> 20
                            [] c \in Staged -> 6
                            [] OTHER -> 14]
ModelChanges == [c \in ModelConfigs |-> IF c \in {Bare} \cup Staged THEN 0 ELSE 2]

ModelScenes ==
  {Quiet,
   [Quiet EXCEPT !.intruder = TRUE, !.sound = "propeller"],
   [Quiet EXCEPT !.traffic = TRUE, !.sound = "wind"],
   [Quiet EXCEPT !.open = TRUE, !.sound = "failure"]}

ModelNotes ==
  {[long |-> TRUE, encoded |-> TRUE, entropy |-> 2],
   [long |-> TRUE, encoded |-> TRUE, entropy |-> 3],
   [long |-> TRUE, encoded |-> FALSE, entropy |-> 3]}
==============================================================================
