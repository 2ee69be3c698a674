----------------------------- MODULE Acceptance -----------------------------
(***************************************************************************)
(* The acceptance gates of a built node: validation/run_gate.py (G1 to G5)  *)
(* and the built-in test of sentry-guard --probe, over the probes of the    *)
(* adapters. A build is the set of parts and packages on the node; a gate   *)
(* reads what the adapters can tell of it. Power is in hundredths of a watt, *)
(* a soak in minutes. The manual confirmation a report asks for is made by   *)
(* nothing in the repository.                                               *)
(***************************************************************************)
EXTENDS Naturals, FiniteSets

CONSTANTS
  Builds,       \* the builds the gates are run on
  Soaks,        \* --soak-minutes
  MaxGateRuns,  \* bound: gates run
  MaxFittings   \* bound: parts added or taken away

Parts ==
  {"pi", "gpio", "pir", "switch", "pyaudio", "microphone", "rtl_power", "dongle",
   "opencv", "camera", "meshtastic", "board"}

ASSUME AcceptanceAssumption ==
  Builds \subseteq SUBSET Parts /\ {MaxGateRuns, MaxFittings} \subseteq Nat /\ Soaks \subseteq Nat

VARIABLES
  build,      \* what is on the node
  fittings,   \* changes of the build so far
  reports     \* the reports of the gates run so far, latest last

acceptanceVars == <<build, fittings, reports>>

------------------------------------------------------------------------------
(***************************************************************************)
(* The adapters, as far as a probe goes.                                    *)
(***************************************************************************)
\* A GPIO line is claimed and read; nothing tells whether a device is on it.
GpioProbe(on) == {"pi", "gpio"} \subseteq on

\* The audio packages; a failed recording is a reading with source "error".
AcousticProbe(on) == "pyaudio" \in on

VisualProbe(on) == {"opencv", "camera"} \subseteq on

\* An open serial interface.
MeshProbe(on) == {"meshtastic", "board"} \subseteq on

\* RfSensor.probe returns before it looks for a band when the flag is not set;
\* behind it, every default band ends above what the receiver tunes, in MHz.
Highest == 1766
BandEnds == [capable |-> {2500}, incapable |-> {5900}]
BandInRange == \E mhz \in BandEnds.capable : mhz <= Highest
RfProbe(flag, on) == flag /\ BandInRange /\ "dongle" \in on

\* The constructor sets the flag to the answer of a probe made with it unset.
RfFlag(on) == "rtl_power" \in on /\ RfProbe(FALSE, on)

\* probe_all: the answers of freshly constructed adapters.
Available(on) ==
  {adapter \in {"pir_gpio", "acoustic_sensor", "rf_sensor", "visual", "tamper_gpio",
                "meshtastic_handler"} :
     CASE adapter \in {"pir_gpio", "tamper_gpio"} -> GpioProbe(on)
       [] adapter = "acoustic_sensor" -> AcousticProbe(on)
       [] adapter = "rf_sensor" -> RfProbe(RfFlag(on), on)
       [] adapter = "visual" -> VisualProbe(on)
       [] adapter = "meshtastic_handler" -> MeshProbe(on)}

Required == {"pir_gpio", "acoustic_sensor", "rf_sensor", "tamper_gpio", "meshtastic_handler"}

------------------------------------------------------------------------------
(***************************************************************************)
(* Power: PowerMetrics over the frames of a sample.                         *)
(***************************************************************************)
Watts(active, sweeping, listening, sending) ==
  (IF active THEN 250 ELSE 100) + (IF sweeping THEN 55 ELSE 0)
    + (IF listening THEN 25 ELSE 0) + (IF sending THEN 35 ELSE 0)

\* guardian.process records one estimate per frame: listening while the window
\* is active, sweeping if the radio answered, never sending.
FrameWatts(active, on) == Watts(active, active /\ RfFlag(on), active, FALSE)

\* The mean of the estimates against the target; no sample is no pass.
Target == 500
UnderTarget(awake, asleep, on) ==
  awake + asleep > 0 /\
    awake * FrameWatts(TRUE, on) + asleep * FrameWatts(FALSE, on) <= Target * (awake + asleep)

\* G5 samples at most two minutes, a frame every two seconds.
SampleMinutes(soak) == IF soak < 2 THEN soak ELSE 2
Frames(soak) == 30 * SampleMinutes(soak)

\* Mutant of Unsampled: minutes against seconds.
UnsampledInSeconds(soak) == soak > 60 * SampleMinutes(soak)

\* The rest of the soak is left to a person.
Unsampled(soak) == 60 * soak > 60 * SampleMinutes(soak)

------------------------------------------------------------------------------
Report(tool, gate, pass, failures, manual, soak, throttle) ==
  [tool |-> tool, gate |-> gate, build |-> build, pass |-> pass, failures |-> failures,
   manual |-> manual, soak |-> soak, throttle |-> throttle]

\* The tools exit 0 exactly when the report passes.
Filed(r) ==
  /\ Cardinality(reports) < MaxGateRuns
  /\ reports' = reports \cup {r}
  /\ UNCHANGED <<build, fittings>>

\* Mutant of MissingByProbe: the built-in test asks for the camera too.
MissingByProbeWithCamera(on) == (Required \cup {"visual"}) \ Available(on)

\* What each of the two implementations of G1 finds missing.
MissingByProbe(on) == Required \ Available(on)

MissingByHarness(on) == Required \ Available(on)

RunG1 ==
  LET missing == MissingByHarness(build)
  IN Filed(Report("run_gate", "G1", missing = {} /\ "pi" \in build, missing, FALSE, 0, 0))

RunProbe ==
  LET missing == MissingByProbe(build)
  IN Filed(Report("guard", "G1", missing = {} /\ "pi" \in build, missing, FALSE, 0, 0))

\* sentry-guard --gate G2 to G5 only points to the harness, and fails.
RunStub(gate) == Filed(Report("guard", gate, FALSE, {}, TRUE, 0, 0))

\* Presence gates; a person confirms the effect.
RunG2 == Filed(Report("run_gate", "G2", RfFlag(build), {}, TRUE, 0, 0))
RunG3 == Filed(Report("run_gate", "G3", AcousticProbe(build), {}, TRUE, 0, 0))
RunG4 == Filed(Report("run_gate", "G4", MeshProbe(build), {}, TRUE, 0, 0))

\* The soak, throttled from some minute on (one past the soak: never), awake for
\* some of the frames of the sample.
RunG5 ==
  \E soak \in Soaks :
    \E throttle \in 0..soak, awake \in {0, (2 * Frames(soak)) \div 5, Frames(soak)} :
      LET hot == Frames(soak) = 0 \/ throttle < SampleMinutes(soak)
          pass == UnderTarget(awake, Frames(soak) - awake, build) /\ ~hot
      IN Filed(Report("run_gate", "G5", pass, {}, Unsampled(soak), soak, throttle))

\* A part is fitted, or fails.
Refit ==
  /\ fittings < MaxFittings
  /\ fittings' = fittings + 1
  /\ \E part \in Parts :
       build' = IF part \in build THEN build \ {part} ELSE build \cup {part}
  /\ UNCHANGED reports

AcceptanceStart == fittings = 0 /\ reports = {}

AcceptanceInit == AcceptanceStart /\ build \in Builds

AcceptanceNext ==
  \/ RunG1 \/ RunProbe \/ RunG2 \/ RunG3 \/ RunG4 \/ RunG5 \/ Refit
  \/ \E gate \in {"G2", "G3", "G4", "G5"} : RunStub(gate)

AcceptanceSpec == AcceptanceInit /\ [][AcceptanceNext]_acceptanceVars

------------------------------------------------------------------------------
(***************************************************************************)
(* Properties.                                                             *)
(***************************************************************************)
Complete(on) == on = Parts

(***************************************************************************)
(* docs/gate_execution.md: G1 on a finished node reports five required      *)
(* adapters and "pass": true.                                              *)
(***************************************************************************)
CompleteNodePassesG1 == \A r \in reports : r.gate = "G1" /\ Complete(r.build) => r.pass

\* Parts no probe of G1 can tell of: a line, a package and a flag answer for them.
Blind == {"pir", "switch", "microphone", "rtl_power", "dongle", "opencv", "camera"}

(***************************************************************************)
(* What a G1 report depends on: two of them, of either implementation, on    *)
(* builds that differ in blind parts only say the same. A node without its   *)
(* motion sensor, tamper switch and microphone reports as the finished one. *)
(***************************************************************************)
ReportsTellOnlyVisibleParts ==
  \A r, s \in reports :
    r.gate = "G1" /\ s.gate = "G1" /\ r.build \ Blind = s.build \ Blind
      => r.failures = s.failures /\ r.pass = s.pass

(***************************************************************************)
(* A soak that passes without asking for a person has been sampled to its   *)
(* end: no throttling in any of the minutes that were asked for. Of power   *)
(* the gate sees nothing: the estimates of a frame cannot exceed the target. *)
(***************************************************************************)
UnconfirmedSoakIsWhole ==
  \A r \in reports :
    r.gate = "G5" /\ r.tool = "run_gate" =>
      /\ r.pass /\ ~r.manual => r.soak > 0 /\ r.throttle >= r.soak
      /\ r.soak > 0 /\ r.throttle >= SampleMinutes(r.soak) => r.pass
==============================================================================
