----------------------------- MODULE SensorWatch -----------------------------
(***************************************************************************)
(* A node on watch: the live sensor array (sentry/hardware/live_array.py)   *)
(* with its duty cycle and its detectors, the scoring, and the guardian of  *)
(* Guardian.tla, over a scene that changes. One sample with everything      *)
(* run_live_ingest does about its level is one step; the records, the wipe  *)
(* and the mesh are LiveIngest.tla. The monotonic clock is the wall clock   *)
(* plus the uptime of the machine when the process started.                *)
(***************************************************************************)
EXTENDS Guardian, Detectors

CONSTANTS
  Configs,     \* hardware, psutil, duty cycle, sampling, uptime, scenario, noise
  Scenes,      \* what the sensors can meet
  Notes,       \* texts others may write to the scanned logs
  MaxSamples,  \* bound: samples taken, per configuration
  MaxChanges   \* bound: changes of the scene, notes and restarts, likewise

Sounds == {"propeller", "wind", "silence", "failure"}

ASSUME WatchBoundAssumption ==
  MaxSamples \in [Configs -> 0..MaxFrames] /\ MaxChanges \in [Configs -> Nat]
ASSUME ConfigAssumption ==
  \A c \in Configs :
    c.noise \subseteq Int /\ {c.active, c.sleep, c.uptime} \subseteq Nat /\ c.step \in Nat \ {0}
ASSUME SoundAssumption == \A s \in Scenes : s.sound \in Sounds
ASSUME NoteAssumption == Notes \subseteq [long : BOOLEAN, encoded : BOOLEAN, entropy : Nat]

VARIABLES
  config,    \* the configuration of the node
  scene,     \* [intruder, sound, traffic, open]
  changes,   \* changes so far
  rf,        \* RfSensor
  ghost,     \* GhostMonitor
  lastHigh,  \* PirAdapter._last_high
  previous,  \* VisualAdapter._prev
  cycleStart, \* _cycle_start
  bytes,     \* the byte counters of the network interfaces
  logs,      \* the two scanned files: alerts and audit
  event,     \* the evidence of the latest sample
  past       \* history: latest traffic and motion met, and the latest three frames

array == <<rf, ghost, lastHigh, previous, cycleStart>>
watchVars == <<vars, config, scene, changes, array, bytes, logs, event, past>>

------------------------------------------------------------------------------
Period == config.active + config.sleep

\* Mutant of InActiveWindow: the window is one instant longer.
InActiveWindowInclusive(ts) ==
  Period <= 0 \/ (ts - cycleStart) % Period <= config.active

\* The duty cycle begins when the array is constructed.
InActiveWindow(ts) == Period <= 0 \/ (ts - cycleStart) % Period < config.active

Has(device) == device \in config.devices

\* A microphone that fails is silent; only a present and awake one is read.
Heard(sim, awake) ==
  IF awake /\ Has("acoustic") THEN AcousticScore(scene.sound) ELSE sim.acoustic

\* A moving intruder gives a new picture each time, an empty scene the same one.
Picture == IF scene.intruder THEN seq + 1 ELSE 0

Seen(sim, awake) ==
  IF awake /\ Has("visual") THEN VisualScore(previous, Picture) ELSE sim.visual

Flagged(file) == Scan(logs[file]).suspicious

\* LiveSensorArray.sample: the RF sensor is read in every window, the ghost
\* monitor is forced in the sleep window, and what is not read is simulated.
Sample(ts, sim) ==
  LET now == config.uptime + ts
      awake == InActiveWindow(ts)
      sweep == RfRead(rf, sim.rf, sim.jamming)
      rows == IF config.psutil
              THEN GhostSample(ghost, now, bytes', ~awake)
              ELSE GhostStart
      whisper == \E file \in DOMAIN logs : Flagged(file)
  IN /\ rf' = sweep.memory
     /\ ghost' = rows
     /\ lastHigh' = IF Has("pir") THEN PirHigh(lastHigh, scene.intruder, now) ELSE lastHigh
     /\ previous' = IF awake /\ Has("visual") THEN Picture ELSE previous
     /\ event' =
          [pir |-> IF Has("pir") THEN PirScore(lastHigh, scene.intruder, now) ELSE sim.pir,
           acoustic |-> Heard(sim, awake),
           rf |-> sweep.score,
           visual |-> Seen(sim, awake),
           passive |-> Smaller(Full, (IF rows.verdict THEN 240 ELSE 0)
                                       + (IF whisper THEN 240 ELSE 0)),
           lowVisibility |-> sim.lowVisibility,
           jamming |-> sweep.jamming,
           whisper |-> whisper,
           anomaly |-> rows.verdict,
           tamper |-> Has("tamper") /\ scene.open,
           awake |-> awake]

\* The node's own lines: a threat's rationale is long, and plain text.
OwnText(level) == [long |-> level \in Critical, encoded |-> FALSE, entropy |-> 1]

\* run_live_ingest writes each alert to one scanned file, critical ones to both.
WriteLogs(level, tamper) ==
  logs' = [file \in DOMAIN logs |->
             IF file = "alerts" \/ level \in Critical \/ tamper
             THEN Newest(Append(logs[file], OwnText(level)), LogLines)
             ELSE logs[file]]

Watching ==
  LET ts == IF seq = 0 THEN clock ELSE clock + config.step IN
  /\ seq < MaxSamples[config] /\ ts \in Times
  /\ clock' = ts
  /\ bytes' = bytes + (IF scene.traffic THEN 300 * config.step ELSE 0)
  /\ \E noise \in config.noise : Sample(ts, SimChannels(config.scenario, noise))
  /\ Process(ts, Raw(ScoredLevel(event'), event'.tamper), event'.tamper)
  /\ WriteLogs(frame'.level, event'.tamper)
  /\ past' = [past EXCEPT
       !.busy = IF scene.traffic THEN ts ELSE @,
       !.motion = IF scene.intruder THEN ts ELSE @,
       !.frames = Newest(Append(@, [awake |-> event'.awake, level |-> frame'.level]), 3)]
  /\ UNCHANGED <<phase, config, scene, changes, cycleStart>>

------------------------------------------------------------------------------
\* The world: the scene changes, or something is written to a scanned file.
SceneChanges ==
  /\ changes < MaxChanges[config]
  /\ changes' = changes + 1
  /\ scene' \in Scenes \ {scene}
  /\ UNCHANGED <<vars, config, array, bytes, logs, event, past>>

Note ==
  /\ changes < MaxChanges[config]
  /\ changes' = changes + 1
  /\ \E file \in DOMAIN logs, text \in Notes :
       logs' = [logs EXCEPT ![file] = Newest(Append(@, text), LogLines)]
  /\ UNCHANGED <<vars, config, scene, array, bytes, event, past>>

ArrayStart ==
  /\ rf = RfStart
  /\ ghost = GhostStart
  /\ lastHigh = 0
  /\ previous = NoPicture
  /\ cycleStart = 0

Quiet == [intruder |-> FALSE, sound |-> "silence", traffic |-> FALSE, open |-> FALSE]

NoEvent ==
  LET sim == SimChannels("benign", 0)
  IN [pir |-> sim.pir, acoustic |-> sim.acoustic, rf |-> sim.rf, visual |-> sim.visual,
      passive |-> 0, lowVisibility |-> FALSE, jamming |-> FALSE, whisper |-> FALSE,
      anomaly |-> FALSE, tamper |-> FALSE, awake |-> TRUE]

WatchInit ==
  /\ Init
  /\ config \in Configs
  /\ scene = Quiet
  /\ changes = 0
  /\ ArrayStart
  /\ bytes = 0
  /\ logs = [file \in {"alerts", "audit"} |-> <<>>]
  /\ event = NoEvent
  /\ past = [busy |-> NoTime, motion |-> NoTime, frames |-> <<>>]

\* systemd starts the process again: only the files remain.
Reboot ==
  /\ changes < MaxChanges[config]
  /\ changes' = changes + 1
  /\ Restart
  /\ rf' = RfStart
  /\ ghost' = GhostStart
  /\ lastHigh' = 0
  /\ previous' = NoPicture
  /\ cycleStart' = clock
  /\ event' = NoEvent
  /\ past' = [past EXCEPT !.frames = <<>>]
  /\ UNCHANGED <<config, scene, bytes, logs>>

WatchNext == Watching \/ SceneChanges \/ Note \/ Reboot

WatchSpec == WatchInit /\ [][WatchNext]_watchVars

------------------------------------------------------------------------------
(***************************************************************************)
(* Properties.                                                             *)
(***************************************************************************)

\* What the array remembers and what it hands to the guardian.
WatchTypeOK ==
  /\ TypeOK
  /\ \A c \in Channels : event[c] \in 0..Full
  /\ \A f \in Flags : event[f] \in BOOLEAN
  /\ rf.index \in Nat /\ DOMAIN rf.baselines \subseteq Range(Bands)
  /\ Len(ghost.rows) <= GhostWindow
  /\ \A file \in DOMAIN logs : Len(logs[file]) <= LogLines

\* No sensor, no network counter, no suspicious text, little noise: what is left
\* is synthetic.
Undisturbed ==
  /\ config.devices = {} /\ ~config.psutil /\ config.scenario = "benign"
  /\ config.noise \subseteq -1..1
  /\ ~event.whisper

\* The most that such noise and the drift of the radio's level amount to for long.
LoudestQuiet ==
  108 * Weights.pir + 156 * Weights.acoustic + 480 * Weights.rf + 120 * Weights.visual

(***************************************************************************)
(* "Quiet stays CLEAR" (README.md), for as long as it is true: a node that   *)
(* has nothing to detect is CLEAR in its first 83 reads of the RF bands.    *)
(* Every read of the synthetic 5.8 GHz band raises its level against a      *)
(* baseline that never moves, and from then on it can be taken for jamming; *)
(* from the 158th read on every read of that band is, and puts the node on  *)
(* HOLD, which stops its transmissions.                                    *)
(***************************************************************************)
QuietUntilDrift ==
  Undisturbed =>
    /\ rf.index <= 83 /\ (\A t \in DOMAIN Thresholds : LoudestQuiet < Full * Thresholds[t])
         => frame.level = "CLEAR"
    /\ rf.index >= 158 /\ BandOf([rf EXCEPT !.index = @ - 1]) = "5g8" /\ Thresholds.orange <= 55
         => frame.level = "HOLD"

\* The longest time between two rows: a sampling interval need not divide theirs.
RowGap ==
  Larger(config.step, ((GhostInterval + config.step - 1) \div config.step) * config.step)

(***************************************************************************)
(* The verdict on the network is not a memory of traffic that has ended:    *)
(* neither the cached result, nor rows that are still in the history when    *)
(* the node sleeps and samples often, or is awake and samples seldom, report *)
(* an anomaly when nothing was sent for as long as the history can span.    *)
(***************************************************************************)
AnomalyNeedsRecentTraffic ==
  event.anomaly => past.busy # NoTime /\ clock - past.busy <= GhostWindow * RowGap

(***************************************************************************)
(* The whisper flag is about the scanned lines, and what it misses is       *)
(* masked: a suspicious text among the newest lines of a file goes unseen    *)
(* only behind a later text of that file with a higher entropy.             *)
(***************************************************************************)
WhisperMissesOnlyMasked ==
  \A file \in DOMAIN logs :
    LET lines == logs[file]
        found == {i \in DOMAIN lines : Suspicious(lines[i])}
    IN /\ Flagged(file) => found # {}
       /\ found # {} /\ ~Flagged(file) =>
            \E i \in found, j \in DOMAIN lines : j > i /\ lines[j].entropy > lines[i].entropy

(***************************************************************************)
(* Motion is reported only while there is some or for 2 s after it, at any   *)
(* sampling rate - but in the first 2 s of the machine's uptime always.      *)
(***************************************************************************)
MotionIsReal ==
  Has("pir") /\ event.pir = Full =>
    \/ past.motion # NoTime /\ clock - past.motion < 2
    \/ config.uptime + clock < 2

\* At most two samples in a row are awake, and the dwell time is longer than the
\* time between them: 4 s awake, 6 s asleep, a sample every 2 s, a dwell of 3 s.
ShortWindow ==
  config.active <= 2 * config.step /\ config.step <= config.sleep /\ config.step < Dwell

(***************************************************************************)
(* The duty cycle against the dwell time: the samples of one short window    *)
(* never confirm a threat. One that is published while awake showed in the   *)
(* sleep before, when microphone and camera are not read.                  *)
(***************************************************************************)
AwakeThreatSeenAsleep ==
  ShortWindow /\ event.awake /\ frame.level \in Threat =>
    \E i \in 1..(Len(past.frames) - 1) :
      ~past.frames[i].awake /\ past.frames[i].level # "CLEAR"

(***************************************************************************)
(* Evidence is never held against itself: with one more saturated channel,   *)
(* one more alarm or a clear view the level of the present sample would not *)
(* be lower.                                                               *)
(***************************************************************************)
MoreEvidenceNeverLowers ==
  \A more \in Raised(event) : Rank(ScoredLevel(more)) >= Rank(ScoredLevel(event))
==============================================================================
