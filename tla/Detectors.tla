------------------------------ MODULE Detectors ------------------------------
(***************************************************************************)
(* The sensors and passive detectors of a node (sentry/sensors, hardware/, *)
(* simulation/synthetic.py), each as a function of what it remembers and    *)
(* what it meets. Scores are parts of Full, levels are tenths of a decibel, *)
(* times are seconds.                                                      *)
(***************************************************************************)
EXTENDS Scoring, Sequences, SequencesExt, Functions

CONSTANTS
  GhostInterval,  \* ghost_monitor.sample_interval_s
  GhostWindow,    \* rows of its history: max(4, window)
  LogLines        \* whisper_detector.max_lines

ASSUME DetectorAssumption ==
  GhostInterval \in Nat /\ GhostWindow \in Nat \ 0..3 /\ LogLines \in Nat \ {0}

Clamp(v) == Larger(0, Smaller(Full, v))

------------------------------------------------------------------------------
\* SimulatedSensorArray.sample at the epoch time the live array hands in: an
\* intrusion or a jamming that is to begin some seconds after 0 is long complete.
Intruding(scenario) == scenario # "benign"

SimChannels(scenario, noise) ==
  LET full == IF Intruding(scenario) THEN 1 ELSE 0
      jamming == scenario = "jamming"
      visual == 72 + 960 * full + 48 * noise
  IN [pir |-> Clamp(60 + 1020 * full + 48 * noise),
      acoustic |-> Clamp(96 + 900 * full + 60 * noise),
      rf |-> Clamp(48 + (IF jamming THEN 1176 ELSE 480 * full) + 24 * noise),
      visual |-> Clamp(IF scenario = "low_visibility" THEN (visual * 35) \div 100 ELSE visual),
      jamming |-> jamming,
      lowVisibility |-> scenario = "low_visibility"]

------------------------------------------------------------------------------
\* The two RF bands take turns. No band is ever swept by a radio: see Acceptance.tla.
Bands == <<"2g4", "5g8">>
BandOf(rf) == Bands[(rf.index % Len(Bands)) + 1]

RfStart == [index |-> 0, baselines |-> <<>>, peak |-> -550]

\* Mutant of Drift: the level of the untunable band rises by twice as much.
DriftDoubled(rf) == IF BandOf(rf) = "5g8" THEN rf.peak + 2 ELSE rf.peak

\* Each synthetic sweep of 5.8 GHz is 0.1 dB above the one before.
Drift(rf) == IF BandOf(rf) = "5g8" THEN rf.peak + 1 ELSE rf.peak

\* Lowest and highest bin of a synthetic sweep; the bins between are evenly
\* spaced. A synthetic RF score of 1 lifts it by 20 dB.
Sweep(rf, synthetic) ==
  LET low == IF BandOf(rf) = "5g8" THEN Drift(rf) - 50 ELSE -500
      lift == synthetic \div 6
  IN [low |-> low + lift,
      high |-> low + lift + (IF BandOf(rf) = "5g8" THEN 0 ELSE 19)]

\* The lowest bin of the first sweep of a band is its baseline for good.
Baselines(rf, sweep) ==
  [b \in DOMAIN rf.baselines \cup {BandOf(rf)} |->
     IF b \in DOMAIN rf.baselines THEN rf.baselines[b] ELSE sweep.low]

\* rtl_power_anomaly_score, with a jamming delta of 12 dB: a flat and high sweep.
LooksJammed(sweep, base) ==
  \/ sweep.high - sweep.low < 30 /\ sweep.high - base > 72
  \/ sweep.high - sweep.low < 40 /\ sweep.low + sweep.high > 2 * (base + 48)

\* Mutant of JammedScore: the score of a jammed band is not clamped.
JammedScoreUnclamped(score, synthetic) == Larger(score, synthetic + 600)

JammedScore(score, synthetic) == Larger(score, Clamp(synthetic + 600))

\* RfSensor.read
RfRead(rf, synthetic, syntheticJamming) ==
  LET sweep == Sweep(rf, synthetic)
      baselines == Baselines(rf, sweep)
      base == baselines[BandOf(rf)]
      jamming == syntheticJamming \/ LooksJammed(sweep, base)
      score == Clamp(10 * (sweep.high - base))
  IN [memory |-> [index |-> rf.index + 1, baselines |-> baselines, peak |-> Drift(rf)],
      jamming |-> jamming,
      score |-> IF jamming THEN JammedScore(score, synthetic) ELSE score]

------------------------------------------------------------------------------
\* GhostMonitor: rows of time and byte counter, and the latest verdict.
GhostStart == [last |-> 0, rows |-> <<>>, verdict |-> FALSE]

\* On average 512 bytes between two rows, and rows at regular times: the
\* deviation of the intervals is at most 0.6 of their mean.
LooksRegular(rows) ==
  LET n == Len(rows) - 1
      span == rows[n + 1].time - rows[1].time
      deviation == [i \in 1..n |-> (n * (rows[i + 1].time - rows[i].time) - span) ^ 2]
  IN /\ rows[n + 1].bytes - rows[1].bytes >= 512 * n
     /\ 100 * SumFunction(deviation) <= 36 * (n - 1) * span ^ 2

\* deque(maxlen), and splitlines()[-max_lines:]
Newest(rows, n) == SubSeq(rows, Larger(1, Len(rows) - n + 1), Len(rows))

\* Mutant of GhostSample: the history is not bounded.
GhostSampleUnbounded(ghost, now, bytes, force) ==
  IF ~force /\ now - ghost.last < GhostInterval
  THEN ghost
  ELSE LET rows == Append(ghost.rows, [time |-> now, bytes |-> bytes])
       IN [last |-> now, rows |-> rows, verdict |-> Len(rows) >= 4 /\ LooksRegular(rows)]

\* GhostMonitor.sample: inside the interval, unless forced, the latest verdict.
GhostSample(ghost, now, bytes, force) ==
  IF ~force /\ now - ghost.last < GhostInterval
  THEN ghost
  ELSE LET rows == Newest(Append(ghost.rows, [time |-> now, bytes |-> bytes]), GhostWindow)
       IN [last |-> now, rows |-> rows, verdict |-> Len(rows) >= 4 /\ LooksRegular(rows)]

------------------------------------------------------------------------------
\* WhisperDetector: a text is long or not, encoded-looking or not, and has an
\* entropy class; class 2 is the threshold.
Suspicious(text) == text.long /\ text.encoded /\ text.entropy >= 2

Analyse(text) ==
  [suspicious |-> Suspicious(text), entropy |-> IF text.long THEN text.entropy ELSE 0]

\* Mutant of Stronger: the score no longer counts, only the entropy.
StrongerByEntropy(result, strongest) == result.entropy > strongest.entropy

Stronger(result, strongest) ==
  \/ result.suspicious /\ ~strongest.suspicious
  \/ result.entropy > strongest.entropy

NothingFound == [suspicious |-> FALSE, entropy |-> 0]

\* scan_texts: the strongest of the first n lines, for each n.
Strongest(lines) ==
  LET strongest[n \in 0..Len(lines)] ==
        IF n = 0 THEN NothingFound
        ELSE IF Stronger(Analyse(lines[n]), strongest[n - 1])
        THEN Analyse(lines[n])
        ELSE strongest[n - 1]
  IN strongest

\* scan_jsonl: the strongest of the newest lines of a file.
Scan(file) ==
  LET lines == Newest(file, LogLines)
  IN Strongest(lines)[Len(lines)]

------------------------------------------------------------------------------
\* Mutant of PirHigh: a motion that is still reported counts as a new motion.
PirHighRefreshed(lastHigh, level, now) ==
  IF level \/ now - lastHigh < 2 THEN now ELSE lastHigh

\* PirAdapter.read: the latest reading of a high level.
PirHigh(lastHigh, level, now) == IF level THEN now ELSE lastHigh

\* Motion is reported for 2 s; the first "latest motion" is at time 0.
PirScore(lastHigh, level, now) ==
  IF level \/ now - PirHigh(lastHigh, level, now) < 2 THEN Full ELSE 0

NoPicture == -1

\* VisualAdapter.read: the difference from the frame read before, however old.
VisualScore(previous, picture) ==
  IF previous \in {NoPicture, picture} THEN 0 ELSE Full

\* AcousticSensor.read and its FFT: wind is broadband and has no peak; a device
\* that fails reads as silence.
AcousticScore(sound) ==
  CASE sound = "propeller" -> Full
    [] sound = "wind"      -> (720 * 92) \div 100
    [] sound = "silence"   -> 120
    [] sound = "failure"   -> 0
==============================================================================
