---------------------------- MODULE SensingProofs ----------------------------
(***************************************************************************)
(* Proofs about the scoring and the node on watch, for all weights,          *)
(* thresholds, configurations and scenes: the level follows the evidence,    *)
(* and the evidence what the sensors and the two files really showed.       *)
(***************************************************************************)
EXTENDS SensorWatch, GuardianProofs, SequenceTheorems, WellFoundedInduction

\* What the scoring needs to know of an event.
Typed(e) ==
  /\ Channels \cup Flags \subseteq DOMAIN e
  /\ \A c \in Channels : e[c] \in 0..Full
  /\ \A f \in Flags : e[f] \in BOOLEAN

\* The scores of a channel are numbers, in the order of the evidence.
LEMMA ChannelGrows ==
  ASSUME NEW a, NEW b, Typed(a), Typed(b), AtLeast(a, b), NEW c \in Channels
  PROVE  a[c] \in Nat /\ b[c] \in Nat /\ a[c] >= b[c]
<1>1. a[c] \in 0..Full /\ b[c] \in 0..Full
  BY DEF Typed
<1>2. a[c] >= b[c]
  BY DEF AtLeast
<1>3. 0..Full \subseteq Nat
  BY DEF Full
<1> QED BY <1>1, <1>2, <1>3

\* A weight times a larger score is not smaller.
LEMMA ProductGrows ==
  ASSUME NEW w \in Nat, NEW x \in Nat, NEW y \in Nat, x >= y
  PROVE  w * x \in Nat /\ w * y \in Nat /\ w * x >= w * y
<1>1. PICK d \in Nat : x = y + d
  <2>1. x - y \in Nat /\ x = y + (x - y)
    OBVIOUS
  <2> QED BY <2>1
<1>2. w * d \in Nat /\ w * y \in Nat
  OBVIOUS
<1>3. w * x = w * y + w * d
  BY <1>1
<1> QED BY <1>2, <1>3

\* The fused sum follows every channel (fusion.py: the weights are not negative).
LEMMA WeightedGrows ==
  ASSUME NEW a, NEW b, Typed(a), Typed(b), AtLeast(a, b)
  PROVE  Weighted(a) \in Nat /\ Weighted(b) \in Nat /\ Weighted(a) >= Weighted(b)
<1>1. ASSUME NEW c \in Channels
      PROVE  /\ Weights[c] * a[c] \in Nat /\ Weights[c] * b[c] \in Nat
             /\ Weights[c] * a[c] >= Weights[c] * b[c]
  <2>1. Weights[c] \in Nat /\ a[c] \in Nat /\ b[c] \in Nat /\ a[c] >= b[c]
    BY WeightsAssumption, ChannelGrows
  <2> QED BY <2>1, ProductGrows
<1>2. {"pir", "acoustic", "rf", "visual", "passive"} = Channels
  BY DEF Channels
<1> DEFINE A(c) == Weights[c] * a[c]
           B(c) == Weights[c] * b[c]
<1>3. \A c \in Channels : A(c) \in Nat /\ B(c) \in Nat /\ A(c) >= B(c)
  BY <1>1
<1>4. /\ Weighted(a) = A("pir") + A("acoustic") + A("rf") + A("visual") + A("passive")
      /\ Weighted(b) = B("pir") + B("acoustic") + B("rf") + B("visual") + B("passive")
  BY DEF Weighted
<1> HIDE DEF A, B
<1> QED BY <1>2, <1>3, <1>4

\* So does the fused score: damping only where the other is damped as well, and
\* the floor of the jamming only where the other may have it.
THEOREM ScoreGrows ==
  ASSUME NEW a, NEW b, Typed(a), Typed(b), AtLeast(a, b)
  PROVE  FusedScore(a) \in Nat /\ FusedScore(b) \in Nat /\ FusedScore(a) >= FusedScore(b)
<1>1. Weighted(a) \in Nat /\ Weighted(b) \in Nat /\ Weighted(a) >= Weighted(b)
  BY WeightedGrows
<1>2. a.lowVisibility \in BOOLEAN /\ b.lowVisibility \in BOOLEAN
      /\ (a.lowVisibility => b.lowVisibility)
  BY DEF Typed, Flags, AtLeast
<1>3. Damped(a) \in Nat /\ Damped(b) \in Nat /\ Damped(a) >= Damped(b)
  BY <1>1, <1>2 DEF Damped
<1>4. a.rf \in Nat /\ b.rf \in Nat /\ a.rf >= b.rf
  BY ChannelGrows DEF Channels
<1>5. a.jamming \in BOOLEAN /\ b.jamming \in BOOLEAN /\ (b.jamming => a.jamming)
  BY DEF Typed, AtLeast, Flags
<1> DEFINE A == IF a.jamming THEN Larger(Damped(a), 9500 * a.rf) ELSE Damped(a)
           B == IF b.jamming THEN Larger(Damped(b), 9500 * b.rf) ELSE Damped(b)
<1>6. A \in Nat /\ B \in Nat /\ A >= B
  BY <1>3, <1>4, <1>5 DEF Larger
<1>7. FusedScore(a) = Smaller(10000 * Full, A) /\ FusedScore(b) = Smaller(10000 * Full, B)
  BY DEF FusedScore
<1> HIDE DEF A, B
<1> QED BY <1>6, <1>7 DEF Smaller, Full

\* The rank of a level is the highest of five conditions (scoring.py), whatever
\* the order of the thresholds.
LEMMA RankOfScore ==
  ASSUME NEW e, Typed(e)
  PROVE  LET hold == e.jamming /\ Reaches(e, "orange")
             red == hold \/ Reaches(e, "red")
             orange == red \/ Reaches(e, "orange") \/ (e.anomaly /\ Reaches(e, "yellow"))
             yellow == orange \/ Reaches(e, "yellow") \/ e.whisper
         IN Rank(ScoredLevel(e)) =
              IF hold THEN 4 ELSE IF red THEN 3 ELSE IF orange THEN 2 ELSE IF yellow THEN 1 ELSE 0
<1>1. e.jamming \in BOOLEAN /\ e.whisper \in BOOLEAN /\ e.anomaly \in BOOLEAN
  BY DEF Typed, Flags
<1>2. \A t \in {"orange", "red", "yellow"} : Reaches(e, t) \in BOOLEAN
  BY DEF Reaches
<1> QED BY <1>1, <1>2 DEF ScoredLevel, WhisperLevel, BaseLevel, Rank

\* More evidence never lowers the level.
THEOREM LevelGrows ==
  ASSUME NEW a, NEW b, Typed(a), Typed(b), AtLeast(a, b)
  PROVE  Rank(ScoredLevel(a)) >= Rank(ScoredLevel(b))
<1>1. \A t \in {"orange", "red", "yellow"} : Reaches(b, t) => Reaches(a, t)
  BY ScoreGrows, ThresholdsAssumption DEF Reaches, Full
<1>2. \A f \in {"jamming", "whisper", "anomaly"} :
        a[f] \in BOOLEAN /\ b[f] \in BOOLEAN /\ (b[f] => a[f])
  BY DEF Typed, AtLeast, Flags
<1> QED BY <1>1, <1>2, RankOfScore

------------------------------------------------------------------------------
(***************************************************************************)
(* The scores of a node on watch stay in their range.                       *)
(***************************************************************************)

\* A clamped number is a score.
LEMMA ClampIsScore == ASSUME NEW v \in Int PROVE Clamp(v) \in 0..Full
BY DEF Clamp, Larger, Smaller, Full

\* What the simulated array hands in (synthetic.py), for a noise of any size.
LEMMA SimTypes ==
  ASSUME NEW scenario, NEW noise \in Int
  PROVE  LET sim == SimChannels(scenario, noise)
         IN /\ sim.pir \in 0..Full /\ sim.acoustic \in 0..Full /\ sim.rf \in 0..Full
            /\ sim.visual \in 0..Full
            /\ sim.jamming \in BOOLEAN /\ sim.lowVisibility \in BOOLEAN
<1> DEFINE full == IF Intruding(scenario) THEN 1 ELSE 0
           bright == 72 + 960 * full + 48 * noise
<1>1. full \in Int
  OBVIOUS
<1>2. /\ 60 + 1020 * full + 48 * noise \in Int
      /\ 96 + 900 * full + 60 * noise \in Int
      /\ 48 + (IF scenario = "jamming" THEN 1176 ELSE 480 * full) + 24 * noise \in Int
      /\ bright \in Int
  BY <1>1
<1>3. (bright * 35) \div 100 \in Int
  BY <1>2
<1>4. (IF scenario = "low_visibility" THEN (bright * 35) \div 100 ELSE bright) \in Int
  BY <1>2, <1>3
<1> QED BY <1>2, <1>4, ClampIsScore DEF SimChannels

\* What the RF sensor remembers.
RfTyped(sensor) ==
  /\ sensor.index \in Nat /\ sensor.peak \in Int
  /\ \A b \in DOMAIN sensor.baselines : sensor.baselines[b] \in Int

\* A read of any band keeps it and yields a score (rf_sensor.py).
LEMMA RfReadTypes ==
  ASSUME NEW sensor, RfTyped(sensor), NEW synthetic \in 0..Full, NEW jammed \in BOOLEAN
  PROVE  LET read == RfRead(sensor, synthetic, jammed)
         IN RfTyped(read.memory) /\ read.score \in 0..Full /\ read.jamming \in BOOLEAN
<1> DEFINE sweep == Sweep(sensor, synthetic)
           lines == Baselines(sensor, sweep)
           base == lines[BandOf(sensor)]
           score == Clamp(10 * (sweep.high - base))
<1>1. synthetic \in Int /\ synthetic \div 6 \in Int
  BY DEF Full
<1>2. Drift(sensor) \in Int
  BY DEF Drift, RfTyped
<1>3. sweep.low \in Int /\ sweep.high \in Int
  BY <1>1, <1>2 DEF Sweep
<1> HIDE DEF sweep
<1>4. /\ \A b \in DOMAIN lines : lines[b] \in Int
      /\ BandOf(sensor) \in DOMAIN lines
  BY <1>3 DEF Baselines, RfTyped
<1>5. base \in Int
  BY <1>4
<1> HIDE DEF lines, base
<1>6. score \in 0..Full
  BY <1>3, <1>5, ClampIsScore
<1>7. JammedScore(score, synthetic) \in 0..Full
  <2>1. Clamp(synthetic + 600) \in 0..Full
    BY <1>1, ClampIsScore
  <2> HIDE DEF score
  <2> QED BY <2>1, <1>6 DEF JammedScore, Larger
<1>8. (jammed \/ LooksJammed(sweep, base)) \in BOOLEAN
  OBVIOUS
<1> DEFINE jamming == jammed \/ LooksJammed(sweep, base)
<1>9. RfRead(sensor, synthetic, jammed) =
        [memory |-> [index |-> sensor.index + 1, baselines |-> lines, peak |-> Drift(sensor)],
         jamming |-> jamming,
         score |-> IF jamming THEN JammedScore(score, synthetic) ELSE score]
  BY DEF RfRead, sweep, lines, base
<1> HIDE DEF score, jamming
<1> QED BY <1>2, <1>4, <1>6, <1>7, <1>8, <1>9 DEF RfTyped, jamming

\* The inductive invariant: scores and flags, and what they are computed from.
Evidenced ==
  /\ config \in Configs
  /\ scene.sound \in Sounds
  /\ RfTyped(rf)
  /\ ghost.verdict \in BOOLEAN
  /\ Typed(event)

\* Ghost monitor: the cached verdict or a new one is yes or no.
LEMMA GhostTypes ==
  ASSUME NEW sensor, sensor.verdict \in BOOLEAN, NEW now, NEW count, NEW force \in BOOLEAN
  PROVE  GhostSample(sensor, now, count, force).verdict \in BOOLEAN
<1> DEFINE rows == Newest(Append(sensor.rows, [time |-> now, bytes |-> count]), GhostWindow)
           verdict == Len(rows) >= 4 /\ LooksRegular(rows)
<1>1. verdict \in BOOLEAN
  OBVIOUS
<1> HIDE DEF rows
<1>2. GhostSample(sensor, now, count, force) =
        IF ~force /\ now - sensor.last < GhostInterval
        THEN sensor ELSE [last |-> now, rows |-> rows, verdict |-> verdict]
  BY DEF GhostSample, rows
<1> HIDE DEF verdict
<1> QED BY <1>1, <1>2

\* A sample of the array keeps its memory and yields typed evidence.
LEMMA SampleTypes ==
  ASSUME Evidenced, NEW ts, NEW noise \in Int, UNCHANGED <<config, scene>>,
         Sample(ts, SimChannels(config.scenario, noise))
  PROVE  Evidenced'
<1> DEFINE sim == SimChannels(config.scenario, noise)
           awake == InActiveWindow(ts)
           sweep == RfRead(rf, sim.rf, sim.jamming)
           rows == IF config.psutil
                   THEN GhostSample(ghost, config.uptime + ts, bytes', ~awake)
                   ELSE GhostStart
           whisper == \E file \in DOMAIN logs : Flagged(file)
           motion == PirScore(lastHigh, scene.intruder, config.uptime + ts)
<1>1. /\ sim.pir \in 0..Full /\ sim.acoustic \in 0..Full /\ sim.rf \in 0..Full
      /\ sim.visual \in 0..Full
      /\ sim.jamming \in BOOLEAN /\ sim.lowVisibility \in BOOLEAN
  BY SimTypes
<1>2. RfTyped(sweep.memory) /\ sweep.score \in 0..Full /\ sweep.jamming \in BOOLEAN
  BY <1>1, RfReadTypes DEF Evidenced
<1>3. rows.verdict \in BOOLEAN
  <2>1. (~awake) \in BOOLEAN
    OBVIOUS
  <2> HIDE DEF awake
  <2>2. GhostSample(ghost, config.uptime + ts, bytes', ~awake).verdict \in BOOLEAN
    <3>1. ghost.verdict \in BOOLEAN
      BY DEF Evidenced
    <3>2. PICK force \in BOOLEAN : force = ~awake
      BY <2>1
    <3>3. GhostSample(ghost, config.uptime + ts, bytes', force).verdict \in BOOLEAN
      BY <3>1, GhostTypes
    <3> QED BY <3>2, <3>3
  <2>3. GhostStart.verdict \in BOOLEAN
    BY DEF GhostStart
  <2> QED BY <2>2, <2>3
<1>4. whisper \in BOOLEAN /\ awake \in BOOLEAN
  BY DEF InActiveWindow
<1>5. (Has("tamper") /\ scene.open) \in BOOLEAN
  OBVIOUS
<1>6. motion \in 0..Full
  BY DEF PirScore, Full
<1>7. Heard(sim, awake) \in 0..Full
  <2>1. AcousticScore(scene.sound) \in 0..Full
    BY DEF AcousticScore, Evidenced, Sounds, Full
  <2> HIDE DEF sim
  <2> QED BY <1>1, <2>1 DEF Heard
<1>8. Seen(sim, awake) \in 0..Full
  <2>1. VisualScore(previous, Picture) \in 0..Full
    BY DEF VisualScore, Full
  <2> HIDE DEF sim
  <2> QED BY <1>1, <2>1 DEF Seen
<1> DEFINE passive == Smaller(Full, (IF rows.verdict THEN 240 ELSE 0)
                                      + (IF whisper THEN 240 ELSE 0))
<1>9. passive \in 0..Full
  BY DEF Smaller, Full
<1>10. /\ rf' = sweep.memory
       /\ ghost' = rows
       /\ event' =
            [pir |-> IF Has("pir") THEN motion ELSE sim.pir,
             acoustic |-> Heard(sim, awake), rf |-> sweep.score,
             visual |-> Seen(sim, awake), passive |-> passive,
             lowVisibility |-> sim.lowVisibility, jamming |-> sweep.jamming,
             whisper |-> whisper, anomaly |-> rows.verdict,
             tamper |-> Has("tamper") /\ scene.open, awake |-> awake]
  BY DEF Sample
<1> HIDE DEF sim, awake, sweep, rows, whisper, motion, passive
<1>11. Typed(event')
  BY <1>1, <1>2, <1>3, <1>4, <1>6, <1>7, <1>8, <1>9, <1>10 DEF Typed, Channels, Flags
<1>12. Typed(event)' = Typed(event') /\ RfTyped(rf)' = RfTyped(rf')
  BY DEF Typed, RfTyped
<1> QED BY <1>2, <1>3, <1>10, <1>11, <1>12 DEF Evidenced

\* At the start and after a restart there is no evidence at all.
LEMMA StartTypes == Typed(NoEvent) /\ RfTyped(RfStart) /\ GhostStart.verdict \in BOOLEAN
<1>1. Typed(NoEvent)
  <2> DEFINE sim == SimChannels("benign", 0)
  <2>1. /\ sim.pir \in 0..Full /\ sim.acoustic \in 0..Full
        /\ sim.rf \in 0..Full /\ sim.visual \in 0..Full
    BY SimTypes
  <2>2. 0 \in 0..Full
    BY DEF Full
  <2>3. NoEvent =
          [pir |-> sim.pir, acoustic |-> sim.acoustic, rf |-> sim.rf, visual |-> sim.visual,
           passive |-> 0, lowVisibility |-> FALSE, jamming |-> FALSE, whisper |-> FALSE,
           anomaly |-> FALSE, tamper |-> FALSE, awake |-> TRUE]
    BY DEF NoEvent
  <2> HIDE DEF sim
  <2> QED BY <2>1, <2>2, <2>3 DEF Typed, Channels, Flags
<1>2. RfTyped(RfStart)
  BY DEF RfStart, RfTyped
<1> QED BY <1>1, <1>2 DEF GhostStart

LEMMA WatchInitTypes == WatchInit => Evidenced
BY StartTypes DEF WatchInit, ArrayStart, Quiet, Sounds, Evidenced

LEMMA WatchNextTypes == Evidenced /\ [WatchNext]_watchVars => Evidenced'
<1> SUFFICES ASSUME Evidenced, [WatchNext]_watchVars PROVE Evidenced'
  OBVIOUS
<1>1. CASE Watching
  <2>1. PICK noise \in config.noise :
          Sample(IF seq = 0 THEN clock ELSE clock + config.step,
                 SimChannels(config.scenario, noise))
    BY <1>1 DEF Watching
  <2>2. noise \in Int
    BY <2>1, ConfigAssumption DEF Evidenced
  <2>3. UNCHANGED <<config, scene>>
    BY <1>1 DEF Watching
  <2> QED BY <2>1, <2>2, <2>3, SampleTypes
<1>2. CASE SceneChanges
  BY <1>2, SoundAssumption DEF SceneChanges, array, Evidenced, Typed, RfTyped
<1>3. CASE Note
  BY <1>3 DEF Note, array, Evidenced, Typed, RfTyped
<1>4. CASE Reboot
  BY <1>4, StartTypes DEF Reboot, Evidenced, Typed, RfTyped
<1>5. CASE UNCHANGED watchVars
  BY <1>5 DEF watchVars, array, Evidenced, Typed, RfTyped
<1> QED BY <1>1, <1>2, <1>3, <1>4, <1>5 DEF WatchNext

\* An event that is raised in a channel or a flag says at least as much.
LEMMA RaisedIsMore ==
  ASSUME NEW e, Typed(e), NEW more \in Raised(e)
  PROVE  Typed(more) /\ AtLeast(more, e)
<1> DEFINE Gains(k, v) == [e EXCEPT ![k] = v]
<1>1. \A k \in Channels \cup Flags : \A v :
        /\ DOMAIN Gains(k, v) = DOMAIN e
        /\ Gains(k, v)[k] = v
        /\ \A other \in DOMAIN e \ {k} : Gains(k, v)[other] = e[other]
  BY DEF Typed
<1>2. \/ \E c \in Channels : more = Gains(c, Full)
      \/ \E f \in Flags \ {"lowVisibility"} : more = Gains(f, TRUE)
      \/ more = Gains("lowVisibility", FALSE)
  BY DEF Raised
<1>3. /\ Channels \cap Flags = {}
      /\ "lowVisibility" \in Flags
      /\ Full \in 0..Full
      /\ \A v \in 0..Full : v \in Int /\ Full >= v
  BY DEF Channels, Flags, Full
<1> HIDE DEF Gains
<1>4. Channels \cup Flags \subseteq DOMAIN e
  BY DEF Typed
<1>5. CASE \E c \in Channels : more = Gains(c, Full)
  <2>1. PICK c \in Channels : more = Gains(c, Full)
    BY <1>5
  <2>2. DOMAIN more = DOMAIN e /\ more[c] = Full
    BY <1>1, <2>1
  <2>3. \A k \in (Channels \cup Flags) \ {c} : more[k] = e[k]
    BY <1>1, <1>4, <2>1
  <2>4. \A f \in Flags : more[f] = e[f]
    BY <1>3, <2>3
  <2>5. \A k \in Channels : more[k] \in 0..Full /\ e[k] \in 0..Full
    BY <1>3, <2>2, <2>3 DEF Typed
  <2>6. \A k \in Channels : more[k] >= e[k]
    <3> SUFFICES ASSUME NEW k \in Channels PROVE more[k] >= e[k]
      OBVIOUS
    <3>1. CASE k = c
      BY <1>3, <2>2, <2>5, <3>1
    <3>2. CASE k # c
      BY <1>3, <2>3, <2>5, <3>2
    <3> QED BY <3>1, <3>2
  <2>7. more.lowVisibility = e.lowVisibility
    BY <1>3, <2>4
  <2> QED BY <1>4, <2>2, <2>4, <2>5, <2>6, <2>7 DEF Typed, AtLeast
<1>6. CASE \E f \in Flags : \E v \in BOOLEAN :
             more = Gains(f, v) /\ v = (f # "lowVisibility")
  <2>1. PICK f \in Flags, v \in BOOLEAN : more = Gains(f, v) /\ v = (f # "lowVisibility")
    BY <1>6
  <2>2. DOMAIN more = DOMAIN e /\ more[f] = v
    BY <1>1, <2>1
  <2>3. \A k \in (Channels \cup Flags) \ {f} : more[k] = e[k]
    BY <1>1, <1>4, <2>1
  <2>4. \A c \in Channels : more[c] = e[c]
    BY <1>3, <2>3
  <2>5. \A c \in Channels : more[c] \in 0..Full /\ more[c] >= e[c]
    BY <1>3, <2>4 DEF Typed
  <2>6. \A g \in Flags : more[g] \in BOOLEAN
    BY <2>2, <2>3 DEF Typed
  <2>7. \A g \in Flags \ {"lowVisibility"} : e[g] => more[g]
    BY <2>1, <2>2, <2>3
  <2>8. more.lowVisibility => e.lowVisibility
    BY <1>3, <2>1, <2>2, <2>3
  <2> QED BY <1>4, <2>2, <2>5, <2>6, <2>7, <2>8 DEF Typed, AtLeast
<1> QED BY <1>2, <1>3, <1>5, <1>6

(***************************************************************************)
(* MoreEvidenceNeverLowers, for every configuration, scene, noise, weight   *)
(* and threshold: what the sensors can hand in at all is typed evidence,    *)
(* and on that the level grows with the evidence (fusion.py, scoring.py).   *)
(***************************************************************************)
THEOREM WatchLevelGrows == WatchSpec => []MoreEvidenceNeverLowers
<1>1. Evidenced => MoreEvidenceNeverLowers
  <2> SUFFICES ASSUME Evidenced, NEW more \in Raised(event)
               PROVE  Rank(ScoredLevel(more)) >= Rank(ScoredLevel(event))
    BY DEF MoreEvidenceNeverLowers
  <2>1. Typed(event) /\ Typed(more) /\ AtLeast(more, event)
    BY RaisedIsMore DEF Evidenced
  <2> QED BY <2>1, LevelGrows
<1> QED BY WatchInitTypes, WatchNextTypes, <1>1, PTL DEF WatchSpec

------------------------------------------------------------------------------
(***************************************************************************)
(* The motion sensor.                                                      *)
(***************************************************************************)

\* The latest high level the adapter remembers is not later than the latest
\* motion there was.
MotionRemembered ==
  /\ config \in Configs
  /\ clock \in Int
  /\ past.motion \in Int \cup {NoTime}
  /\ lastHigh \in Int
  /\ \/ lastHigh = 0
     \/ Has("pir") /\ past.motion # NoTime /\ lastHigh <= config.uptime + past.motion
  /\ DOMAIN past = {"busy", "motion", "frames"}

\* A sample keeps that, and what it reports is motion or its hold time (pir.py).
LEMMA WatchingSeesMotion ==
  ASSUME MotionRemembered, Watching
  PROVE  MotionRemembered' /\ MotionIsReal'
<1> DEFINE ts == IF seq = 0 THEN clock ELSE clock + config.step
           now == config.uptime + ts
<1>1. /\ clock' = ts /\ config' = config
      /\ past'.motion = (IF scene.intruder THEN ts ELSE past.motion)
      /\ DOMAIN past' = {"busy", "motion", "frames"}
      /\ scene' = scene
  BY DEF Watching, MotionRemembered
<1>2. /\ lastHigh' = (IF Has("pir") THEN PirHigh(lastHigh, scene.intruder, now) ELSE lastHigh)
      /\ Has("pir") => event'.pir = PirScore(lastHigh, scene.intruder, now)
  BY DEF Watching, Sample
<1>3. config.uptime \in Int /\ ts \in Int /\ now \in Int
  BY ConfigAssumption DEF MotionRemembered
<1>4. NoTime \notin Int
  BY NoTimeAssumption
<1> HIDE DEF ts
<1>5. MotionRemembered'
  <2>1. lastHigh' \in {lastHigh, now} /\ (lastHigh' # lastHigh => scene.intruder)
    BY <1>2 DEF PirHigh
  <2>2. past'.motion \in Int \cup {NoTime}
    BY <1>1, <1>3 DEF MotionRemembered
  <2>3. lastHigh' \in Int
    BY <1>3, <2>1 DEF MotionRemembered
  <2>4. CASE scene.intruder
    <3>1. past'.motion = ts /\ past'.motion # NoTime
      BY <1>1, <1>3, <1>4, <2>4
    <3>2. (Has("pir") => lastHigh' = now) /\ (~Has("pir") => lastHigh' = lastHigh)
      BY <1>2, <2>4 DEF PirHigh
    <3>3. \/ lastHigh' = 0
          \/ Has("pir") /\ past'.motion # NoTime /\ lastHigh' <= config.uptime + past'.motion
      BY <1>3, <3>1, <3>2 DEF MotionRemembered
    <3> QED BY <1>1, <1>3, <2>2, <2>3, <3>3 DEF MotionRemembered, Has
  <2>5. CASE ~scene.intruder
    BY <1>1, <1>3, <2>1, <2>2, <2>3, <2>5 DEF MotionRemembered, Has
  <2> QED BY <2>4, <2>5
<1>6. ASSUME Has("pir")', event'.pir = Full
      PROVE  \/ past'.motion # NoTime /\ clock' - past'.motion < 2
             \/ config'.uptime + clock' < 2
  <2>1. Has("pir")
    BY <1>1, <1>6 DEF Has
  <2>2. scene.intruder \/ now - PirHigh(lastHigh, scene.intruder, now) < 2
    BY <1>2, <1>6, <2>1 DEF PirScore, Full
  <2>3. CASE scene.intruder
    BY <1>1, <1>3, <1>4, <2>3
  <2>4. CASE ~scene.intruder
    <3>1. now - lastHigh < 2
      BY <2>2, <2>4 DEF PirHigh
    <3> QED BY <1>1, <1>3, <1>4, <2>4, <3>1 DEF MotionRemembered
  <2> QED BY <2>3, <2>4
<1> QED BY <1>5, <1>6 DEF MotionIsReal

(***************************************************************************)
(* MotionIsReal, for every sampling rate, uptime and scene: the hold time    *)
(* of the adapter is 2 s whatever comes between two reads, restarts          *)
(* included, and what the guardian makes of a sample does not matter.       *)
(***************************************************************************)
THEOREM WatchMotionIsReal == WatchSpec => []MotionIsReal
<1>1. NoEvent.pir # Full
  BY DEF NoEvent, SimChannels, Intruding, Clamp, Larger, Smaller, Full
<1>2. WatchInit => MotionRemembered /\ MotionIsReal
  BY <1>1 DEF WatchInit, Init, ArrayStart, MotionRemembered, MotionIsReal
<1>3. MotionRemembered /\ MotionIsReal /\ [WatchNext]_watchVars
        => MotionRemembered' /\ MotionIsReal'
  <2> SUFFICES ASSUME MotionRemembered, MotionIsReal, [WatchNext]_watchVars
               PROVE  MotionRemembered' /\ MotionIsReal'
    OBVIOUS
  <2>1. CASE Watching
    BY <2>1, WatchingSeesMotion
  <2>2. CASE SceneChanges
    BY <2>2 DEF SceneChanges, vars, array, MotionRemembered, MotionIsReal, Has
  <2>3. CASE Note
    BY <2>3 DEF Note, vars, array, MotionRemembered, MotionIsReal, Has
  <2>4. CASE Reboot
    <3>1. /\ config' = config /\ clock' = clock /\ lastHigh' = 0 /\ event' = NoEvent
          /\ past'.motion = past.motion /\ DOMAIN past' = DOMAIN past
      BY <2>4 DEF Reboot, Restart, MotionRemembered
    <3> QED BY <1>1, <3>1 DEF MotionRemembered, MotionIsReal, Has
  <2>5. CASE UNCHANGED watchVars
    BY <2>5 DEF watchVars, vars, array, MotionRemembered, MotionIsReal, Has
  <2> QED BY <2>1, <2>2, <2>3, <2>4, <2>5 DEF WatchNext
<1> QED BY <1>2, <1>3, PTL DEF WatchSpec

------------------------------------------------------------------------------
(***************************************************************************)
(* What the node remembers: the guardian, the bands, the rows and the lines. *)
(***************************************************************************)

\* A history continues another: e is the last of its entries, and each other
\* one is as far from the end as it was, plus one.
Continues(new, rows, e) ==
  /\ new[Len(new)] = e
  /\ \A i \in 1..(Len(new) - 1) : \E j \in 1..Len(rows) :
       new[i] = rows[j] /\ Len(rows) - j = Len(new) - 1 - i

\* A bounded history to which e is added keeps its newest n entries.
LEMMA NewestAppended ==
  ASSUME NEW S, NEW rows \in Seq(S), NEW e \in S, NEW n \in Nat \ {0}
  PROVE  LET new == Newest(Append(rows, e), n)
         IN /\ new \in Seq(S) /\ Len(new) \in 1..n
            /\ Continues(new, rows, e)
            /\ Len(new) = Smaller(Len(rows) + 1, n)
<1> DEFINE l == Len(rows)
           longer == Append(rows, e)
           first == Larger(1, Len(longer) - n + 1)
           new == Newest(longer, n)
<1>1. /\ l \in Nat /\ longer \in Seq(S) /\ Len(longer) = l + 1
      /\ \A i \in 1..l : longer[i] = rows[i]
      /\ longer[l + 1] = e
  BY AppendProperties, LenProperties
<1> HIDE DEF longer, l
<1>2. /\ first \in 1..(l + 1) /\ l + 1 - first + 1 \in 1..n
      /\ l + 1 - first + 1 = Smaller(l + 1, n)
  BY <1>1 DEF Larger, Smaller
<1>3. \A i \in first..(l + 1) : longer[i] \in S
  BY <1>1, <1>2, ElementOfSeq
<1>4. new = SubSeq(longer, first, l + 1)
  BY <1>1 DEF Newest
<1> HIDE DEF first, new
<1>5. /\ new \in Seq(S) /\ Len(new) = l + 1 - first + 1
      /\ \A i \in 1..(l + 1 - first + 1) : new[i] = longer[first + i - 1]
  <2>1. first \in Int /\ l + 1 \in Int /\ first <= l + 1
    BY <1>1, <1>2
  <2>2. PICK last \in Int : last = l + 1
    BY <2>1
  <2>3. /\ SubSeq(longer, first, last) \in Seq(S)
        /\ Len(SubSeq(longer, first, last)) = IF first <= last THEN last - first + 1 ELSE 0
        /\ \A i \in 1..(last - first + 1) : SubSeq(longer, first, last)[i] = longer[first + i - 1]
    BY <1>3, <2>1, <2>2, SubSeqProperties
  <2>4. /\ new \in Seq(S) /\ Len(new) = last - first + 1
        /\ \A i \in 1..(last - first + 1) : new[i] = longer[first + i - 1]
    BY <1>4, <2>1, <2>2, <2>3
  <2>5. last - first + 1 = l + 1 - first + 1
    BY <1>1, <2>1, <2>2
  <2> QED BY <2>4, <2>5
<1>6. new[Len(new)] = e
  BY <1>1, <1>2, <1>5
<1>7. ASSUME NEW i \in 1..(Len(new) - 1)
      PROVE  \E j \in 1..l : new[i] = rows[j] /\ l - j = Len(new) - 1 - i
  <2>1. first + i - 1 \in 1..l /\ l - (first + i - 1) = Len(new) - 1 - i
    BY <1>1, <1>2, <1>5
  <2>2. new[i] = rows[first + i - 1]
    BY <1>1, <1>2, <1>5, <2>1
  <2> QED BY <2>1, <2>2
<1>8. Len(new) = Smaller(l + 1, n)
  BY <1>1, <1>2, <1>5 DEF Smaller
<1>9. Continues(new, rows, e)
  BY <1>6, <1>7 DEF Continues, l
<1> QED BY <1>2, <1>5, <1>8, <1>9 DEF new, longer, l

Rows == [time : Int, bytes : Nat]
Texts == Notes \cup {OwnText(level) : level \in Levels}

\* What a sample hands to the guardian is a level.
LEMMA ScoredIsLevel == \A e : ScoredLevel(e) \in Levels
<1> SUFFICES ASSUME NEW e PROVE ScoredLevel(e) \in Levels
  OBVIOUS
<1>1. BaseLevel(e) \in Levels
  BY DEF BaseLevel, Levels
<1> QED BY <1>1 DEF ScoredLevel, WhisperLevel, Levels

\* Types, as an invariant: the histories are sequences, and no launch is made.
Remembered ==
  /\ config \in Configs
  /\ TypeOK /\ phase = "stowed"
  /\ bytes \in Nat
  /\ DOMAIN rf.baselines \subseteq Range(Bands)
  /\ ghost.rows \in Seq(Rows) /\ Len(ghost.rows) <= GhostWindow
  /\ DOMAIN logs = {"alerts", "audit"}
  /\ \A file \in DOMAIN logs : logs[file] \in Seq(Texts) /\ Len(logs[file]) <= LogLines

\* Every read is of one of the two bands.
LEMMA BandsInTurn ==
  ASSUME NEW sensor, sensor.index \in Nat
  PROVE  BandOf(sensor) \in Range(Bands)
<1>1. sensor.index % 2 \in 0..1
  OBVIOUS
<1>2. Len(Bands) = 2 /\ DOMAIN Bands = 1..2
  BY DEF Bands
<1> QED BY <1>1, <1>2 DEF BandOf, Range

\* The ghost monitor keeps at most the rows of its window (ghost_monitor.py).
LEMMA RowsKept ==
  ASSUME NEW sensor, sensor.rows \in Seq(Rows), Len(sensor.rows) <= GhostWindow,
         NEW now \in Int, NEW count \in Nat, NEW force
  PROVE  LET next == GhostSample(sensor, now, count, force)
         IN next.rows \in Seq(Rows) /\ Len(next.rows) <= GhostWindow
<1> DEFINE row == [time |-> now, bytes |-> count]
           rows == Newest(Append(sensor.rows, row), GhostWindow)
<1>1. row \in Rows /\ GhostWindow \in Nat \ {0}
  BY DetectorAssumption DEF Rows
<1> HIDE DEF row
<1>2. rows \in Seq(Rows) /\ Len(rows) \in 1..GhostWindow
  BY <1>1, NewestAppended
<1>3. \/ GhostSample(sensor, now, count, force) = sensor
      \/ GhostSample(sensor, now, count, force)
           = [last |-> now, rows |-> rows, verdict |-> Len(rows) >= 4 /\ LooksRegular(rows)]
  BY DEF GhostSample, row
<1> HIDE DEF rows
<1> QED BY <1>1, <1>2, <1>3

\* A sample and what run_live_ingest makes of it keep the types.
LEMMA WatchingRemembers ==
  ASSUME Evidenced, Remembered, Watching
  PROVE  Remembered'
<1> DEFINE ts == IF seq = 0 THEN clock ELSE clock + config.step
<1>1. /\ seq < MaxSamples[config] /\ ts \in Times /\ clock' = ts
      /\ bytes' = bytes + (IF scene.traffic THEN 300 * config.step ELSE 0)
      /\ Process(ts, Raw(ScoredLevel(event'), event'.tamper), event'.tamper)
      /\ WriteLogs(frame'.level, event'.tamper)
      /\ UNCHANGED <<phase, config>>
  BY DEF Watching
<1>2. PICK noise \in config.noise : Sample(ts, SimChannels(config.scenario, noise))
  BY DEF Watching
<1>3. /\ config.step \in Nat /\ config.uptime \in Nat /\ ts \in Int
      /\ config.uptime + ts \in Int
  BY <1>1, ConfigAssumption DEF Remembered, Times
<1> HIDE DEF ts
<1>4. bytes' \in Nat
  BY <1>1, <1>3 DEF Remembered
<1>5. seq < MaxFrames
  <2>1. MaxSamples[config] \in 0..MaxFrames
    BY WatchBoundAssumption DEF Remembered
  <2> QED BY <1>1, <2>1, ConstantFacts DEF Remembered, TypeOK
<1>6. event'.tamper \in BOOLEAN
  BY <1>2 DEF Sample
<1>7. TypeOK'
  <2>1. ScoredLevel(event') \in Levels
    BY ScoredIsLevel
  <2> QED BY <1>1, <1>5, <1>6, <2>1, ProcessTypes DEF Remembered
<1>8. DOMAIN rf'.baselines \subseteq Range(Bands)
  <2> DEFINE sim == SimChannels(config.scenario, noise)
  <2>1. rf' = RfRead(rf, sim.rf, sim.jamming).memory
    BY <1>2 DEF Sample
  <2>2. DOMAIN rf'.baselines = DOMAIN rf.baselines \cup {BandOf(rf)}
    BY <2>1 DEF RfRead, Baselines
  <2>3. rf.index \in Nat
    BY DEF Evidenced, RfTyped
  <2> QED BY <2>2, <2>3, BandsInTurn DEF Remembered
<1>9. ghost'.rows \in Seq(Rows) /\ Len(ghost'.rows) <= GhostWindow
  <2>1. ghost' = IF config.psutil
                 THEN GhostSample(ghost, config.uptime + ts, bytes', ~InActiveWindow(ts))
                 ELSE GhostStart
    BY <1>2 DEF Sample
  <2>2. CASE config.psutil
    BY <1>3, <1>4, <2>1, <2>2, RowsKept DEF Remembered
  <2>3. CASE ~config.psutil
    <3>1. ghost'.rows = <<>>
      BY <2>1, <2>3 DEF GhostStart
    <3> QED BY <3>1, EmptySeq, DetectorAssumption
  <2> QED BY <2>2, <2>3
<1>10. DOMAIN logs' = {"alerts", "audit"}
  BY <1>1 DEF WriteLogs, Remembered
<1>11. ASSUME NEW file \in DOMAIN logs
       PROVE  logs'[file] \in Seq(Texts) /\ Len(logs'[file]) <= LogLines
  <2> DEFINE own == OwnText(frame'.level)
  <2>1. frame'.level \in Levels
    BY <1>7 DEF TypeOK, Frames, NoFrame, Levels
  <2>2. own \in Texts /\ LogLines \in Nat \ {0}
    BY <2>1, DetectorAssumption DEF Texts
  <2>3. \/ logs'[file] = logs[file]
        \/ logs'[file] = Newest(Append(logs[file], own), LogLines)
    BY <1>1 DEF WriteLogs
  <2> HIDE DEF own
  <2>4. logs[file] \in Seq(Texts) /\ Len(logs[file]) <= LogLines
    BY DEF Remembered
  <2>5. /\ Newest(Append(logs[file], own), LogLines) \in Seq(Texts)
        /\ Len(Newest(Append(logs[file], own), LogLines)) \in 1..LogLines
    BY <2>2, <2>4, NewestAppended
  <2> QED BY <2>2, <2>3, <2>4, <2>5
<1>12. config' \in Configs /\ phase' = "stowed" /\ DOMAIN logs' = DOMAIN logs
  BY <1>1, <1>10 DEF Remembered
<1> QED BY <1>4, <1>7, <1>8, <1>9, <1>10, <1>11, <1>12 DEF Remembered

\* A note of someone else, in either file, is one line more.
LEMMA NoteRemembers == ASSUME Remembered, Note PROVE Remembered'
<1>1. PICK file \in DOMAIN logs, text \in Notes :
        logs' = [logs EXCEPT ![file] = Newest(Append(@, text), LogLines)]
  BY DEF Note
<1>2. UNCHANGED <<config, seq, state, memory, phase, clock, frame, bytes, rf, ghost>>
  BY DEF Note, vars, array
<1>3. /\ Newest(Append(logs[file], text), LogLines) \in Seq(Texts)
      /\ Len(Newest(Append(logs[file], text), LogLines)) \in 1..LogLines
  <2>1. text \in Texts /\ LogLines \in Nat \ {0} /\ logs[file] \in Seq(Texts)
    BY DetectorAssumption DEF Texts, Remembered
  <2> QED BY <2>1, NewestAppended
<1>4. TypeOK'
  BY <1>2 DEF Remembered, TypeOK, memory
<1>5. \A other \in DOMAIN logs' : logs'[other] \in Seq(Texts) /\ Len(logs'[other]) <= LogLines
  BY <1>1, <1>3, DetectorAssumption DEF Remembered
<1>6. DOMAIN logs' = DOMAIN logs
  BY <1>1
<1> QED BY <1>2, <1>4, <1>5, <1>6 DEF Remembered

LEMMA StartRemembers ==
  /\ DOMAIN RfStart.baselines \subseteq Range(Bands)
  /\ GhostStart.rows \in Seq(Rows) /\ Len(GhostStart.rows) <= GhostWindow
<1>1. DOMAIN RfStart.baselines = {}
  BY DEF RfStart
<1>2. GhostStart.rows = <<>>
  BY DEF GhostStart
<1> QED BY <1>1, <1>2, EmptySeq, DetectorAssumption

LEMMA RememberedInit == WatchInit => Remembered
<1> SUFFICES ASSUME WatchInit PROVE Remembered
  OBVIOUS
<1>1. Init /\ phase = "stowed" /\ config \in Configs /\ bytes = 0
      /\ rf = RfStart /\ ghost = GhostStart
  BY DEF WatchInit, Init, ArrayStart
<1>2. DOMAIN logs = {"alerts", "audit"} /\ \A file \in DOMAIN logs : logs[file] = <<>>
  BY DEF WatchInit
<1>3. TypeOK
  BY <1>1, TypeInit
<1>4. \A file \in DOMAIN logs : logs[file] \in Seq(Texts) /\ Len(logs[file]) <= LogLines
  <2>1. <<>> \in Seq(Texts) /\ Len(<<>>) = 0
    BY EmptySeq
  <2>2. 0 <= LogLines
    BY DetectorAssumption
  <2> QED BY <1>2, <2>1, <2>2
<1> QED BY <1>1, <1>2, <1>3, <1>4, StartRemembers DEF Remembered

LEMMA RememberedNext == Evidenced /\ Remembered /\ [WatchNext]_watchVars => Remembered'
<1> SUFFICES ASSUME Evidenced, Remembered, [WatchNext]_watchVars PROVE Remembered'
  OBVIOUS
<1>1. CASE Watching
  BY <1>1, WatchingRemembers
<1>2. CASE Note
  BY <1>2, NoteRemembers
<1>3. CASE Reboot
  <2>1. /\ rf' = RfStart /\ ghost' = GhostStart /\ phase' = "stowed"
        /\ UNCHANGED <<config, bytes, logs>>
    BY <1>3 DEF Reboot, Restart
  <2>2. TypeOK'
    BY <1>3, ConstantFacts DEF Reboot, Restart, Remembered, TypeOK, States, Phases, Levels
  <2> QED BY <2>1, <2>2, StartRemembers DEF Remembered
<1>4. CASE SceneChanges \/ UNCHANGED watchVars
  <2>1. UNCHANGED <<config, seq, state, memory, phase, clock, frame, bytes, rf, ghost, logs>>
    BY <1>4 DEF SceneChanges, watchVars, vars, array
  <2>2. TypeOK'
    BY <2>1 DEF Remembered, TypeOK, memory
  <2> QED BY <2>1, <2>2 DEF Remembered
<1> QED BY <1>1, <1>2, <1>3, <1>4 DEF WatchNext

\* What the node on watch always satisfies.
LEMMA WatchRemembers == WatchSpec => [](Evidenced /\ Remembered)
<1>1. WatchInit => Evidenced /\ Remembered
  BY WatchInitTypes, RememberedInit
<1>2. Evidenced /\ Remembered /\ [WatchNext]_watchVars => (Evidenced /\ Remembered)'
  BY WatchNextTypes, RememberedNext
<1> QED BY <1>1, <1>2, PTL DEF WatchSpec

(***************************************************************************)
(* WatchTypeOK, for every configuration, scene and window: scores stay in    *)
(* their range, the radio keeps baselines of its two bands only, and the     *)
(* histories of rows and lines within their limits.                         *)
(***************************************************************************)
THEOREM WatchTypes == WatchSpec => []WatchTypeOK
<1>1. Evidenced /\ Remembered => WatchTypeOK
  BY DEF Evidenced, Remembered, RfTyped, Typed, WatchTypeOK
<1> QED BY <1>1, WatchRemembers, PTL

------------------------------------------------------------------------------
(***************************************************************************)
(* The ghost monitor forgets: rows are a gap apart at most, and an increase *)
(* of the byte counter between two of them is traffic since the first.      *)
(***************************************************************************)

\* The rows of a sensor at the time now, with the byte counter at count, where
\* the times in before are those not after the latest traffic.
Held(sensor, now, count, before, gap) ==
  LET rows == sensor.rows
      l == Len(rows)
  IN /\ rows \in Seq(Rows) /\ l <= GhostWindow
     /\ l > 0 => sensor.last = rows[l].time
     /\ \A i \in 1..l :
          /\ rows[i].time <= now /\ rows[l].time - rows[i].time <= (l - i) * gap
          /\ rows[i].bytes <= count
          /\ rows[i].bytes < count => rows[i].time \in before
     /\ sensor.verdict => l >= 4 /\ rows[1].bytes < rows[l].bytes

\* Time passes, and whatever is sent is sent now.
LEMMA HeldLater ==
  ASSUME NEW sensor, NEW then \in Int, NEW now \in Int, then <= now,
         NEW count \in Nat, NEW more \in Nat, NEW before, NEW since, NEW gap \in Nat,
         Held(sensor, then, count, before, gap), count <= more,
         \/ more = count /\ since = before
         \/ \A t \in Int : t <= now => t \in since
  PROVE  Held(sensor, now, more, since, gap)
<1> DEFINE rows == sensor.rows
           l == Len(rows)
<1>1. rows \in Seq(Rows)
  BY DEF Held
<1>2. ASSUME NEW i \in 1..l
      PROVE  /\ rows[i].time <= now /\ rows[l].time - rows[i].time <= (l - i) * gap
             /\ rows[i].bytes <= more
             /\ rows[i].bytes < more => rows[i].time \in since
  <2>1. rows[i] \in Rows
    BY <1>1, ElementOfSeq
  <2>2. rows[i].time \in Int /\ rows[i].bytes \in Nat
    BY <2>1 DEF Rows
  <2>3. /\ rows[i].time <= then /\ rows[l].time - rows[i].time <= (l - i) * gap
        /\ rows[i].bytes <= count
        /\ rows[i].bytes < count => rows[i].time \in before
    BY DEF Held
  <2>4. rows[i].time <= now /\ rows[i].bytes <= more
    BY <2>2, <2>3
  <2> QED BY <2>2, <2>3, <2>4
<1> QED BY <1>2 DEF Held

\* A row is added a gap after the one before at most.
LEMMA HeldWithRow ==
  ASSUME NEW sensor, NEW now \in Int, NEW count \in Nat, NEW before, NEW gap \in Nat,
         Held(sensor, now, count, before, gap),
         Len(sensor.rows) > 0 => now - sensor.last <= gap
  PROVE  LET new == Newest(Append(sensor.rows, [time |-> now, bytes |-> count]), GhostWindow)
         IN Held([last |-> now, rows |-> new, verdict |-> Len(new) >= 4 /\ LooksRegular(new)],
                 now, count, before, gap)
<1> DEFINE rows == sensor.rows
           l == Len(rows)
           row == [time |-> now, bytes |-> count]
           new == Newest(Append(rows, row), GhostWindow)
           m == Len(new)
<1>1. rows \in Seq(Rows) /\ row \in Rows /\ GhostWindow \in Nat \ {0} /\ l \in Nat
  BY DetectorAssumption, LenProperties DEF Held, Rows
<1>2. /\ new \in Seq(Rows) /\ m \in 1..GhostWindow /\ new[m] = row
      /\ \A i \in 1..(m - 1) : \E j \in 1..l : new[i] = rows[j] /\ l - j = m - 1 - i
  <2> HIDE DEF row
  <2>1. /\ new \in Seq(Rows) /\ m \in 1..GhostWindow
        /\ Continues(new, rows, row)
    BY <1>1, NewestAppended
  <2> HIDE DEF rows, l, new
  <2> QED BY <2>1 DEF Continues, l
<1>3. row.time = now /\ row.bytes = count
  OBVIOUS
<1> HIDE DEF new, row, m
<1>4. ASSUME NEW i \in 1..m
      PROVE  /\ new[i].time <= now /\ new[m].time - new[i].time <= (m - i) * gap
             /\ new[i].bytes <= count
             /\ new[i].bytes < count => new[i].time \in before
  <2>1. CASE i = m
    <3>1. m - i = 0 /\ now - now = 0 /\ 0 * gap = 0
      BY <1>2, <2>1
    <3> QED BY <1>2, <1>3, <2>1, <3>1
  <2>2. CASE i # m
    <3>1. PICK j \in 1..l : new[i] = rows[j] /\ l - j = m - 1 - i
      BY <1>2, <2>2
    <3>2. rows[j] \in Rows /\ rows[l] \in Rows /\ l > 0
      BY <1>1, ElementOfSeq
    <3>3. /\ rows[j].time \in Int /\ rows[l].time \in Int /\ rows[j].bytes \in Nat
          /\ sensor.last = rows[l].time
      BY <3>2 DEF Rows, Held
    <3>4. /\ rows[j].time <= now /\ rows[l].time - rows[j].time <= (l - j) * gap
          /\ rows[j].bytes <= count
          /\ rows[j].bytes < count => rows[j].time \in before
      BY DEF Held
    <3>5. PICK k \in Nat : k = l - j /\ m - i = k + 1
      <4>1. l - j \in Nat /\ m - i = (l - j) + 1
        BY <1>1, <1>2, <3>1
      <4> QED BY <4>1
    <3>6. (k + 1) * gap = k * gap + gap /\ k * gap \in Nat
      OBVIOUS
    <3>7. now - rows[j].time <= (m - i) * gap
      BY <3>2, <3>3, <3>4, <3>5, <3>6
    <3> QED BY <1>2, <1>3, <3>1, <3>4, <3>7
  <2> QED BY <2>1, <2>2
<1>5. ASSUME m >= 4, LooksRegular(new)
      PROVE  new[1].bytes < new[m].bytes
  <2>1. m = Len(new)
    BY DEF m
  <2>2. PICK n \in Nat : n = m - 1
    BY <1>2
  <2>3. new[n + 1].bytes - new[1].bytes >= 512 * n
    BY <1>5, <2>1, <2>2 DEF LooksRegular
  <2>6. n + 1 = m /\ 512 * n > 0
    BY <1>2, <1>5, <2>2
  <2>4. new[1] \in Rows /\ new[m] \in Rows
    BY <1>2, <2>1, ElementOfSeq
  <2>5. new[1].bytes \in Nat /\ new[m].bytes \in Nat
    BY <2>4 DEF Rows
  <2> QED BY <2>3, <2>5, <2>6
<1> DEFINE verdict == m >= 4 /\ LooksRegular(new)
           next == [last |-> now, rows |-> new, verdict |-> verdict]
<1>6. next.last = now /\ next.rows = new /\ next.verdict = verdict
  OBVIOUS
<1>7. verdict => m >= 4 /\ new[1].bytes < new[m].bytes
  BY <1>5
<1> HIDE DEF next, verdict
<1>8. m = Len(new)
  BY DEF m
<1>9. Held(next, now, count, before, gap)
  BY <1>2, <1>3, <1>4, <1>6, <1>7, <1>8 DEF Held
<1> QED BY <1>8, <1>9 DEF next, verdict, new, row

\* A larger multiple is larger by one time at least.
LEMMA NextMultiple ==
  ASSUME NEW step \in Nat \ {0}, NEW a \in Int, NEW b \in Int, a * step < b * step
  PROVE  (a + 1) * step <= b * step
<1>1. a + 1 <= b
  <2> SUFFICES ASSUME b <= a PROVE FALSE
    OBVIOUS
  <2>1. PICK d \in Nat : a = b + d
    <3>1. a - b \in Nat /\ a = b + (a - b)
      OBVIOUS
    <3> QED BY <3>1
  <2>2. a * step = b * step + d * step /\ d * step \in Nat
    BY <2>1
  <2> QED BY <2>2
<1>2. PICK d \in Nat : b = a + 1 + d
  <2>1. b - (a + 1) \in Nat /\ b = a + 1 + (b - (a + 1))
    BY <1>1
  <2> QED BY <2>1
<1>3. b * step = (a + 1) * step + d * step /\ d * step \in Nat
  BY <1>2
<1> QED BY <1>3

\* The age of the latest row: a number of samples that fit in the interval.
Aged(sensor, now) ==
  Len(sensor.rows) > 0 =>
    \E a \in Nat : /\ now - sensor.last = a * config.step
                   /\ (a = 0 \/ a * config.step < GhostInterval)

\* So the sample after that is a gap from it at most.
LEMMA NextRowInTime ==
  ASSUME config.step \in Nat \ {0}, NEW a \in Nat,
         a = 0 \/ a * config.step < GhostInterval
  PROVE  (a + 1) * config.step <= RowGap /\ RowGap \in Nat
<1> DEFINE step == config.step
           up == (GhostInterval + step - 1) \div step
<1>1. step \in Nat /\ step > 0 /\ GhostInterval \in Nat
  BY DetectorAssumption
<1>2. GhostInterval + step - 1 \in Nat
  BY <1>1
<1> HIDE DEF step
<1>3. up \in Int /\ step * up <= GhostInterval + step - 1 /\ GhostInterval + step - 1 < step * up + step
  BY <1>1, <1>2
<1>4. RowGap = Larger(step, up * step)
  BY DEF RowGap, step
<1> HIDE DEF up
<1>5. up * step = step * up /\ up * step \in Int
  BY <1>1, <1>3
<1>6. CASE a = 0
  <2>1. (a + 1) * step = step
    BY <1>1, <1>6
  <2> QED BY <1>1, <1>4, <1>5, <2>1 DEF Larger, step
<1>7. CASE a # 0
  <2>1. a * step < up * step /\ a * step \in Int
    BY <1>1, <1>3, <1>5, <1>7 DEF step
  <2>2. (a + 1) * step <= up * step
    BY <1>1, <1>3, <2>1, NextMultiple
  <2>3. (a + 1) * step \in Int
    BY <1>1
  <2> QED BY <1>1, <1>4, <1>5, <2>2, <2>3 DEF Larger, step
<1> QED BY <1>6, <1>7

\* No row at all.
LEMMA HeldAtStart ==
  ASSUME NEW sensor, sensor.rows = <<>>, ~sensor.verdict,
         NEW now, NEW count, NEW before, NEW gap
  PROVE  Held(sensor, now, count, before, gap) /\ Aged(sensor, now)
<1>1. <<>> \in Seq(Rows) /\ Len(<<>>) = 0
  BY EmptySeq
<1>2. 0 <= GhostWindow
  BY DetectorAssumption
<1> QED BY <1>1, <1>2 DEF Held, Aged

\* GhostMonitor.sample, at the first sample and a step later at each other one.
LEMMA GhostStep ==
  ASSUME config.step \in Nat \ {0}, RowGap \in Nat,
         NEW sensor, NEW then \in Int, NEW now \in Int, then <= now,
         NEW count \in Nat, NEW more \in Nat, NEW before, NEW since,
         Held(sensor, then, count, before, RowGap), Aged(sensor, then), count <= more,
         \/ more = count /\ since = before
         \/ \A t \in Int : t <= now => t \in since,
         Len(sensor.rows) = 0 \/ now = then + config.step,
         NEW force
  PROVE  LET next == GhostSample(sensor, now, more, force)
         IN Held(next, now, more, since, RowGap) /\ Aged(next, now)
<1>1. Held(sensor, now, more, since, RowGap)
  BY HeldLater
<1>2. Len(sensor.rows) \in Nat /\ sensor.rows \in Seq(Rows)
  BY LenProperties DEF Held
<1>3. ASSUME Len(sensor.rows) > 0
      PROVE  \E a \in Nat : /\ now - sensor.last = (a + 1) * config.step
                           /\ (a + 1) * config.step <= RowGap
  <2>1. PICK a \in Nat : /\ then - sensor.last = a * config.step
                        /\ (a = 0 \/ a * config.step < GhostInterval)
    BY <1>3 DEF Aged
  <2>2. now = then + config.step
    BY <1>2, <1>3
  <2>3. sensor.last \in Int
    <3>1. sensor.rows[Len(sensor.rows)] \in Rows
      BY <1>2, <1>3, ElementOfSeq
    <3> QED BY <1>3, <3>1 DEF Held, Rows
  <2>4. (a + 1) * config.step = a * config.step + config.step /\ a * config.step \in Nat
    OBVIOUS
  <2>5. now - sensor.last = (a + 1) * config.step
    BY <2>1, <2>2, <2>3, <2>4
  <2>6. (a + 1) * config.step <= RowGap
    BY <2>1, NextRowInTime
  <2> QED BY <2>5, <2>6
<1> DEFINE row == [time |-> now, bytes |-> more]
           new == Newest(Append(sensor.rows, row), GhostWindow)
           taken == [last |-> now, rows |-> new, verdict |-> Len(new) >= 4 /\ LooksRegular(new)]
<1>4. CASE ~force /\ now - sensor.last < GhostInterval
  <2>1. GhostSample(sensor, now, more, force) = sensor
    BY <1>4 DEF GhostSample
  <2>2. Aged(sensor, now)
    <3> SUFFICES ASSUME Len(sensor.rows) > 0
                 PROVE  \E b \in Nat : /\ now - sensor.last = b * config.step
                                        /\ (b = 0 \/ b * config.step < GhostInterval)
      BY DEF Aged
    <3>1. PICK a \in Nat : now - sensor.last = (a + 1) * config.step
      BY <1>3
    <3>2. a + 1 \in Nat
      OBVIOUS
    <3> QED BY <1>4, <3>1, <3>2
  <2> QED BY <1>1, <2>1, <2>2
<1>5. CASE ~(~force /\ now - sensor.last < GhostInterval)
  <2>1. GhostSample(sensor, now, more, force) = taken
    BY <1>5 DEF GhostSample
  <2>2. Len(sensor.rows) > 0 => now - sensor.last <= RowGap
    BY <1>3
  <2>3. Held(taken, now, more, since, RowGap)
    BY <1>1, <2>2, HeldWithRow
  <2>4. Aged(taken, now)
    <3>1. taken.last = now
      OBVIOUS
    <3>2. now - now = 0 * config.step /\ 0 \in Nat
      OBVIOUS
    <3> HIDE DEF taken
    <3> QED BY <3>1, <3>2 DEF Aged
  <2> QED BY <2>1, <2>3, <2>4
<1> QED BY <1>4, <1>5

\* The inductive invariant of the ghost monitor on watch.
Now == config.uptime + clock
Before == {t \in Int : past.busy # NoTime /\ t <= config.uptime + past.busy}

TrafficHeard ==
  /\ past.busy \in Int \cup {NoTime} /\ DOMAIN past = {"busy", "motion", "frames"}
  /\ seq = 0 => ghost.rows = <<>>
  /\ Held(ghost, Now, bytes, Before, RowGap) /\ Aged(ghost, Now)
  /\ event.anomaly => ghost.verdict

\* A sample of the array.
LEMMA WatchingHears ==
  ASSUME Evidenced, Remembered, TrafficHeard, Watching
  PROVE  TrafficHeard'
<1> DEFINE ts == IF seq = 0 THEN clock ELSE clock + config.step
           awake == InActiveWindow(ts)
<1>1. /\ clock' = ts /\ config' = config
      /\ bytes' = bytes + (IF scene.traffic THEN 300 * config.step ELSE 0)
      /\ past' = [past EXCEPT
           !.busy = IF scene.traffic THEN ts ELSE @,
           !.motion = IF scene.intruder THEN ts ELSE @,
           !.frames = Newest(Append(@, [awake |-> event'.awake, level |-> frame'.level]), 3)]
      /\ Process(ts, Raw(ScoredLevel(event'), event'.tamper), event'.tamper)
  BY DEF Watching
<1>2. PICK noise \in config.noise : Sample(ts, SimChannels(config.scenario, noise))
  BY DEF Watching
<1>3. /\ config.step \in Nat \ {0} /\ config.uptime \in Nat
      /\ clock \in Int /\ ts \in Int /\ clock <= ts /\ bytes \in Nat
  BY ConfigAssumption DEF Remembered, TypeOK, Times
<1>4. seq' = seq + 1 /\ seq \in Nat
  BY <1>1 DEF Process, Suppress, Confirm, Alert, Watch, StandDown, Publish, Remembered, TypeOK
<1>5. /\ ghost' = (IF config.psutil
                   THEN GhostSample(ghost, config.uptime + ts, bytes', ~awake) ELSE GhostStart)
      /\ event'.anomaly = ghost'.verdict
  BY <1>2 DEF Sample
<1>6. /\ past'.busy = (IF scene.traffic THEN ts ELSE past.busy)
      /\ DOMAIN past' = {"busy", "motion", "frames"}
  BY <1>1 DEF TrafficHeard
<1>7. Now \in Int /\ Now' \in Int /\ Now <= Now' /\ Now' = config.uptime + ts
  BY <1>1, <1>3 DEF Now
<1>8. bytes' \in Nat /\ bytes <= bytes'
  <2>1. 300 * config.step \in Nat
    BY <1>3
  <2> QED BY <1>1, <1>3, <2>1
<1>9. \/ bytes' = bytes /\ Before' = Before
      \/ \A t \in Int : t <= Now' => t \in Before'
  <2>1. CASE scene.traffic
    <3>1. past'.busy = ts /\ ts # NoTime
      BY <1>3, <1>6, <2>1, NoTimeAssumption
    <3> QED BY <1>1, <1>7, <3>1 DEF Before
  <2>2. CASE ~scene.traffic
    BY <1>1, <1>3, <1>6, <2>2 DEF Before
  <2> QED BY <2>1, <2>2
<1>10. RowGap' = RowGap /\ RowGap \in Nat
  <2>1. RowGap \in Nat
    BY <1>3, NextRowInTime
  <2> QED BY <1>1, <2>1 DEF RowGap
<1>11. Len(ghost.rows) = 0 \/ Now' = Now + config.step
  <2>1. CASE seq = 0
    BY <2>1, EmptySeq DEF TrafficHeard
  <2>2. CASE seq # 0
    BY <1>1, <1>3, <2>2 DEF Now
  <2> QED BY <2>1, <2>2
<1> HIDE DEF ts, awake
<1>12. Held(ghost', Now', bytes', Before', RowGap') /\ Aged(ghost', Now')
  <2>1. CASE config.psutil
    <3> DEFINE next == GhostSample(ghost, Now', bytes', ~awake)
    <3>1. Held(next, Now', bytes', Before', RowGap) /\ Aged(next, Now')
      <4>1. Held(ghost, Now, bytes, Before, RowGap) /\ Aged(ghost, Now)
        BY DEF TrafficHeard
      <4> QED BY <1>3, <1>7, <1>8, <1>9, <1>10, <1>11, <4>1, GhostStep
    <3>2. ghost' = next
      BY <1>5, <1>7, <2>1
    <3> QED BY <1>10, <3>1, <3>2
  <2>2. CASE ~config.psutil
    <3>1. ghost'.rows = <<>> /\ ~ghost'.verdict
      BY <1>5, <2>2 DEF GhostStart
    <3> QED BY <3>1, HeldAtStart
  <2> QED BY <2>1, <2>2
<1>13. Aged(ghost', Now') = Aged(ghost, Now)'
  BY <1>1 DEF Aged
<1>14. past'.busy \in Int \cup {NoTime}
  BY <1>3, <1>6 DEF TrafficHeard
<1> QED BY <1>4, <1>5, <1>6, <1>12, <1>13, <1>14 DEF TrafficHeard, Held

LEMMA TrafficNext ==
  Evidenced /\ Remembered /\ TrafficHeard /\ [WatchNext]_watchVars => TrafficHeard'
<1> SUFFICES ASSUME Evidenced, Remembered, TrafficHeard, [WatchNext]_watchVars
             PROVE  TrafficHeard'
  OBVIOUS
<1>1. CASE Watching
  BY <1>1, WatchingHears
<1>2. CASE SceneChanges \/ Note \/ UNCHANGED watchVars
  <2>1. UNCHANGED <<seq, clock, config, ghost, bytes, event, past>>
    BY <1>2 DEF SceneChanges, Note, watchVars, vars, array
  <2> QED BY <2>1 DEF TrafficHeard, Held, Aged, Now, Before, RowGap
<1>3. CASE Reboot
  <2>1. /\ ghost'.rows = <<>> /\ ~ghost'.verdict /\ ~event'.anomaly
        /\ past'.busy = past.busy /\ DOMAIN past' = {"busy", "motion", "frames"}
    BY <1>3 DEF Reboot, GhostStart, NoEvent, TrafficHeard
  <2>2. Held(ghost', Now', bytes', Before', RowGap') /\ Aged(ghost, Now)'
    <3>1. Held(ghost', Now', bytes', Before', RowGap')
      BY <2>1, HeldAtStart
    <3>2. Len(ghost'.rows) = 0
      BY <2>1, EmptySeq
    <3> QED BY <3>1, <3>2 DEF Aged
  <2> QED BY <2>1, <2>2 DEF TrafficHeard, Held
<1> QED BY <1>1, <1>2, <1>3 DEF WatchNext

(***************************************************************************)
(* AnomalyNeedsRecentTraffic, for every sampling interval, window and duty   *)
(* cycle: an anomaly means that the counter grew within the rows that are    *)
(* held, and these reach back no further than the window.                   *)
(***************************************************************************)
THEOREM AnomalyIsRecent == WatchSpec => []AnomalyNeedsRecentTraffic
<1>1. WatchInit => TrafficHeard
  <2> SUFFICES ASSUME WatchInit PROVE TrafficHeard
    OBVIOUS
  <2>1. /\ ghost.rows = <<>> /\ ~ghost.verdict /\ ~event.anomaly
        /\ past.busy = NoTime /\ DOMAIN past = {"busy", "motion", "frames"}
    BY DEF WatchInit, ArrayStart, GhostStart, NoEvent
  <2> QED BY <2>1, HeldAtStart DEF TrafficHeard
<1>2. Evidenced /\ Remembered /\ TrafficHeard => AnomalyNeedsRecentTraffic
  <2> SUFFICES ASSUME Evidenced, Remembered, TrafficHeard, event.anomaly
               PROVE  past.busy # NoTime /\ clock - past.busy <= GhostWindow * RowGap
    BY DEF AnomalyNeedsRecentTraffic
  <2> DEFINE rows == ghost.rows
             l == Len(rows)
  <2>1. /\ rows \in Seq(Rows) /\ l \in Nat /\ l >= 4 /\ l <= GhostWindow
        /\ rows[1].bytes < rows[l].bytes /\ ghost.last = rows[l].time
        /\ rows[l].bytes <= bytes
        /\ rows[l].time - rows[1].time <= (l - 1) * RowGap
        /\ rows[1].bytes < bytes => rows[1].time \in Before
    <3>1. Held(ghost, Now, bytes, Before, RowGap) /\ ghost.verdict
      BY DEF TrafficHeard
    <3>2. rows \in Seq(Rows) /\ l \in Nat /\ l >= 4 /\ l <= GhostWindow
      BY <3>1, LenProperties DEF Held
    <3>3. 1 \in 1..l /\ l \in 1..l
      BY <3>2
    <3> QED BY <3>1, <3>2, <3>3 DEF Held
  <2>2. /\ rows[1].time \in Int /\ rows[l].time \in Int
        /\ rows[1].bytes \in Nat /\ rows[l].bytes \in Nat
    <3>1. rows[1] \in Rows /\ rows[l] \in Rows
      BY <2>1, ElementOfSeq
    <3> QED BY <3>1 DEF Rows
  <2>3. /\ config.step \in Nat \ {0} /\ config.uptime \in Nat /\ clock \in Int /\ bytes \in Nat
    BY ConfigAssumption DEF Remembered, TypeOK, Times
  <2>4. Now - ghost.last <= RowGap /\ RowGap \in Nat
    <3>1. PICK a \in Nat : /\ Now - ghost.last = a * config.step
                          /\ (a = 0 \/ a * config.step < GhostInterval)
      BY <2>1 DEF TrafficHeard, Aged
    <3>2. (a + 1) * config.step <= RowGap /\ RowGap \in Nat
      BY <2>3, <3>1, NextRowInTime
    <3>3. (a + 1) * config.step = a * config.step + config.step /\ a * config.step \in Nat
      BY <2>3
    <3> QED BY <2>3, <3>1, <3>2, <3>3
  <2>5. (l - 1) * RowGap + RowGap <= GhostWindow * RowGap /\ (l - 1) * RowGap \in Nat
    <3>1. GhostWindow \in Nat
      BY DetectorAssumption
    <3>2. (l - 1) * RowGap + RowGap = l * RowGap /\ l - 1 \in Nat
      BY <2>1, <2>4
    <3>3. RowGap * l <= RowGap * GhostWindow
      BY <2>1, <2>4, <3>1, ProductGrows
    <3>4. RowGap * l = l * RowGap /\ RowGap * GhostWindow = GhostWindow * RowGap
      BY <2>1, <2>4, <3>1
    <3>5. (l - 1) * RowGap \in Nat
      BY <2>4, <3>2
    <3> QED BY <3>2, <3>3, <3>4, <3>5
  <2>6. rows[1].time \in Before
    BY <2>1, <2>2, <2>3
  <2>7. past.busy # NoTime /\ rows[1].time <= config.uptime + past.busy
    BY <2>6 DEF Before
  <2>8. past.busy \in Int
    BY <2>7 DEF TrafficHeard
  <2>9. PICK k \in Nat, w \in Nat : k = (l - 1) * RowGap /\ w = GhostWindow * RowGap
    BY <2>4, <2>5, DetectorAssumption
  <2>10. Now \in Int
    BY <2>3 DEF Now
  <2>11. Now - rows[1].time <= k + RowGap /\ k + RowGap <= w
    <3>1. rows[l].time - rows[1].time <= k /\ k + RowGap <= w
      BY <2>1, <2>5, <2>9
    <3>2. Now - rows[l].time <= RowGap
      BY <2>1, <2>4
    <3> QED BY <2>2, <2>4, <2>10, <3>1, <3>2
  <2>12. clock - past.busy <= Now - rows[1].time
    BY <2>2, <2>3, <2>7, <2>8 DEF Now
  <2>13. clock - past.busy <= w
    BY <2>2, <2>3, <2>4, <2>8, <2>10, <2>11, <2>12
  <2> QED BY <2>7, <2>9, <2>13
<1> QED BY <1>1, <1>2, TrafficNext, WatchRemembers, PTL DEF WatchSpec

------------------------------------------------------------------------------
(***************************************************************************)
(* The duty cycle and the dwell time.                                      *)
(***************************************************************************)

\* A time s earlier in a cycle of p: earlier in the same cycle or late in the
\* one before.
LEMMA EarlierInCycle ==
  ASSUME NEW p \in Nat \ {0}, NEW t \in Int, NEW s \in Nat, s <= p
  PROVE  /\ t % p \in 0..(p - 1)
         /\ (t - s) % p = IF t % p < s THEN (t % p) - s + p ELSE (t % p) - s
<1> DEFINE q == t \div p
           r == t % p
           v == (t - s) \div p
           u == (t - s) % p
<1>1. /\ q \in Int /\ r \in Int /\ t = p * q + r /\ 0 <= r /\ r < p
  OBVIOUS
<1>2. t - s \in Int
  OBVIOUS
<1>3. v \in Int /\ u \in Int /\ t - s = p * v + u /\ 0 <= u /\ u < p
  BY <1>2
<1> HIDE DEF q, r, u, v
<1>4. PICK k \in Int : k = q - v
  BY <1>1, <1>3
<1>5. u = r - s + p * k
  <2>1. p * k = p * q - p * v /\ p * q \in Int /\ p * v \in Int
    BY <1>1, <1>3, <1>4
  <2> QED BY <1>1, <1>3, <2>1
<1>6. p * k < 2 * p /\ (-1) * p < p * k
  <2>1. p * k \in Int
    BY <1>4
  <2> QED BY <1>1, <1>3, <1>5, <2>1
<1>7. k \in {0, 1}
  <2>1. k < 2
    BY <1>4, <1>6
  <2>2. -1 < k
    BY <1>4, <1>6
  <2> QED BY <2>1, <2>2
<1>8. p * 0 = 0 /\ p * 1 = p
  OBVIOUS
<1>9. u = IF r < s THEN r - s + p ELSE r - s
  <2>1. CASE k = 0
    BY <1>1, <1>3, <1>5, <1>8, <2>1
  <2>2. CASE k = 1
    BY <1>1, <1>3, <1>5, <1>8, <2>2
  <2> QED BY <1>7, <2>1, <2>2
<1>10. r \in 0..(p - 1)
  BY <1>1
<1> QED BY <1>9, <1>10 DEF r, u

\* Of three samples in a row, the last one awake, one is asleep.
LEMMA AsleepBefore ==
  ASSUME Evidenced, ShortWindow, NEW ts \in Int, cycleStart \in Int, InActiveWindow(ts)
  PROVE  ~InActiveWindow(ts - config.step) \/ ~InActiveWindow(ts - config.step - config.step)
<1> DEFINE p == Period
           s == config.step
           t == ts - cycleStart
<1>1. /\ config.active \in Nat /\ config.sleep \in Nat /\ s \in Nat \ {0}
      /\ s <= config.sleep /\ config.active <= 2 * s
  BY ConfigAssumption DEF Evidenced, ShortWindow
<1>2. p \in Nat \ {0} /\ s <= p /\ p = config.active + config.sleep
  BY <1>1 DEF Period
<1>3. \A x \in Int : InActiveWindow(x) <=> (x - cycleStart) % p < config.active
  BY <1>2 DEF InActiveWindow
<1> HIDE DEF p, s
<1>4. t \in Int /\ t - s \in Int /\ t - s - s \in Int
  BY <1>1
<1>5. /\ t % p \in 0..(p - 1)
      /\ (t - s) % p = IF t % p < s THEN (t % p) - s + p ELSE (t % p) - s
  BY <1>1, <1>2, <1>4, EarlierInCycle
<1>6. (t - s - s) % p = IF (t - s) % p < s THEN ((t - s) % p) - s + p ELSE ((t - s) % p) - s
  BY <1>1, <1>2, <1>4, EarlierInCycle
<1>7. /\ ts - cycleStart = t
      /\ ts - s - cycleStart = t - s /\ ts - s - s - cycleStart = t - s - s
      /\ ts - s \in Int /\ ts - s - s \in Int
  BY <1>1
<1>8. t % p < config.active
  BY <1>3
<1> HIDE DEF t
<1>9. (t - s) % p >= config.active \/ (t - s - s) % p >= config.active
  BY <1>1, <1>2, <1>5, <1>6, <1>8
<1>10. (t - s) % p \in Int /\ (t - s - s) % p \in Int
  BY <1>1, <1>2, <1>5, <1>6
<1> QED BY <1>1, <1>3, <1>7, <1>9, <1>10 DEF s

\* What an event makes of the dwell timer: it runs only behind a level that is
\* shown, and a threat is shown only after the dwell time (guardian.py).
LEMMA TimerShows ==
  ASSUME TypeOK, NEW ts \in Times, NEW raw, NEW tamper, Process(ts, raw, tamper), ~Suppressed
  PROVE  /\ elevatedSince' # NoTime =>
              elevatedSince' \in {elevatedSince, ts} /\ frame'.level # "CLEAR"
         /\ frame'.level \in Threat /\ Dwell > 0 =>
              elevatedSince # NoTime /\ ts - elevatedSince >= Dwell
<1> DEFINE level == Effective(ts, raw)
<1>1. CASE Confirm(ts, raw, tamper) \/ Watch(ts, raw, tamper)
  <2>1. frame'.level = "YELLOW" /\ elevatedSince' \in {elevatedSince, ts}
    BY <1>1 DEF Confirm, Watch, Publish, ElevatedFrom
  <2> QED BY <2>1 DEF Threat
<1>2. CASE StandDown(ts, raw, tamper)
  BY <1>2 DEF StandDown, Publish, Threat
<1>3. CASE Alert(ts, raw, tamper)
  <2>1. /\ level \in Critical /\ ~Unconfirmed(ts, level) /\ frame'.level = level
        /\ elevatedSince' = ElevatedFrom(ts)
    BY <1>3 DEF Alert, Publish
  <2>2. level # "CLEAR" /\ elevatedSince' \in {elevatedSince, ts}
    BY <2>1 DEF Critical, Threat, ElevatedFrom
  <2>3. ASSUME level \in Threat, Dwell > 0
        PROVE  elevatedSince # NoTime /\ ts - elevatedSince >= Dwell
    <3>1. level # "HOLD" /\ ~(ts - ElevatedFrom(ts) < Dwell)
      BY <2>1, <2>3 DEF Threat, Unconfirmed
    <3>2. ts \in Int /\ Dwell \in Nat /\ (elevatedSince # NoTime => elevatedSince \in Int)
      BY DurationAssumption DEF TypeOK, Times
    <3>3. ts - ts = 0
      BY <3>2
    <3>4. elevatedSince # NoTime
      BY <2>3, <3>1, <3>2, <3>3 DEF ElevatedFrom
    <3> QED BY <3>1, <3>2, <3>4 DEF ElevatedFrom
  <2> HIDE DEF level
  <2> QED BY <2>1, <2>2, <2>3
<1>4. ~Suppress(ts, raw, tamper)
  BY DEF Suppress
<1> QED BY <1>1, <1>2, <1>3, <1>4 DEF Process

FrameNotes == [awake : BOOLEAN, level : Levels]

\* The latest frames are those of the latest samples, and the dwell timer runs
\* only behind frames that are not CLEAR.
Paced ==
  LET h == past.frames
      l == Len(h)
  IN /\ DOMAIN past = {"busy", "motion", "frames"} /\ cycleStart \in Int
     /\ h \in Seq(FrameNotes) /\ l = Smaller(seq, 3)
     /\ l >= 1 => (h[l].awake <=> InActiveWindow(clock))
     /\ l >= 2 => (h[l - 1].awake <=> InActiveWindow(clock - config.step))
     /\ elevatedSince # NoTime =>
          /\ ~Suppressed /\ elevatedSince <= clock
          /\ l >= 1 /\ h[l].level # "CLEAR"
          /\ \/ elevatedSince = clock
             \/ elevatedSince <= clock - config.step /\ l >= 2 /\ h[l - 1].level # "CLEAR"

\* The frames of a sample: the newest is its own, the others are the two before.
LEMMA FramesFollow ==
  ASSUME NEW h \in Seq(FrameNotes), NEW note \in FrameNotes, NEW n \in Nat, Len(h) = Smaller(n, 3)
  PROVE  LET new == Newest(Append(h, note), 3)
             l == Len(new)
         IN /\ new \in Seq(FrameNotes) /\ l = Smaller(n + 1, 3)
            /\ new[l] = note
            /\ l >= 2 => Len(h) >= 1 /\ new[l - 1] = h[Len(h)]
            /\ Len(h) >= 2 => l >= 3 /\ new[l - 2] = h[Len(h) - 1]
<1> DEFINE new == Newest(Append(h, note), 3)
           l == Len(new)
           k == Len(h)
<1>1. new \in Seq(FrameNotes) /\ Continues(new, h, note) /\ l = Smaller(k + 1, 3)
  <2>1. PICK size \in Nat \ {0} : size = 3
    OBVIOUS
  <2>2. /\ Newest(Append(h, note), size) \in Seq(FrameNotes)
        /\ Continues(Newest(Append(h, note), size), h, note)
        /\ Len(Newest(Append(h, note), size)) = Smaller(Len(h) + 1, size)
    BY NewestAppended
  <2> QED BY <2>1, <2>2
<1>2. k \in 0..3 /\ l \in 1..3
  <2>1. k \in Nat /\ k = Smaller(n, 3)
    BY LenProperties
  <2>2. k \in 0..3
    BY <2>1 DEF Smaller
  <2> HIDE DEF k, l
  <2> QED BY <1>1, <2>2 DEF Smaller
<1> HIDE DEF new
<1>3. new[l] = note /\ \A i \in 1..(l - 1) : \E j \in 1..k : new[i] = h[j] /\ k - j = l - 1 - i
  BY <1>1 DEF Continues
<1> HIDE DEF l, k
<1>4. l = Smaller(n + 1, 3)
  BY <1>1 DEF Smaller, k
<1>5. l >= 2 => k >= 1 /\ new[l - 1] = h[k]
  <2> SUFFICES ASSUME l >= 2 PROVE k >= 1 /\ new[l - 1] = h[k]
    OBVIOUS
  <2>1. PICK j \in 1..k : new[l - 1] = h[j] /\ k - j = l - 1 - (l - 1)
    BY <1>2, <1>3
  <2>2. j = k
    BY <1>2, <2>1
  <2> QED BY <1>2, <2>1, <2>2
<1>6. k >= 2 => l >= 3 /\ new[l - 2] = h[k - 1]
  <2> SUFFICES ASSUME k >= 2 PROVE l >= 3 /\ new[l - 2] = h[k - 1]
    OBVIOUS
  <2>1. l = 3
    BY <1>1, <1>2 DEF Smaller
  <2>2. PICK j \in 1..k : new[l - 2] = h[j] /\ k - j = l - 1 - (l - 2)
    BY <1>3, <2>1
  <2>3. j = k - 1
    BY <1>2, <2>1, <2>2
  <2> QED BY <2>1, <2>2, <2>3
<1> QED BY <1>1, <1>3, <1>4, <1>5, <1>6 DEF l, k, new

\* A sample, with what the guardian makes of it.
LEMMA WatchingPaces ==
  ASSUME Evidenced, Remembered, Paced, Watching
  PROVE  Paced' /\ AwakeThreatSeenAsleep'
<1> DEFINE ts == IF seq = 0 THEN clock ELSE clock + config.step
           raw == Raw(ScoredLevel(event'), event'.tamper)
           h == past.frames
           note == [awake |-> event'.awake, level |-> frame'.level]
           new == Newest(Append(h, note), 3)
           k == Len(h)
           l == Len(new)
<1>1. /\ clock' = ts /\ config' = config /\ cycleStart' = cycleStart /\ phase' = phase
      /\ past' = [past EXCEPT
           !.busy = IF scene.traffic THEN ts ELSE @,
           !.motion = IF scene.intruder THEN ts ELSE @,
           !.frames = Newest(Append(@, [awake |-> event'.awake, level |-> frame'.level]), 3)]
      /\ ts \in Times
      /\ Process(ts, raw, event'.tamper)
  BY DEF Watching
<1>2. PICK noise \in config.noise : Sample(ts, SimChannels(config.scenario, noise))
  BY DEF Watching
<1>3. /\ config.step \in Nat \ {0} /\ clock \in Int /\ ts \in Int /\ TypeOK /\ seq \in Nat
  BY <1>1, ConfigAssumption DEF Remembered, TypeOK, Times
<1>4. (event'.awake <=> InActiveWindow(ts)) /\ event'.awake \in BOOLEAN
  <2>1. event'.awake = InActiveWindow(ts)
    BY <1>2 DEF Sample
  <2>2. InActiveWindow(ts) \in BOOLEAN
    BY DEF InActiveWindow
  <2> QED BY <2>1, <2>2
<1>5. TypeOK' /\ frame'.level \in Levels
  <2>1. Remembered'
    BY WatchingRemembers
  <2>2. TypeOK'
    BY <2>1 DEF Remembered
  <2> QED BY <2>2 DEF TypeOK, Frames, NoFrame, Levels
<1>6. seq' = seq + 1
  BY <1>1 DEF Process, Suppress, Confirm, Alert, Watch, StandDown, Publish
<1>7. past'.frames = new /\ DOMAIN past' = {"busy", "motion", "frames"}
  BY <1>1 DEF Paced
<1>8. note \in FrameNotes /\ note.awake = event'.awake /\ note.level = frame'.level
  BY <1>4, <1>5 DEF FrameNotes
<1>9. h \in Seq(FrameNotes) /\ k = Smaller(seq, 3) /\ k \in Nat
  BY LenProperties DEF Paced
<1> HIDE DEF note, raw
<1>10. /\ new \in Seq(FrameNotes) /\ l = Smaller(seq + 1, 3) /\ l \in Nat
       /\ new[l] = note
       /\ l >= 2 => k >= 1 /\ new[l - 1] = h[k]
       /\ k >= 2 => l >= 3 /\ new[l - 2] = h[k - 1]
  BY <1>3, <1>8, <1>9, FramesFollow, LenProperties
<1> HIDE DEF new, l, h, k
<1>11. (k = 0 <=> seq = 0) /\ (k >= 1 => ts = clock + config.step) /\ l >= 1
  BY <1>3, <1>9, <1>10 DEF Smaller
<1>12. /\ k >= 1 => (h[k].awake <=> InActiveWindow(clock))
       /\ k >= 2 => (h[k - 1].awake <=> InActiveWindow(clock - config.step))
       /\ elevatedSince # NoTime =>
            /\ ~Suppressed /\ elevatedSince <= clock
            /\ k >= 1 /\ h[k].level # "CLEAR"
            /\ \/ elevatedSince = clock
               \/ elevatedSince <= clock - config.step /\ k >= 2 /\ h[k - 1].level # "CLEAR"
  BY DEF Paced, h, k
<1>13. elevatedSince # NoTime => elevatedSince \in Int
  BY <1>3 DEF TypeOK, Times
<1>14. Suppressed' = Suppressed
  BY <1>1 DEF Suppressed
<1>15. /\ Suppressed => elevatedSince' = elevatedSince /\ frame'.level \notin Threat
       /\ ~Suppressed =>
            /\ elevatedSince' # NoTime =>
                 elevatedSince' \in {elevatedSince, ts} /\ frame'.level # "CLEAR"
            /\ frame'.level \in Threat /\ Dwell > 0 =>
                 elevatedSince # NoTime /\ ts - elevatedSince >= Dwell
  <2>1. CASE Suppressed
    <3>1. Suppress(ts, raw, event'.tamper)
      BY <1>1, <2>1 DEF Process, Confirm, Alert, Watch, StandDown
    <3> QED BY <2>1, <3>1 DEF Suppress, Publish, memory, Threat
  <2>2. CASE ~Suppressed
    BY <1>1, <1>3, <2>2, TimerShows
  <2> QED BY <2>1, <2>2
<1>16. l >= 2 => (new[l - 1].awake <=> InActiveWindow(ts - config.step))
  <2> SUFFICES ASSUME l >= 2 PROVE new[l - 1].awake <=> InActiveWindow(ts - config.step)
    OBVIOUS
  <2>1. ts - config.step = clock
    BY <1>3, <1>10, <1>11
  <2> QED BY <1>10, <1>12, <2>1
<1>17. elevatedSince' # NoTime =>
         /\ ~Suppressed' /\ elevatedSince' <= ts /\ new[l].level # "CLEAR"
         /\ \/ elevatedSince' = ts
            \/ elevatedSince' <= ts - config.step /\ l >= 2 /\ new[l - 1].level # "CLEAR"
  <2> SUFFICES ASSUME elevatedSince' # NoTime
               PROVE  /\ ~Suppressed' /\ elevatedSince' <= ts /\ new[l].level # "CLEAR"
                      /\ \/ elevatedSince' = ts
                         \/ elevatedSince' <= ts - config.step /\ l >= 2 /\ new[l - 1].level # "CLEAR"
    OBVIOUS
  <2>1. ~Suppressed
    BY <1>12, <1>15
  <2>2. elevatedSince' \in {elevatedSince, ts} /\ frame'.level # "CLEAR"
    BY <1>15, <2>1
  <2>3. new[l].level # "CLEAR"
    BY <1>8, <1>10, <2>2
  <2>4. CASE elevatedSince' = ts
    BY <1>3, <1>14, <2>1, <2>3, <2>4
  <2>5. CASE elevatedSince' # ts
    <3>1. elevatedSince' = elevatedSince /\ elevatedSince # NoTime
      BY <2>2, <2>5
    <3>2. k >= 1 /\ h[k].level # "CLEAR" /\ elevatedSince <= clock
      BY <1>12, <3>1
    <3>3. ts - config.step = clock /\ clock <= ts
      BY <1>3, <1>11, <3>2
    <3>4. l >= 2
      BY <1>3, <1>9, <1>10, <1>11, <3>2 DEF Smaller
    <3> QED BY <1>3, <1>10, <1>13, <1>14, <2>1, <2>3, <3>1, <3>2, <3>3, <3>4
  <2> QED BY <2>4, <2>5
<1>18. ASSUME ShortWindow, event'.awake, frame'.level \in Threat
       PROVE  \E i \in 1..(l - 1) : ~new[i].awake /\ new[i].level # "CLEAR"
  <2>1. config.step < Dwell /\ Dwell \in Nat
    BY <1>18, DurationAssumption DEF ShortWindow
  <2>2. ~Suppressed /\ elevatedSince # NoTime /\ ts - elevatedSince >= Dwell
    BY <1>3, <1>15, <1>18, <2>1
  <2>3. k >= 1 /\ h[k].level # "CLEAR"
    BY <1>12, <2>2
  <2>4. ts - config.step = clock /\ elevatedSince < clock
    BY <1>3, <1>11, <1>13, <2>1, <2>2, <2>3
  <2>5. k >= 2 /\ h[k - 1].level # "CLEAR"
    BY <1>12, <1>13, <2>2, <2>4
  <2>6. l = 3 /\ new[l - 1] = h[k] /\ new[l - 2] = h[k - 1]
    BY <1>3, <1>10, <2>5 DEF Smaller
  <2>7. ~InActiveWindow(clock) \/ ~InActiveWindow(clock - config.step)
    <3>1. ~InActiveWindow(ts - config.step) \/ ~InActiveWindow(ts - config.step - config.step)
      BY <1>3, <1>4, <1>18, AsleepBefore DEF Paced
    <3> QED BY <2>4, <3>1
  <2>8. CASE ~InActiveWindow(clock)
    <3>1. ~new[2].awake /\ new[2].level # "CLEAR"
      BY <1>12, <2>3, <2>6, <2>8
    <3> QED BY <2>6, <3>1
  <2>9. CASE ~InActiveWindow(clock - config.step)
    <3>1. ~new[1].awake /\ new[1].level # "CLEAR"
      BY <1>12, <2>5, <2>6, <2>9
    <3> QED BY <2>6, <3>1
  <2> QED BY <2>7, <2>8, <2>9
<1>19. Paced'
  <2>1. past'.frames = new /\ Len(past'.frames) = l
    BY <1>7 DEF l, new
  <2>2. (new[l].awake <=> InActiveWindow(ts)) /\ cycleStart' \in Int
    BY <1>1, <1>4, <1>8, <1>10 DEF Paced
  <2>3. (InActiveWindow(clock)' <=> InActiveWindow(ts))
        /\ (InActiveWindow(clock - config.step)' <=> InActiveWindow(ts - config.step))
    BY <1>1 DEF InActiveWindow, Period
  <2> QED BY <1>1, <1>6, <1>7, <1>10, <1>11, <1>16, <1>17, <2>1, <2>2, <2>3 DEF Paced
<1>20. AwakeThreatSeenAsleep'
  <2>1. past'.frames = new /\ Len(past'.frames) = l /\ ShortWindow' = ShortWindow
    BY <1>1, <1>7 DEF l, new, ShortWindow
  <2> QED BY <1>18, <2>1 DEF AwakeThreatSeenAsleep
<1> QED BY <1>19, <1>20

LEMMA PacedNext ==
  Evidenced /\ Remembered /\ Paced /\ AwakeThreatSeenAsleep /\ [WatchNext]_watchVars
    => Paced' /\ AwakeThreatSeenAsleep'
<1> SUFFICES ASSUME Evidenced, Remembered, Paced, AwakeThreatSeenAsleep, [WatchNext]_watchVars
             PROVE  Paced' /\ AwakeThreatSeenAsleep'
  OBVIOUS
<1>1. CASE Watching
  BY <1>1, WatchingPaces
<1>2. CASE SceneChanges \/ Note \/ UNCHANGED watchVars
  <2>1. UNCHANGED <<seq, elevatedSince, phase, clock, frame, config, cycleStart, event, past>>
    BY <1>2 DEF SceneChanges, Note, watchVars, vars, memory, array
  <2> QED BY <2>1 DEF Paced, AwakeThreatSeenAsleep, ShortWindow, InActiveWindow, Period, Suppressed
<1>3. CASE Reboot
  <2>1. /\ past'.frames = <<>> /\ DOMAIN past' = {"busy", "motion", "frames"}
        /\ seq' = 0 /\ elevatedSince' = NoTime /\ cycleStart' = clock /\ frame'.level = "CLEAR"
    BY <1>3 DEF Reboot, Restart, NoFrame, Paced
  <2>2. <<>> \in Seq(FrameNotes) /\ Len(<<>>) = 0 /\ clock \in Int
    BY EmptySeq DEF Remembered, TypeOK, Times
  <2> QED BY <2>1, <2>2 DEF Paced, AwakeThreatSeenAsleep, Smaller, Threat
<1> QED BY <1>1, <1>2, <1>3 DEF WatchNext

(***************************************************************************)
(* AwakeThreatSeenAsleep, for every dwell time, duty cycle and sampling that *)
(* make a short window: the dwell timer of a confirmed threat started before *)
(* the latest two samples, and one of these fell in the sleep window.       *)
(***************************************************************************)
THEOREM ThreatShowedAsleep == WatchSpec => []AwakeThreatSeenAsleep
<1>1. WatchInit => Paced /\ AwakeThreatSeenAsleep
  <2> SUFFICES ASSUME WatchInit PROVE Paced /\ AwakeThreatSeenAsleep
    OBVIOUS
  <2>1. /\ past.frames = <<>> /\ DOMAIN past = {"busy", "motion", "frames"}
        /\ seq = 0 /\ elevatedSince = NoTime /\ cycleStart = 0 /\ frame.level = "CLEAR"
    BY DEF WatchInit, ArrayStart, Init, NoFrame
  <2>2. <<>> \in Seq(FrameNotes) /\ Len(<<>>) = 0
    BY EmptySeq
  <2> QED BY <2>1, <2>2 DEF Paced, AwakeThreatSeenAsleep, Smaller, Threat
<1> QED BY <1>1, PacedNext, WatchRemembers, PTL DEF WatchSpec

------------------------------------------------------------------------------
(***************************************************************************)
(* The drift of the synthetic radio.                                       *)
(***************************************************************************)

\* After n reads the level has risen by n \div 2 tenths of a decibel, and the
\* baselines are those of the first two reads, which little noise lifts by 4 to 12.
Drifted(sensor) ==
  /\ sensor.index \in Nat
  /\ sensor.peak = (sensor.index \div 2) - 550
  /\ DOMAIN sensor.baselines =
       (IF sensor.index >= 1 THEN {"2g4"} ELSE {}) \cup (IF sensor.index >= 2 THEN {"5g8"} ELSE {})
  /\ sensor.index >= 1 => sensor.baselines["2g4"] \in (-496)..(-488)
  /\ sensor.index >= 2 => sensor.baselines["5g8"] \in (-595)..(-587)

LEMMA DriftStart == Drifted(RfStart) /\ RfStart.index = 0
BY DEF Drifted, RfStart

\* What little noise makes of the synthetic channels (synthetic.py).
LEMMA LittleNoise ==
  ASSUME NEW noise \in -1..1
  PROVE  LET sim == SimChannels("benign", noise)
         IN /\ sim.pir \in 0..108 /\ sim.acoustic \in 0..156 /\ sim.visual \in 0..120
            /\ sim.rf \in 24..72 /\ sim.rf \div 6 \in 4..12
            /\ ~sim.jamming /\ ~sim.lowVisibility
<1> DEFINE full == IF Intruding("benign") THEN 1 ELSE 0
           bright == 72 + 960 * full + 48 * noise
<1>1. noise \in {-1, 0, 1}
  OBVIOUS
<1>2. full = 0
  BY DEF Intruding
<1>3. /\ Clamp(60 + 1020 * full + 48 * noise) \in 0..108
      /\ Clamp(96 + 900 * full + 60 * noise) \in 0..156
      /\ Clamp(bright) \in 0..120
      /\ Clamp(48 + 480 * full + 24 * noise) \in 24..72
  <2> HIDE DEF full
  <2> QED BY <1>1, <1>2 DEF Clamp, Larger, Smaller, Full
<1>4. /\ (IF "benign" = "jamming" THEN 1176 ELSE 480 * full) = 480 * full
      /\ (IF "benign" = "low_visibility" THEN (bright * 35) \div 100 ELSE bright) = bright
  OBVIOUS
<1>5. \A x \in 24..72 : x \div 6 \in 4..12
  OBVIOUS
<1> DEFINE sim == SimChannels("benign", noise)
<1>6. /\ sim.pir \in 0..108 /\ sim.acoustic \in 0..156 /\ sim.visual \in 0..120 /\ sim.rf \in 24..72
  BY <1>3, <1>4 DEF SimChannels
<1>7. ~sim.jamming /\ ~sim.lowVisibility
  <2>1. sim.jamming <=> "benign" = "jamming"
    BY DEF SimChannels
  <2>2. sim.lowVisibility <=> "benign" = "low_visibility"
    BY DEF SimChannels
  <2> QED BY <2>1, <2>2
<1> QED BY <1>5, <1>6, <1>7

\* What a read adds to the drift, and what it says: nothing in the first 83 reads,
\* and jamming from the 158th on in the band that drifts.
DriftsOn(sensor, read) ==
  /\ Drifted(read.memory) /\ read.memory.index = sensor.index + 1
  /\ sensor.index <= 82 => ~read.jamming /\ read.score \in 0..480
  /\ sensor.index >= 157 /\ sensor.index % 2 = 1 => read.jamming /\ read.score >= 700

\* A read of the 2.4 GHz band: never jammed, and a score of little.
LEMMA ReadsFlatBand ==
  ASSUME NEW sensor, Drifted(sensor), sensor.index % 2 = 0,
         NEW synthetic, synthetic \div 6 \in 4..12
  PROVE  DriftsOn(sensor, RfRead(sensor, synthetic, FALSE))
<1> DEFINE n == sensor.index
           lift == synthetic \div 6
           sweep == Sweep(sensor, synthetic)
           lines == Baselines(sensor, sweep)
           base == lines["2g4"]
<1>1. n \in Nat /\ lift \in 4..12 /\ n % 2 = 0
  BY DEF Drifted
<1>2. BandOf(sensor) = "2g4"
  BY DEF BandOf, Bands
<1>3. Drift(sensor) = sensor.peak
  BY <1>2 DEF Drift
<1>4. sweep.low = lift - 500 /\ sweep.high = lift - 481
  BY <1>1, <1>2 DEF Sweep
<1> HIDE DEF sweep
<1>5. /\ DOMAIN lines = DOMAIN sensor.baselines \cup {"2g4"}
      /\ \A b \in DOMAIN lines :
           lines[b] = IF b \in DOMAIN sensor.baselines THEN sensor.baselines[b] ELSE sweep.low
  BY <1>2 DEF Baselines
<1> HIDE DEF lines, lift
<1>6. base \in (-496)..(-488)
  <2>1. CASE n = 0
    <3>1. base = sweep.low
      BY <1>5, <2>1 DEF Drifted
    <3> QED BY <1>1, <1>4, <3>1
  <2>2. CASE n >= 1
    BY <1>5, <2>2 DEF Drifted
  <2> QED BY <1>1, <2>1, <2>2
<1> HIDE DEF base
<1>7. sweep.high - base \in 0..27 /\ sweep.high - sweep.low = 19
      /\ sweep.low + sweep.high <= 2 * (base + 48)
  BY <1>1, <1>4, <1>6
<1>8. ~LooksJammed(sweep, base)
  <2>1. sweep.low + sweep.high \in Int /\ 2 * (base + 48) \in Int
    BY <1>1, <1>4, <1>6
  <2> QED BY <1>7, <2>1 DEF LooksJammed
<1>9. Clamp(10 * (sweep.high - base)) \in 0..480
  BY <1>7 DEF Clamp, Larger, Smaller, Full
<1> DEFINE next == [index |-> n + 1, baselines |-> lines, peak |-> sensor.peak]
<1> DEFINE jammed == LooksJammed(sweep, base)
           score == Clamp(10 * (sweep.high - base))
           shown == IF jammed THEN JammedScore(score, synthetic) ELSE score
           read == RfRead(sensor, synthetic, FALSE)
<1>10. /\ read.memory = next /\ read.score = shown
       /\ read.jamming <=> jammed
  <2>1. read.memory = next /\ read.score = shown
    BY <1>2, <1>3 DEF RfRead, sweep, lines, base
  <2>2. read.jamming <=> jammed
    BY <1>2 DEF RfRead, sweep, lines, base
  <2> QED BY <2>1, <2>2
<1>11. next.index = n + 1 /\ next.baselines = lines /\ next.peak = sensor.peak
  OBVIOUS
<1> HIDE DEF next
<1>12. Drifted(next)
  <2>1. (n + 1) \div 2 = n \div 2
    BY <1>1
  <2>2. n + 1 >= 2 => n >= 2
    BY <1>1
  <2>3. next.index >= 2 <=> n + 1 >= 2
    BY <1>11
  <2>4. DOMAIN next.baselines =
          (IF next.index >= 1 THEN {"2g4"} ELSE {}) \cup (IF next.index >= 2 THEN {"5g8"} ELSE {})
    BY <1>1, <1>5, <1>11, <2>2 DEF Drifted
  <2>5. next.index >= 2 => next.baselines["5g8"] \in (-595)..(-587)
    <3> SUFFICES ASSUME n + 1 >= 2 PROVE lines["5g8"] \in (-595)..(-587)
      BY <1>11
    <3>1. "5g8" \in DOMAIN sensor.baselines /\ sensor.baselines["5g8"] \in (-595)..(-587)
      BY <2>2 DEF Drifted
    <3> QED BY <1>5, <3>1
  <2>6. next.baselines["2g4"] \in (-496)..(-488)
    BY <1>6, <1>11 DEF base
  <2>7. next.peak = (next.index \div 2) - 550 /\ next.index \in Nat
    <3>1. sensor.peak = (n \div 2) - 550
      BY DEF Drifted
    <3>2. next.index \div 2 = n \div 2
      BY <1>11, <2>1
    <3>3. next.index \in Nat
      BY <1>1, <1>11
    <3> QED BY <1>11, <3>1, <3>2, <3>3
  <2> QED BY <2>4, <2>5, <2>6, <2>7 DEF Drifted
<1>13. ~jammed /\ shown \in 0..480
  BY <1>8, <1>9
<1> HIDE DEF read, jammed, shown
<1>14. Drifted(read.memory) /\ read.memory.index = n + 1 /\ ~read.jamming /\ read.score \in 0..480
  BY <1>10, <1>11, <1>12, <1>13
<1>15. ~(n >= 157 /\ n % 2 = 1)
  BY <1>1
<1> QED BY <1>14, <1>15 DEF read, DriftsOn

\* A read of the 5.8 GHz band: how far it is above its baseline depends on how
\* often it was read, give or take the noise.
LEMMA ReadsDriftingBand ==
  ASSUME NEW sensor, Drifted(sensor), sensor.index % 2 = 1,
         NEW synthetic \in 24..72, synthetic \div 6 \in 4..12
  PROVE  DriftsOn(sensor, RfRead(sensor, synthetic, FALSE))
<1> DEFINE n == sensor.index
           lift == synthetic \div 6
           sweep == Sweep(sensor, synthetic)
           lines == Baselines(sensor, sweep)
           base == lines["5g8"]
           up == n \div 2
<1>1. n \in Nat /\ lift \in 4..12 /\ n % 2 = 1 /\ n >= 1 /\ up \in Nat /\ n = 2 * up + 1
  BY DEF Drifted
<1>2. BandOf(sensor) = "5g8"
  BY DEF BandOf, Bands
<1>3. Drift(sensor) = up - 549
  <2>1. sensor.peak = up - 550
    BY DEF Drifted
  <2> HIDE DEF up
  <2> QED BY <1>1, <1>2, <2>1 DEF Drift
<1>4. sweep.low = up - 599 + lift /\ sweep.high = up - 599 + lift
  <2> HIDE DEF up, lift
  <2>1. sweep.low = Drift(sensor) - 50 + lift /\ sweep.high = Drift(sensor) - 50 + lift + 0
    BY <1>2 DEF Sweep, lift
  <2> HIDE DEF sweep
  <2> QED BY <1>1, <1>3, <2>1
<1> HIDE DEF sweep
<1>5. /\ DOMAIN lines = DOMAIN sensor.baselines \cup {"5g8"}
      /\ \A b \in DOMAIN lines :
           lines[b] = IF b \in DOMAIN sensor.baselines THEN sensor.baselines[b] ELSE sweep.low
  BY <1>2 DEF Baselines
<1> HIDE DEF lines, lift
<1>6. /\ base \in (-595)..(-587)
      /\ n = 1 => base = sweep.low
  <2>1. CASE n = 1
    <3>1. "5g8" \notin DOMAIN sensor.baselines
      BY <2>1 DEF Drifted
    <3>2. base = sweep.low
      BY <1>5, <3>1
    <3>3. up = 0
      BY <1>1, <2>1
    <3> HIDE DEF up, base
    <3> QED BY <1>1, <1>4, <3>2, <3>3
  <2>2. CASE n >= 2
    <3>1. "5g8" \in DOMAIN sensor.baselines /\ sensor.baselines["5g8"] \in (-595)..(-587)
      BY <2>2 DEF Drifted
    <3> QED BY <1>5, <2>2, <3>1
  <2> HIDE DEF n
  <2> QED BY <1>1, <2>1, <2>2
<1> DEFINE above == sweep.high - base
<1>7. above \in (up - 8)..(up + 8)
  <2> HIDE DEF base, n, up
  <2>1. CASE n = 1
    BY <1>1, <1>4, <1>6, <2>1
  <2>2. CASE n # 1
    BY <1>1, <1>4, <1>6, <2>2
  <2> QED BY <2>1, <2>2
<1>8. LooksJammed(sweep, base) <=> above > 48
  <2> HIDE DEF base, n, up
  <2> QED BY <1>1, <1>4, <1>6 DEF LooksJammed
<1> DEFINE jammed == LooksJammed(sweep, base)
           score == Clamp(10 * above)
           shown == IF jammed THEN JammedScore(score, synthetic) ELSE score
           next == [index |-> n + 1, baselines |-> lines, peak |-> up - 549]
           read == RfRead(sensor, synthetic, FALSE)
<1>9. /\ read.memory = next /\ read.score = shown
      /\ read.jamming <=> jammed
  <2>1. read.memory = next /\ read.score = shown
    BY <1>2, <1>3 DEF RfRead, sweep, lines
  <2>2. read.jamming <=> jammed
    BY <1>2 DEF RfRead, sweep, lines
  <2> QED BY <2>1, <2>2
<1>10. next.index = n + 1 /\ next.baselines = lines /\ next.peak = up - 549
  OBVIOUS
<1> HIDE DEF next, read, jammed, score, shown, above
<1>11. n <= 82 => ~jammed /\ shown \in 0..480
  <2> SUFFICES ASSUME n <= 82 PROVE ~jammed /\ shown \in 0..480
    OBVIOUS
  <2>1. above \in -8..48
    <3> HIDE DEF n, up
    <3> QED BY <1>1, <1>7
  <2>2. score \in 0..480
    BY <2>1 DEF score, Clamp, Larger, Smaller, Full
  <2>3. ~jammed
    BY <1>8, <2>1 DEF jammed, above
  <2> QED BY <2>2, <2>3 DEF shown
<1>12. n >= 157 => jammed /\ shown >= 700
  <2> SUFFICES ASSUME n >= 157 PROVE jammed /\ shown >= 700
    OBVIOUS
  <2>1. above \in Int /\ above >= 70
    <3> HIDE DEF n, up
    <3> QED BY <1>1, <1>7
  <2>2. score >= 700 /\ score \in Int
    BY <2>1 DEF score, Clamp, Larger, Smaller, Full
  <2>3. jammed
    BY <1>8, <2>1 DEF jammed, above
  <2>4. JammedScore(score, synthetic) >= 700
    <3>1. Clamp(synthetic + 600) \in Int
      BY DEF Clamp, Larger, Smaller, Full
    <3> QED BY <2>2, <3>1 DEF JammedScore, Larger
  <2> QED BY <2>3, <2>4 DEF shown
<1>13. Drifted(next)
  <2>1. (n + 1) \div 2 = up + 1 /\ n + 1 \in Nat /\ n + 1 >= 2
    BY <1>1
  <2>2. next.peak = (next.index \div 2) - 550
    <3>1. next.index \div 2 = up + 1
      BY <1>10, <2>1
    <3> HIDE DEF up
    <3> QED BY <1>1, <1>10, <3>1
  <2>3. DOMAIN next.baselines = {"2g4"} \cup {"5g8"}
    BY <1>1, <1>5, <1>10 DEF Drifted
  <2>4. next.baselines["5g8"] \in (-595)..(-587)
    BY <1>6, <1>10 DEF base
  <2>5. next.baselines["2g4"] \in (-496)..(-488)
    <3>1. "2g4" \in DOMAIN sensor.baselines /\ sensor.baselines["2g4"] \in (-496)..(-488)
      BY <1>1 DEF Drifted
    <3> QED BY <1>5, <1>10, <3>1
  <2>6. next.index \in Nat /\ next.index >= 1 /\ next.index >= 2
    BY <1>10, <2>1
  <2> QED BY <2>2, <2>3, <2>4, <2>5, <2>6 DEF Drifted
<1>14. /\ Drifted(read.memory) /\ read.memory.index = n + 1
       /\ n <= 82 => ~read.jamming /\ read.score \in 0..480
       /\ n >= 157 => read.jamming /\ read.score >= 700
  BY <1>9, <1>10, <1>11, <1>12, <1>13
<1> QED BY <1>14 DEF read, DriftsOn

\* Little evidence and no alarm is CLEAR.
LEMMA LittleIsClear ==
  ASSUME NEW e, Typed(e), ~e.jamming, ~e.lowVisibility, ~e.whisper, ~e.anomaly,
         e.pir <= 108, e.acoustic <= 156, e.rf <= 480, e.visual <= 120, e.passive = 0,
         \A t \in DOMAIN Thresholds : LoudestQuiet < Full * Thresholds[t]
  PROVE  ScoredLevel(e) = "CLEAR"
<1>1. \A c \in Channels : e[c] \in Nat /\ Weights[c] \in Nat
  <2>1. \A v \in 0..Full : v \in Nat
    BY DEF Full
  <2>2. \A c \in Channels : e[c] \in 0..Full
    BY DEF Typed
  <2> QED BY <2>1, <2>2, WeightsAssumption
<1>2. /\ e.pir \in Nat /\ e.acoustic \in Nat /\ e.rf \in Nat /\ e.visual \in Nat
      /\ Weights.pir \in Nat /\ Weights.acoustic \in Nat /\ Weights.rf \in Nat
      /\ Weights.visual \in Nat /\ Weights.passive \in Nat
  BY <1>1 DEF Channels
<1>3. /\ Weights.pir * e.pir <= Weights.pir * 108
      /\ Weights.acoustic * e.acoustic <= Weights.acoustic * 156
      /\ Weights.rf * e.rf <= Weights.rf * 480
      /\ Weights.visual * e.visual <= Weights.visual * 120
  <2>1. 108 \in Nat /\ 156 \in Nat /\ 480 \in Nat /\ 120 \in Nat
    OBVIOUS
  <2>2. \A w, x, y \in Nat : x <= y => w * x <= w * y
    BY ProductGrows
  <2> QED BY <1>2, <2>1, <2>2
<1>4. /\ Weights.pir * e.pir \in Nat /\ Weights.acoustic * e.acoustic \in Nat
      /\ Weights.rf * e.rf \in Nat /\ Weights.visual * e.visual \in Nat
      /\ Weights.passive * e.passive = 0
  BY <1>2
<1>5. Weighted(e) \in Nat /\ LoudestQuiet \in Nat /\ Weighted(e) <= LoudestQuiet
  <2>1. LoudestQuiet = Weights.pir * 108 + Weights.acoustic * 156 + Weights.rf * 480
                         + Weights.visual * 120
    BY <1>2 DEF LoudestQuiet
  <2>2. Weighted(e) = Weights.pir * e.pir + Weights.acoustic * e.acoustic + Weights.rf * e.rf
                        + Weights.visual * e.visual
    BY <1>4 DEF Weighted
  <2> QED BY <1>2, <1>3, <1>4, <2>1, <2>2
<1>6. FusedScore(e) \in Nat /\ FusedScore(e) <= 100 * Weighted(e)
  <2>1. FusedScore(e) = Smaller(10000 * Full, 100 * Weighted(e))
    BY DEF FusedScore, Damped
  <2> QED BY <1>5, <2>1 DEF Smaller, Full
<1>7. \A t \in {"yellow", "orange", "red"} : ~Reaches(e, t)
  <2> SUFFICES ASSUME NEW t \in {"yellow", "orange", "red"} PROVE ~Reaches(e, t)
    OBVIOUS
  <2>1. Thresholds[t] \in Nat /\ LoudestQuiet < Full * Thresholds[t]
    BY ThresholdsAssumption
  <2>2. PICK bound \in Nat : bound = Full * Thresholds[t] /\ 100 * Full * Thresholds[t] = 100 * bound
    BY <2>1 DEF Full
  <2> QED BY <1>5, <1>6, <2>1, <2>2 DEF Reaches
<1>8. Rank(ScoredLevel(e)) = 0
  BY <1>7, RankOfScore
<1> QED BY <1>8, ScoredIsLevel DEF Rank, Levels

\* A jammed band of that score is HOLD.
LEMMA JamIsHold ==
  ASSUME NEW e, Typed(e), e.jamming, e.rf >= 700, Thresholds.orange <= 55
  PROVE  ScoredLevel(e) = "HOLD"
<1>1. e.rf \in Nat /\ e.rf <= Full /\ Thresholds.orange \in Nat
  <2>1. \A v \in 0..Full : v \in Nat /\ v <= Full
    BY DEF Full
  <2>2. e.rf \in 0..Full
    BY DEF Typed, Channels
  <2> QED BY <2>1, <2>2, ThresholdsAssumption
<1>2. Weighted(e) \in Nat
  <2>1. \A c \in Channels : e[c] >= e[c]
    BY DEF Typed, Full
  <2>2. AtLeast(e, e)
    BY <2>1 DEF AtLeast
  <2> QED BY <2>2, WeightedGrows
<1>3. Damped(e) \in Nat
  BY <1>2 DEF Damped
<1>4. FusedScore(e) = Smaller(10000 * Full, Larger(Damped(e), 9500 * e.rf))
  BY DEF FusedScore
<1>5. FusedScore(e) \in Nat /\ FusedScore(e) >= 6650000
  BY <1>1, <1>3, <1>4 DEF Smaller, Larger, Full
<1>6. Reaches(e, "orange")
  <2>1. 100 * Full * Thresholds.orange \in Nat /\ 100 * Full * Thresholds.orange <= 6600000
    BY <1>1 DEF Full
  <2> QED BY <1>5, <2>1 DEF Reaches
<1>7. Rank(ScoredLevel(e)) = 4
  BY <1>6, RankOfScore
<1> QED BY <1>7, ScoredIsLevel DEF Rank, Levels

\* The guardian publishes CLEAR and HOLD as they are, in every state.
LEMMA PlainLevels ==
  ASSUME NEW ts, NEW raw \in {"CLEAR", "HOLD"}, NEW tamper, Process(ts, raw, tamper)
  PROVE  frame'.level = raw
<1>1. Effective(ts, raw) = raw
  BY DEF Effective, LowTier
<1>2. ~Unconfirmed(ts, "HOLD")
  BY DEF Unconfirmed
<1>3. CASE Suppress(ts, raw, tamper)
  BY <1>3 DEF Suppress, Publish
<1>4. CASE Confirm(ts, raw, tamper)
  BY <1>1, <1>2, <1>4 DEF Confirm, Critical, Threat
<1>5. CASE Alert(ts, raw, tamper) \/ Watch(ts, raw, tamper) \/ StandDown(ts, raw, tamper)
  BY <1>1, <1>5 DEF Alert, Watch, StandDown, Publish
<1> QED BY <1>3, <1>4, <1>5 DEF Process

\* The radio of a node without a scenario and with little noise.
StillDrifts == config.scenario = "benign" /\ config.noise \subseteq -1..1 => Drifted(rf)

\* A sample of it, and what becomes of it when nothing else is there.
LEMMA WatchingDrifts ==
  ASSUME Evidenced, Remembered, StillDrifts, Watching
  PROVE  StillDrifts' /\ QuietUntilDrift'
<1> DEFINE ts == IF seq = 0 THEN clock ELSE clock + config.step
           n == rf.index
<1>1. /\ config' = config /\ Evidenced' /\ n \in Nat
      /\ Process(ts, Raw(ScoredLevel(event'), event'.tamper), event'.tamper)
  <2>1. Evidenced'
    BY WatchNextTypes DEF WatchNext
  <2> QED BY <2>1 DEF Watching, Evidenced, RfTyped
<1>2. PICK noise \in config.noise : Sample(ts, SimChannels(config.scenario, noise))
  BY DEF Watching
<1> HIDE DEF ts
<1> SUFFICES ASSUME config.scenario = "benign", config.noise \subseteq -1..1
             PROVE  Drifted(rf') /\ QuietUntilDrift'
  <2>1. StillDrifts' <=>
          (config.scenario = "benign" /\ config.noise \subseteq -1..1 => Drifted(rf'))
    BY <1>1 DEF StillDrifts, Drifted
  <2>2. ~(config.scenario = "benign" /\ config.noise \subseteq -1..1) => QuietUntilDrift'
    BY <1>1 DEF QuietUntilDrift, Undisturbed
  <2> QED BY <2>1, <2>2
<1> DEFINE sim == SimChannels("benign", noise)
           read == RfRead(rf, sim.rf, FALSE)
<1>3. /\ sim.pir \in 0..108 /\ sim.acoustic \in 0..156 /\ sim.visual \in 0..120
      /\ sim.rf \in 24..72 /\ sim.rf \div 6 \in 4..12
      /\ ~sim.jamming /\ ~sim.lowVisibility
  BY LittleNoise
<1>4. Sample(ts, sim)
  BY <1>2
<1> HIDE DEF sim
<1>5. RfRead(rf, sim.rf, sim.jamming) = read
  BY <1>3 DEF RfRead
<1>6. /\ Drifted(read.memory) /\ read.memory.index = n + 1
      /\ n <= 82 => ~read.jamming /\ read.score \in 0..480
      /\ n >= 157 /\ n % 2 = 1 => read.jamming /\ read.score >= 700
  <2>1. Drifted(rf)
    BY DEF StillDrifts
  <2>2. n % 2 = 0 \/ n % 2 = 1
    BY <1>1
  <2>3. DriftsOn(rf, read)
    BY <1>3, <2>1, <2>2, ReadsFlatBand, ReadsDriftingBand
  <2> HIDE DEF read
  <2> QED BY <2>3 DEF DriftsOn
<1> HIDE DEF read
<1>7. /\ rf' = read.memory /\ event'.rf = read.score /\ event'.jamming = read.jamming
      /\ event'.lowVisibility = sim.lowVisibility
  BY <1>4, <1>5 DEF Sample
<1>8. Drifted(rf')
  BY <1>6, <1>7
<1>9. ASSUME config.devices = {}, ~config.psutil, ~event'.whisper
      PROVE  /\ event'.pir = sim.pir /\ event'.acoustic = sim.acoustic
             /\ event'.visual = sim.visual /\ event'.passive = 0
             /\ ~event'.anomaly /\ ~event'.tamper
  <2>1. \A device : ~Has(device)
    BY <1>9 DEF Has
  <2>2. event'.pir = sim.pir /\ event'.acoustic = sim.acoustic /\ event'.visual = sim.visual
    BY <1>4, <2>1 DEF Sample, Heard, Seen
  <2>3. ghost' = GhostStart /\ event'.anomaly = ghost'.verdict
    BY <1>4, <1>9 DEF Sample
  <2>4. ~event'.anomaly
    BY <2>3 DEF GhostStart
  <2>5. ~event'.tamper
    BY <1>4, <2>1 DEF Sample
  <2>6. event'.passive = Smaller(Full, (IF event'.anomaly THEN 240 ELSE 0)
                                         + (IF event'.whisper THEN 240 ELSE 0))
    BY <1>4 DEF Sample
  <2>7. event'.passive = 0
    BY <1>9, <2>4, <2>6 DEF Smaller, Full
  <2> QED BY <2>2, <2>4, <2>5, <2>7
<1>10. Typed(event')
  <2>1. Typed(event)'
    BY <1>1 DEF Evidenced
  <2> QED BY <2>1 DEF Typed
<1>11. ASSUME config.devices = {}, ~config.psutil, ~event'.whisper, n <= 82,
              \A t \in DOMAIN Thresholds : LoudestQuiet < Full * Thresholds[t]
       PROVE  frame'.level = "CLEAR"
  <2>1. ScoredLevel(event') = "CLEAR"
    <3>1. ~event'.jamming /\ ~event'.lowVisibility
      BY <1>3, <1>6, <1>7, <1>11
    <3>2. event'.pir <= 108 /\ event'.acoustic <= 156 /\ event'.rf <= 480 /\ event'.visual <= 120
      BY <1>3, <1>6, <1>7, <1>9, <1>11
    <3>3. event'.passive = 0 /\ ~event'.anomaly
      BY <1>9, <1>11
    <3> QED BY <1>10, <1>11, <3>1, <3>2, <3>3, LittleIsClear
  <2>2. Raw(ScoredLevel(event'), event'.tamper) = "CLEAR"
    BY <1>9, <1>11, <2>1 DEF Raw
  <2> QED BY <1>1, <2>2, PlainLevels
<1>12. ASSUME config.devices = {}, ~config.psutil, ~event'.whisper,
              n >= 157, n % 2 = 1, Thresholds.orange <= 55
       PROVE  frame'.level = "HOLD"
  <2>1. event'.jamming /\ event'.rf >= 700
    BY <1>6, <1>7, <1>12
  <2>2. ScoredLevel(event') = "HOLD"
    BY <1>10, <1>12, <2>1, JamIsHold
  <2>3. Raw(ScoredLevel(event'), event'.tamper) = "HOLD"
    BY <2>2 DEF Raw
  <2> QED BY <1>1, <2>3, PlainLevels
<1>13. rf'.index = n + 1 /\ (rf'.index <= 83 => n <= 82) /\ (rf'.index >= 158 => n >= 157)
  BY <1>1, <1>6, <1>7
<1>14. BandOf([rf' EXCEPT !.index = @ - 1]) = "5g8" => n % 2 = 1
  <2>1. [rf' EXCEPT !.index = @ - 1].index = n
    <3>1. "index" \in DOMAIN rf'
      BY <1>7 DEF read, RfRead
    <3> QED BY <1>1, <1>13, <3>1
  <2>2. n % 2 \in {0, 1}
    BY <1>1
  <2> HIDE DEF n
  <2>3. BandOf([rf' EXCEPT !.index = @ - 1]) = Bands[(n % 2) + 1]
    BY <2>1 DEF BandOf, Bands
  <2> QED BY <2>2, <2>3 DEF Bands
<1> HIDE DEF n
<1>15. QuietUntilDrift'
  BY <1>1, <1>11, <1>12, <1>13, <1>14 DEF QuietUntilDrift, Undisturbed, LoudestQuiet
<1> QED BY <1>8, <1>15

LEMMA DriftNext ==
  Evidenced /\ Remembered /\ StillDrifts /\ QuietUntilDrift /\ [WatchNext]_watchVars
    => StillDrifts' /\ QuietUntilDrift'
<1> SUFFICES ASSUME Evidenced, Remembered, StillDrifts, QuietUntilDrift, [WatchNext]_watchVars
             PROVE  StillDrifts' /\ QuietUntilDrift'
  OBVIOUS
<1>1. CASE Watching
  BY <1>1, WatchingDrifts
<1>2. CASE SceneChanges \/ Note \/ UNCHANGED watchVars
  <2>1. UNCHANGED <<config, rf, frame, event>>
    BY <1>2 DEF SceneChanges, Note, watchVars, vars, array
  <2> QED BY <2>1 DEF StillDrifts, Drifted, QuietUntilDrift, Undisturbed, LoudestQuiet
<1>3. CASE Reboot
  <2>1. rf' = RfStart /\ frame'.level = "CLEAR"
    BY <1>3 DEF Reboot, Restart, NoFrame
  <2>2. Drifted(rf') /\ rf'.index = 0
    BY <2>1, DriftStart
  <2> QED BY <2>1, <2>2 DEF StillDrifts, Drifted, QuietUntilDrift
<1> QED BY <1>1, <1>2, <1>3 DEF WatchNext

(***************************************************************************)
(* QuietUntilDrift, for every guardian, duty cycle and sampling, and all     *)
(* weights and thresholds above the noise: the level of the synthetic band   *)
(* rises with the reads and its baseline stays, so that 83 reads are CLEAR   *)
(* and from the 158th on each read of the band is HOLD.                     *)
(***************************************************************************)
THEOREM QuietDriftsToHold == WatchSpec => []QuietUntilDrift
<1>1. WatchInit => StillDrifts /\ QuietUntilDrift
  <2> SUFFICES ASSUME WatchInit PROVE StillDrifts /\ QuietUntilDrift
    OBVIOUS
  <2>1. rf = RfStart /\ frame.level = "CLEAR"
    BY DEF WatchInit, ArrayStart, Init, NoFrame
  <2>2. Drifted(rf) /\ rf.index = 0
    BY <2>1, DriftStart
  <2> QED BY <2>1, <2>2 DEF StillDrifts, QuietUntilDrift
<1> QED BY <1>1, DriftNext, WatchRemembers, PTL DEF WatchSpec

------------------------------------------------------------------------------
(***************************************************************************)
(* The scan of a file: what is proved of its strongest line is proved of     *)
(* every number of lines, by a least number for which it would fail.        *)
(***************************************************************************)

\* A set of numbers has a least one: induction, without a predicate to instantiate.
LEMMA LeastNumber ==
  ASSUME NEW T \in SUBSET Nat, T # {}
  PROVE  \E x \in T : \A y \in T : x <= y
<1> DEFINE R == OpToRel(<, Nat)
<1>1. IsWellFoundedOn(R, Nat)
  BY NatLessThanWellFounded
<1>2. \A x, y \in Nat : x < y => <<x, y>> \in R
  BY DEF OpToRel
<1> HIDE DEF R
<1>3. PICK x \in T : \A y \in T : ~ (<<y, x>> \in R)
  BY <1>1, WFMin
<1>4. \A y \in T : x \in Nat /\ y \in Nat /\ ~(y < x)
  BY <1>2, <1>3
<1> QED BY <1>3, <1>4

\* The strongest with one line more.
WithLine(line, before) == IF Stronger(Analyse(line), before) THEN Analyse(line) ELSE before

\* f is the recursive function of scan_texts on the first k lines.
Traces(f, lines, k) ==
  f = [n \in 0..k |-> IF n = 0 THEN NothingFound ELSE WithLine(lines[n], f[n - 1])]

\* The recursive function exists, for every number of lines: a least number for
\* which there is none would have one.
LEMMA TraceExists == ASSUME NEW lines, NEW k \in Nat PROVE \E f : Traces(f, lines, k)
<1> DEFINE T == {m \in Nat : ~\E f : Traces(f, lines, m)}
<1> SUFFICES ASSUME T # {} PROVE FALSE
  OBVIOUS
<1>1. PICK m \in T : \A y \in T : m <= y
  <2>1. T \in SUBSET Nat
    OBVIOUS
  <2> HIDE DEF T
  <2> QED BY <2>1, LeastNumber
<1>2. m \in Nat /\ ~\E f : Traces(f, lines, m)
  OBVIOUS
<1>3. CASE m = 0
  <2> DEFINE f == [n \in 0..0 |-> NothingFound]
  <2>1. f = [n \in 0..0 |-> IF n = 0 THEN NothingFound ELSE WithLine(lines[n], f[n - 1])]
    OBVIOUS
  <2> QED BY <1>2, <1>3, <2>1 DEF Traces
<1>4. CASE m # 0
  <2>1. m - 1 \in Nat /\ ~(m <= m - 1)
    BY <1>2, <1>4
  <2>2. m - 1 \notin T
    BY <1>1, <2>1
  <2>3. PICK g : Traces(g, lines, m - 1)
    BY <2>1, <2>2
  <2> DEFINE f == [n \in 0..m |-> IF n = m THEN WithLine(lines[m], g[m - 1]) ELSE g[n]]
  <2>4. ASSUME NEW n \in 0..m
        PROVE  f[n] = IF n = 0 THEN NothingFound ELSE WithLine(lines[n], f[n - 1])
    <3>1. CASE n = m
      <4>1. n - 1 \in 0..m /\ n - 1 # m /\ n # 0
        BY <1>2, <1>4, <3>1
      <4> QED BY <3>1, <4>1
    <3>2. CASE n # m
      <4>1. n \in 0..(m - 1) /\ (n # 0 => n - 1 \in 0..(m - 1) /\ n - 1 \in 0..m /\ n - 1 # m)
        BY <1>2, <3>2
      <4>2. f[n] = g[n] /\ (n # 0 => f[n - 1] = g[n - 1])
        BY <3>2, <4>1
      <4>3. g[n] = IF n = 0 THEN NothingFound ELSE WithLine(lines[n], g[n - 1])
        BY <2>3, <4>1 DEF Traces
      <4> QED BY <4>2, <4>3
    <3> QED BY <3>1, <3>2
  <2>5. f = [n \in 0..m |-> IF n = 0 THEN NothingFound ELSE WithLine(lines[n], f[n - 1])]
    BY <2>4
  <2> QED BY <1>2, <2>5 DEF Traces
<1> QED BY <1>3, <1>4

\* So its equations hold.
LEMMA StrongestSteps ==
  ASSUME NEW lines, Len(lines) \in Nat
  PROVE  /\ Strongest(lines)[0] = NothingFound
         /\ \A n \in 1..Len(lines) :
              Strongest(lines)[n] = WithLine(lines[n], Strongest(lines)[n - 1])
<1> DEFINE s == Strongest(lines)
           l == Len(lines)
<1>1. s = CHOOSE f : Traces(f, lines, l)
  BY DEF Strongest, Traces, WithLine
<1>2. \E f : Traces(f, lines, l)
  BY TraceExists
<1>3. Traces(s, lines, l)
  BY <1>1, <1>2
<1> HIDE DEF s, l
<1>4. s = [n \in 0..l |-> IF n = 0 THEN NothingFound ELSE WithLine(lines[n], s[n - 1])]
  BY <1>3 DEF Traces
<1>5. l \in Nat
  BY DEF l
<1>6. s[0] = NothingFound
  BY <1>4, <1>5
<1>7. \A n \in 1..l : s[n] = WithLine(lines[n], s[n - 1])
  BY <1>4, <1>5
<1> QED BY <1>6, <1>7 DEF s, l

Lines == [long : BOOLEAN, encoded : BOOLEAN, entropy : Nat]

\* What a result tells of the first n lines.
Tells(result, lines, n) ==
  /\ result.suspicious \in BOOLEAN /\ result.entropy \in Nat
  /\ result.suspicious =>
       \E i \in 1..n : Suspicious(lines[i]) /\ lines[i].entropy = result.entropy
  /\ ~result.suspicious /\ (\E i \in 1..n : Suspicious(lines[i])) =>
       \E i, j \in 1..n : Suspicious(lines[i]) /\ i < j /\ lines[i].entropy < lines[j].entropy

\* One line more: a suspicious result gives way to a higher entropy only.
LEMMA TellsNext ==
  ASSUME NEW lines \in Seq(Lines), NEW n \in 1..Len(lines), NEW before,
         Tells(before, lines, n - 1)
  PROVE  Tells(WithLine(lines[n], before), lines, n)
<1> DEFINE line == lines[n]
           new == Analyse(line)
           after == WithLine(line, before)
<1>1. line \in Lines /\ n \in Nat
  BY ElementOfSeq, LenProperties
<1>2. line.long \in BOOLEAN /\ line.encoded \in BOOLEAN /\ line.entropy \in Nat
  BY <1>1 DEF Lines
<1>3. /\ new.suspicious <=> Suspicious(line)
      /\ new.suspicious \in BOOLEAN /\ new.entropy \in Nat
      /\ new.suspicious => new.entropy = line.entropy
      /\ new.entropy <= line.entropy
  <2>1. new.suspicious <=> Suspicious(line)
    BY DEF Analyse
  <2>2. new.entropy = IF line.long THEN line.entropy ELSE 0
    BY DEF Analyse
  <2>3. Suspicious(line) => line.long
    BY DEF Suspicious
  <2>4. new.suspicious \in BOOLEAN
    BY DEF Analyse, Suspicious
  <2> HIDE DEF new, line
  <2> QED BY <1>2, <2>1, <2>2, <2>3, <2>4
<1> HIDE DEF new
<1>4. /\ before.suspicious \in BOOLEAN /\ before.entropy \in Nat
      /\ before.suspicious =>
           \E i \in 1..(n - 1) : Suspicious(lines[i]) /\ lines[i].entropy = before.entropy
      /\ ~before.suspicious /\ (\E i \in 1..(n - 1) : Suspicious(lines[i])) =>
           \E i, j \in 1..(n - 1) :
             Suspicious(lines[i]) /\ i < j /\ lines[i].entropy < lines[j].entropy
  BY DEF Tells
<1>5. n \in 1..n /\ \A i \in 1..(n - 1) : i \in 1..n /\ i < n
  BY <1>1
<1>6. CASE Stronger(new, before)
  <2>1. after = new
    BY <1>6 DEF WithLine, new
  <2>2. new.suspicious =>
          \E i \in 1..n : Suspicious(lines[i]) /\ lines[i].entropy = new.entropy
    BY <1>3, <1>5
  <2>3. ASSUME ~new.suspicious, \E i \in 1..n : Suspicious(lines[i])
        PROVE  \E i, j \in 1..n : Suspicious(lines[i]) /\ i < j /\ lines[i].entropy < lines[j].entropy
    <3>1. \E i \in 1..(n - 1) : Suspicious(lines[i])
      <4>1. PICK i \in 1..n : Suspicious(lines[i])
        BY <2>3
      <4>2. i # n
        BY <1>3, <2>3, <4>1
      <4>3. i \in 1..(n - 1)
        BY <1>1, <4>2
      <4> QED BY <4>1, <4>3
    <3>2. CASE before.suspicious
      <4>1. PICK i \in 1..(n - 1) : Suspicious(lines[i]) /\ lines[i].entropy = before.entropy
        BY <1>4, <3>2
      <4>2. new.entropy > before.entropy
        BY <1>6, <2>3 DEF Stronger
      <4>3. lines[i].entropy < lines[n].entropy
        BY <1>2, <1>3, <1>4, <4>1, <4>2
      <4> QED BY <1>5, <4>1, <4>3
    <3>3. CASE ~before.suspicious
      BY <1>4, <1>5, <3>1, <3>3
    <3> QED BY <3>2, <3>3
  <2> QED BY <1>3, <2>1, <2>2, <2>3 DEF Tells
<1>7. CASE ~Stronger(new, before)
  <2>1. after = before
    BY <1>7 DEF WithLine, new
  <2>2. before.suspicious =>
          \E i \in 1..n : Suspicious(lines[i]) /\ lines[i].entropy = before.entropy
    BY <1>4, <1>5
  <2>3. ASSUME ~before.suspicious, \E i \in 1..n : Suspicious(lines[i])
        PROVE  \E i, j \in 1..n : Suspicious(lines[i]) /\ i < j /\ lines[i].entropy < lines[j].entropy
    <3>1. ~new.suspicious
      BY <1>7, <2>3 DEF Stronger
    <3>2. PICK i \in 1..n : Suspicious(lines[i])
      BY <2>3
    <3>3. i # n
      BY <1>3, <3>1, <3>2
    <3>4. i \in 1..(n - 1)
      BY <1>1, <3>3
    <3> QED BY <1>4, <1>5, <2>3, <3>2, <3>4
  <2> QED BY <1>4, <2>1, <2>2, <2>3 DEF Tells
<1> QED BY <1>6, <1>7

\* The strongest of any number of lines.
LEMMA StrongestTells ==
  ASSUME NEW lines \in Seq(Lines)
  PROVE  Tells(Strongest(lines)[Len(lines)], lines, Len(lines))
<1> DEFINE s == Strongest(lines)
           l == Len(lines)
           T == {n \in 0..l : ~Tells(s[n], lines, n)}
<1>1. l \in Nat
  BY LenProperties
<1>2. T = {}
  <2> SUFFICES ASSUME T # {} PROVE FALSE
    OBVIOUS
  <2>1. PICK n \in T : \A y \in T : n <= y
    <3>1. T \in SUBSET Nat
      BY <1>1
    <3> HIDE DEF T
    <3> QED BY <3>1, LeastNumber
  <2>2. n \in 0..l /\ ~Tells(s[n], lines, n)
    OBVIOUS
  <2>3. CASE n = 0
    <3>1. s[0] = NothingFound
      BY <1>1, StrongestSteps
    <3>2. Tells(NothingFound, lines, 0)
      BY DEF Tells, NothingFound
    <3> QED BY <2>2, <2>3, <3>1, <3>2
  <2>4. CASE n # 0
    <3>1. n \in 1..l /\ n - 1 \in 0..l /\ ~(n <= n - 1)
      BY <1>1, <2>2, <2>4
    <3>2. Tells(s[n - 1], lines, n - 1)
      BY <2>1, <3>1
    <3>3. s[n] = WithLine(lines[n], s[n - 1])
      BY <1>1, <3>1, StrongestSteps
    <3> QED BY <2>2, <3>1, <3>2, <3>3, TellsNext
  <2> QED BY <2>3, <2>4
<1>3. l \in 0..l
  BY <1>1
<1> HIDE DEF s, l
<1> QED BY <1>2, <1>3 DEF s, l

\* Every line of a scanned file, the node's own and the others', is such a line.
LEMMA LinesOfLogs ==
  ASSUME Remembered, NEW file \in DOMAIN logs
  PROVE  logs[file] \in Seq(Lines) /\ Newest(logs[file], LogLines) = logs[file]
<1> DEFINE lines == logs[file]
           l == Len(lines)
<1>1. lines \in Seq(Texts) /\ l <= LogLines /\ l \in Nat
  BY LenProperties DEF Remembered
<1>2. Texts \subseteq Lines
  <2>1. \A level \in Levels : OwnText(level) \in Lines
    BY DEF OwnText, Lines
  <2>2. Notes \subseteq Lines
    BY NoteAssumption DEF Lines
  <2> QED BY <2>1, <2>2 DEF Texts
<1>3. lines \in Seq(Lines)
  <2>1. \A i \in 1..l : lines[i] \in Lines
    BY <1>1, <1>2, ElementOfSeq
  <2> QED BY <1>1, <2>1, SeqDef, LenProperties
<1>4. Newest(lines, LogLines) = lines
  <2>1. Larger(1, l - LogLines + 1) = 1
    BY <1>1, DetectorAssumption DEF Larger
  <2>2. Newest(lines, LogLines) = SubSeq(lines, 1, Len(lines))
    BY <2>1 DEF Newest
  <2> QED BY <1>1, <2>2, SubSeqFull
<1> QED BY <1>3, <1>4

(***************************************************************************)
(* WhisperMissesOnlyMasked, for every content of the two files and every     *)
(* number of lines a scan reads: a flag is about one of the lines, and a      *)
(* suspicious line is missed only behind a later one of a higher entropy.   *)
(***************************************************************************)
THEOREM WhisperIsAboutLines == WatchSpec => []WhisperMissesOnlyMasked
<1>1. ASSUME Remembered PROVE WhisperMissesOnlyMasked
  <2> SUFFICES ASSUME NEW file \in DOMAIN logs
               PROVE  LET lines == logs[file]
                          found == {i \in DOMAIN lines : Suspicious(lines[i])}
                      IN /\ Flagged(file) => found # {}
                         /\ found # {} /\ ~Flagged(file) =>
                              \E i \in found, j \in DOMAIN lines :
                                j > i /\ lines[j].entropy > lines[i].entropy
    BY DEF WhisperMissesOnlyMasked
  <2> DEFINE lines == logs[file]
             n == Len(lines)
             result == Strongest(lines)[n]
  <2>1. lines \in Seq(Lines) /\ Newest(lines, LogLines) = lines
    BY <1>1, LinesOfLogs
  <2>2. Flagged(file) <=> result.suspicious
    BY <2>1 DEF Flagged, Scan
  <2>3. Tells(result, lines, n)
    BY <2>1, StrongestTells
  <2>4. DOMAIN lines = 1..n
    BY <2>1, LenProperties
  <2>5. n \in Nat /\ \A i \in 1..n : lines[i].entropy \in Nat
    <3>1. n \in Nat /\ \A i \in 1..n : lines[i] \in Lines
      BY <2>1, ElementOfSeq, LenProperties
    <3>2. \A line \in Lines : line.entropy \in Nat
      BY DEF Lines
    <3> QED BY <3>1, <3>2
  <2> HIDE DEF lines, n, result
  <2>6. /\ result.suspicious => \E i \in 1..n : Suspicious(lines[i])
        /\ ~result.suspicious /\ (\E i \in 1..n : Suspicious(lines[i])) =>
             \E i, j \in 1..n :
               Suspicious(lines[i]) /\ i < j /\ lines[i].entropy < lines[j].entropy
    BY <2>3 DEF Tells
  <2>7. ASSUME Flagged(file) PROVE {i \in DOMAIN lines : Suspicious(lines[i])} # {}
    BY <2>2, <2>4, <2>6, <2>7
  <2>8. ASSUME {i \in DOMAIN lines : Suspicious(lines[i])} # {}, ~Flagged(file)
        PROVE  \E i \in {k \in DOMAIN lines : Suspicious(lines[k])}, j \in DOMAIN lines :
                 j > i /\ lines[j].entropy > lines[i].entropy
    <3>1. PICK i \in 1..n, j \in 1..n :
            Suspicious(lines[i]) /\ i < j /\ lines[i].entropy < lines[j].entropy
      BY <2>2, <2>4, <2>6, <2>8
    <3>2. j > i /\ lines[j].entropy > lines[i].entropy
      BY <2>5, <3>1
    <3> QED BY <2>4, <3>1, <3>2
  <2> QED BY <2>7, <2>8 DEF lines
<1> QED BY <1>1, WatchRemembers, PTL

------------------------------------------------------------------------------
(***************************************************************************)
(* The node on watch is a guardian: what the sensors make of the scene is    *)
(* one of the levels and clock steps that Guardian.tla lets come in, so the  *)
(* theorems about the guardian alone are about the node.                    *)
(***************************************************************************)

\* A sample with what the loop makes of it is one sensor event.
LEMMA WatchingIsAnEvent ==
  ASSUME 0 \in ClockSteps, \A c \in Configs : c.step \in ClockSteps,
         Evidenced, Remembered, Watching
  PROVE  SensorEvent
<1> DEFINE step == IF seq = 0 THEN 0 ELSE config.step
           ts == IF seq = 0 THEN clock ELSE clock + config.step
           tamper == event'.tamper
           scored == ScoredLevel(event')
<1>1. /\ seq < MaxSamples[config] /\ ts \in Times /\ clock' = ts
      /\ Process(ts, Raw(scored, tamper), tamper)
      /\ UNCHANGED phase
  BY DEF Watching
<1>2. PICK noise \in config.noise : Sample(ts, SimChannels(config.scenario, noise))
  BY DEF Watching
<1>3. tamper \in BOOLEAN
  BY <1>2 DEF Sample
<1>4. scored \in Levels
  BY ScoredIsLevel
<1>5. step \in ClockSteps
  BY DEF Remembered
<1>6. ts = clock + step
  <2>1. clock \in Int
    BY ConstantFacts DEF Remembered, TypeOK, Times
  <2>2. clock + 0 = clock
    BY <2>1
  <2> QED BY <2>2
<1>7. seq < MaxFrames
  <2>1. MaxSamples[config] \in 0..MaxFrames
    BY WatchBoundAssumption DEF Remembered
  <2> QED BY <1>1, <2>1, ConstantFacts DEF Remembered, TypeOK
<1> HIDE DEF step, ts, tamper, scored
<1>8. /\ clock + step \in Times /\ clock' = clock + step
      /\ Process(clock + step, Raw(scored, tamper), tamper)
  BY <1>1, <1>6
<1> QED BY <1>1, <1>3, <1>4, <1>5, <1>7, <1>8 DEF SensorEvent

LEMMA WatchStepIsGuardians ==
  ASSUME 0 \in ClockSteps, \A c \in Configs : c.step \in ClockSteps,
         Evidenced, Remembered, [WatchNext]_watchVars
  PROVE  [Next]_vars
<1>1. CASE Watching
  BY <1>1, WatchingIsAnEvent DEF Next
<1>2. CASE SceneChanges \/ Note
  BY <1>2 DEF SceneChanges, Note
<1>3. CASE Reboot
  BY <1>3 DEF Reboot, Next
<1>4. CASE UNCHANGED watchVars
  BY <1>4 DEF watchVars
<1> QED BY <1>1, <1>2, <1>3, <1>4 DEF WatchNext

\* Every behaviour of a node on watch (run_live_ingest with LiveSensorArray) is one
\* of the guardian, for clock steps that include those of its sampling.
THEOREM WatchIsAGuardian ==
  ASSUME 0 \in ClockSteps, \A c \in Configs : c.step \in ClockSteps
  PROVE  WatchSpec => Spec
<1>1. WatchInit => Init
  BY DEF WatchInit
<1>2. Evidenced /\ Remembered /\ [WatchNext]_watchVars => [Next]_vars
  BY WatchStepIsGuardians
<1> QED BY <1>1, <1>2, WatchRemembers, PTL DEF WatchSpec, Spec

\* So the theorems of the guardian pass to the node: with a dwell time above zero,
\* no sample takes it from a recorded CLEAR to a threat, whatever the sensors meet.
THEOREM WatchNeverJumps ==
  ASSUME Dwell > 0, 0 \in ClockSteps, \A c \in Configs : c.step \in ClockSteps
  PROVE  WatchSpec => [][lastLevel = "CLEAR" => lastLevel' \notin Threat]_vars
BY WatchIsAGuardian, GuardianNeverJumps, PTL

\* The node on watch with the history variables of GuardianMonitor, which follow each
\* sample and each restart and never hinder one.
ObservedNext ==
  \/ Watching /\ Suppressed /\ ObserveSuppressed(frame')
  \/ Watching /\ ~Suppressed /\ ObserveRecorded(frame')
  \/ (SceneChanges \/ Note) /\ UNCHANGED history
  \/ Reboot /\ ForgetAll

ObservedSpec ==
  WatchInit /\ MonitorInit /\ [][ObservedNext]_<<watchVars, history>>

LEMMA ObservedSteps ==
  ASSUME 0 \in ClockSteps, \A c \in Configs : c.step \in ClockSteps,
         Evidenced, Remembered, [ObservedNext]_<<watchVars, history>>
  PROVE  [MonitorNext]_monitorVars
<1>1. CASE Watching /\ Suppressed /\ ObserveSuppressed(frame')
  BY <1>1, WatchingIsAnEvent DEF MonitorNext
<1>2. CASE Watching /\ ~Suppressed /\ ObserveRecorded(frame')
  BY <1>2, WatchingIsAnEvent DEF MonitorNext
<1>3. CASE (SceneChanges \/ Note) /\ UNCHANGED history
  BY <1>3 DEF SceneChanges, Note, monitorVars
<1>4. CASE Reboot /\ ForgetAll
  BY <1>4 DEF Reboot, MonitorNext
<1>5. CASE UNCHANGED <<watchVars, history>>
  BY <1>5 DEF watchVars, monitorVars
<1> QED BY <1>1, <1>2, <1>3, <1>4, <1>5 DEF ObservedNext

(***************************************************************************)
(* What is proved of the alert stream of the guardian holds of that of a     *)
(* node on watch: no threat out of the blue, none that lasts goes unsaid, a   *)
(* quiet cooldown, and a hold-safe that ends, whatever the sensors meet.     *)
(***************************************************************************)
THEOREM WatchKeepsGuardiansWord ==
  ASSUME Forward, 0 \in ClockSteps, \A c \in Configs : c.step \in ClockSteps
  PROVE  ObservedSpec =>
           [](ConfirmedEscalation /\ SustainedThreatPublished /\ QuietCooldown
                /\ LatchedHoldIsBounded)
<1>1. [ObservedNext]_<<watchVars, history>> => [WatchNext]_watchVars
  BY DEF ObservedNext, WatchNext
<1>2. ObservedSpec => WatchSpec
  BY <1>1, PTL DEF ObservedSpec, WatchSpec
<1>3. Evidenced /\ Remembered /\ [ObservedNext]_<<watchVars, history>>
        => [MonitorNext]_monitorVars
  BY ObservedSteps
<1>4. ObservedSpec => MonitorSpec
  BY <1>2, <1>3, WatchRemembers, PTL DEF ObservedSpec, MonitorSpec
<1> QED BY <1>4, EscalationIsConfirmed, ThreatIsPublished, CooldownIsQuiet, HoldIsBounded, PTL
==============================================================================
