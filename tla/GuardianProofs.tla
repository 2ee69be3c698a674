---------------------------- MODULE GuardianProofs ----------------------------
(***************************************************************************)
(* The properties of GuardianMonitor, proved for every dwell time, cooldown *)
(* and clock. Four of them need a clock that is not set back, which the     *)
(* theorems name as an assumption; CalmNeverJumps needs none.               *)
(***************************************************************************)
EXTENDS GuardianMonitor, TLAPS

------------------------------------------------------------------------------
(***************************************************************************)
(* Types.                                                                  *)
(***************************************************************************)

\* The assumptions on the constants, in one place.
LEMMA ConstantFacts ==
  /\ Dwell \in Nat /\ Cooldown \in Nat
  /\ MaxTime \in Nat /\ MaxFrames \in Nat
  /\ ClockSteps \subseteq Int
  /\ NoTime \notin Int
BY DurationAssumption, BoundAssumption, ClockAssumption, NoTimeAssumption

\* What process() does with an event keeps every type.
LEMMA ProcessTypes ==
  ASSUME TypeOK, NEW ts \in Times, NEW scored \in Levels, NEW tamper \in BOOLEAN,
         seq < MaxFrames, Process(ts, Raw(scored, tamper), tamper),
         clock' = ts, UNCHANGED phase
  PROVE  TypeOK'
<1> DEFINE raw == Raw(scored, tamper)
<1>1. raw \in Levels
  BY DEF Raw, Levels
<1>2. Effective(ts, raw) \in Levels
  BY <1>1 DEF Effective, TypeOK
<1>3. ElevatedFrom(ts) \in Times
  BY DEF ElevatedFrom, TypeOK
<1>4. ASSUME NEW level \in Levels, NEW st \in States, Publish(ts, raw, tamper, level, st)
      PROVE  /\ seq' \in 0..MaxFrames
             /\ state' \in States
             /\ frame' \in Frames
  BY <1>1, <1>4, ConstantFacts DEF Publish, TypeOK, Frames
<1>5. CASE Suppress(ts, raw, tamper)
  <2>1. phase \in States
    BY DEF TypeOK, States
  <2>2. (IF raw = "HOLD" THEN "HOLD" ELSE "CLEAR") \in Levels
    BY DEF Levels
  <2> QED
    BY <1>4, <1>5, <2>1, <2>2 DEF Suppress, memory, TypeOK
<1>6. CASE Confirm(ts, raw, tamper)
  <2>1. "YELLOW" \in Levels /\ "confirming" \in States
    BY DEF Levels, States
  <2> QED
    BY <1>3, <1>4, <1>6, <2>1 DEF Confirm, TypeOK
<1>7. CASE Alert(ts, raw, tamper)
  <2>1. (IF Effective(ts, raw) = "HOLD" THEN "hold_safe" ELSE "alerting") \in States
    BY DEF States
  <2> QED
    BY <1>2, <1>3, <1>4, <1>7, <2>1 DEF Alert, TypeOK
<1>8. CASE Watch(ts, raw, tamper)
  <2>1. "YELLOW" \in Levels /\ "watch" \in States
    BY DEF Levels, States
  <2> QED
    BY <1>4, <1>8, <2>1 DEF Watch, TypeOK
<1>9. CASE StandDown(ts, raw, tamper)
  <2>1. "CLEAR" \in Levels /\ {"cooldown", "watch"} \subseteq States
    BY DEF Levels, States
  <2>2. ts + Cooldown \in 0..(MaxTime + Cooldown)
    BY ConstantFacts DEF Times
  <2> QED
    BY <1>4, <1>9, <2>1, <2>2 DEF StandDown, TypeOK
<1> QED
  BY <1>5, <1>6, <1>7, <1>8, <1>9 DEF Process

\* Every step of the guardian keeps every type.
LEMMA TypeStep == TypeOK /\ [Next]_vars => TypeOK'
<1> SUFFICES ASSUME TypeOK, [Next]_vars
             PROVE  TypeOK'
  OBVIOUS
<1>1. CASE SensorEvent
  BY <1>1, ProcessTypes DEF SensorEvent
<1>2. CASE SimulateLaunch
  BY <1>2 DEF SimulateLaunch, TypeOK, memory, Phases
<1>3. CASE RunMeshAutoJoin
  BY <1>3 DEF RunMeshAutoJoin, TypeOK, memory, Phases
<1>4. CASE RunPostLandingChecks
  BY <1>4 DEF RunPostLandingChecks, TypeOK, memory, Phases
<1>5. CASE Restart
  BY <1>5, ConstantFacts DEF Restart, TypeOK, States, Phases, Levels
<1>6. CASE UNCHANGED vars
  BY <1>6 DEF vars, memory, TypeOK
<1> QED
  BY <1>1, <1>2, <1>3, <1>4, <1>5, <1>6 DEF Next

\* The guardian starts with every variable in its type.
LEMMA TypeInit == Init => TypeOK
BY ConstantFacts DEF Init, TypeOK, States, Phases, Levels, Times

\* Type correctness of the guardian alone, whatever the monitor does.
THEOREM GuardianTypes == Spec => []TypeOK
BY TypeInit, TypeStep, PTL DEF Spec

------------------------------------------------------------------------------
(***************************************************************************)
(* The monitor.                                                            *)
(***************************************************************************)

\* A step of the monitored guardian, split as the proofs below need it: an event
\* that is recorded or suppressed, a deployment step, a restart, or a stutter.
Recorded(ts, scored, tamper) ==
  /\ clock' = ts /\ UNCHANGED phase
  /\ ~Suppressed
  /\ Process(ts, Raw(scored, tamper), tamper)
  /\ ObserveRecorded(frame')

Hidden(ts, scored, tamper) ==
  /\ clock' = ts /\ UNCHANGED phase
  /\ Suppress(ts, Raw(scored, tamper), tamper)
  /\ ObserveSuppressed(frame')

Redeployed ==
  /\ phase' \in Phases
  /\ UNCHANGED <<seq, state, memory, clock, frame, history>>

LEMMA MonitorSteps ==
  ASSUME MonitorTypeOK, [MonitorNext]_monitorVars
  PROVE  \/ \E step \in ClockSteps, scored \in Levels, tamper \in BOOLEAN :
              /\ clock + step \in Times
              /\ \/ Recorded(clock + step, scored, tamper)
                 \/ Hidden(clock + step, scored, tamper)
         \/ Redeployed
         \/ Restart /\ ForgetAll
         \/ UNCHANGED monitorVars
<1>1. CASE SensorEvent /\ Suppressed /\ ObserveSuppressed(frame')
  BY <1>1 DEF SensorEvent, Process, Confirm, Alert, Watch, StandDown, Hidden
<1>2. CASE SensorEvent /\ ~Suppressed /\ ObserveRecorded(frame')
  BY <1>2 DEF SensorEvent, Recorded
<1>3. CASE (SimulateLaunch \/ RunMeshAutoJoin \/ RunPostLandingChecks) /\ UNCHANGED history
  BY <1>3 DEF SimulateLaunch, RunMeshAutoJoin, RunPostLandingChecks, Redeployed, Phases
<1> QED
  BY <1>1, <1>2, <1>3 DEF MonitorNext

\* A step of the monitored guardian is a step of the guardian.
LEMMA MonitorImplements == [MonitorNext]_monitorVars => [Next]_vars
BY DEF MonitorNext, Next, monitorVars

LEMMA MonitorSpecImplements == MonitorSpec => Spec
BY MonitorImplements, PTL DEF MonitorSpec, MonitorInit, Spec

LEMMA MonitorTypeInit == MonitorInit => MonitorTypeOK
BY TypeInit DEF MonitorInit, MonitorTypeOK

LEMMA MonitorTypeStep == MonitorTypeOK /\ [MonitorNext]_monitorVars => MonitorTypeOK'
<1> SUFFICES ASSUME MonitorTypeOK, [MonitorNext]_monitorVars
             PROVE  MonitorTypeOK'
  OBVIOUS
<1>1. TypeOK'
  BY TypeStep, MonitorImplements DEF MonitorTypeOK
<1>2. ASSUME NEW ts \in Times, frame'.ts = ts, ObserveRecorded(frame')
      PROVE  MonitorTypeOK'
  BY <1>1, <1>2 DEF ObserveRecorded, MonitorTypeOK, Run
<1>3. ASSUME NEW ts \in Times, frame'.ts = ts, ObserveSuppressed(frame')
      PROVE  MonitorTypeOK'
  BY <1>1, <1>3 DEF ObserveSuppressed, MonitorTypeOK
<1>4. ASSUME NEW ts, NEW raw, NEW tamper, Process(ts, raw, tamper)
      PROVE  frame'.ts = ts
  BY <1>4 DEF Process, Suppress, Confirm, Alert, Watch, StandDown, Publish
<1>5. ASSUME NEW ts \in Times, NEW scored \in Levels, NEW tamper \in BOOLEAN,
             Recorded(ts, scored, tamper)
      PROVE  MonitorTypeOK'
  BY <1>2, <1>4, <1>5 DEF Recorded
<1>6. ASSUME NEW ts \in Times, NEW scored \in Levels, NEW tamper \in BOOLEAN,
             Hidden(ts, scored, tamper)
      PROVE  MonitorTypeOK'
  BY <1>3, <1>4, <1>6 DEF Hidden, Process
<1>7. CASE Redeployed
  BY <1>1, <1>7 DEF Redeployed, history, MonitorTypeOK
<1>8. CASE ForgetAll
  BY <1>1, <1>8 DEF ForgetAll, MonitorTypeOK
<1>9. CASE UNCHANGED monitorVars
  BY <1>1, <1>9 DEF monitorVars, history, MonitorTypeOK
<1> QED
  BY <1>5, <1>6, <1>7, <1>8, <1>9, MonitorSteps

\* Type correctness of the guardian and of what is remembered about it.
THEOREM MonitorTypes == MonitorSpec => []MonitorTypeOK
BY MonitorTypeInit, MonitorTypeStep, PTL DEF MonitorSpec

------------------------------------------------------------------------------
(***************************************************************************)
(* The dwell confirmation. The inductive invariant says when the dwell      *)
(* timer runs and that it never started before the run of frames it counts. *)
(***************************************************************************)

Forward == ClockSteps \subseteq Nat

DwellInv ==
  /\ lastLevel = "CLEAR" <=> elevatedSince = NoTime
  /\ runStart = NoTime <=> elevatedSince = NoTime
  /\ elevatedSince # NoTime => runStart <= elevatedSince /\ elevatedSince <= clock
  /\ threatSince # NoTime =>
       /\ elevatedSince # NoTime
       /\ elevatedSince <= threatSince
       /\ threatSince <= clock
  /\ ConfirmedEscalation
  /\ SustainedThreatPublished

LEMMA DwellInit == MonitorInit => DwellInv
BY DEF MonitorInit, Init, DwellInv, ConfirmedEscalation, SustainedThreatPublished,
       Spans, NoFrame, Threat

\* What a recorded event does to the dwell timer and the last level.
LEMMA RecordedDwell ==
  ASSUME MonitorTypeOK, NEW ts \in Times, NEW scored \in Levels, NEW tamper \in BOOLEAN,
         Recorded(ts, scored, tamper)
  PROVE  LET raw == Raw(scored, tamper)
             level == Effective(ts, raw)
         IN /\ raw \in Levels /\ level \in Levels
            /\ frame'.ts = ts /\ frame'.raw = raw
            /\ \/ /\ level \in Critical /\ Unconfirmed(ts, level)
                  /\ elevatedSince' = ElevatedFrom(ts)
                  /\ lastLevel' = "YELLOW" /\ frame'.level = "YELLOW"
                  /\ UNCHANGED cooldownUntil /\ frame'.state = "confirming"
               \/ /\ level \in Critical /\ ~Unconfirmed(ts, level)
                  /\ elevatedSince' = ElevatedFrom(ts)
                  /\ lastLevel' = level /\ frame'.level = level
                  /\ UNCHANGED cooldownUntil /\ frame'.state \in {"hold_safe", "alerting"}
               \/ /\ level = "YELLOW"
                  /\ elevatedSince' = ts
                  /\ lastLevel' = "YELLOW" /\ frame'.level = "YELLOW"
                  /\ UNCHANGED cooldownUntil /\ frame'.state = "watch"
               \/ /\ level = "CLEAR"
                  /\ elevatedSince' = NoTime
                  /\ lastLevel' = "CLEAR" /\ frame'.level = "CLEAR"
                  /\ \/ UNCHANGED cooldownUntil /\ frame'.state = "watch"
                     \/ cooldownUntil' = ts + Cooldown /\ frame'.state = "cooldown"
<1> DEFINE raw == Raw(scored, tamper)
<1>1. raw \in Levels
  BY DEF Raw, Levels
<1>2. Effective(ts, raw) \in Levels
  BY <1>1 DEF Effective, MonitorTypeOK, TypeOK
<1>3. Process(ts, raw, tamper) /\ ~Suppressed
  BY DEF Recorded
<1>4. CASE Confirm(ts, raw, tamper)
  BY <1>1, <1>2, <1>4 DEF Confirm, Publish
<1>5. CASE Alert(ts, raw, tamper)
  BY <1>1, <1>2, <1>5 DEF Alert, Publish
<1>6. CASE Watch(ts, raw, tamper)
  BY <1>1, <1>2, <1>6 DEF Watch, Publish
<1>7. CASE StandDown(ts, raw, tamper)
  BY <1>1, <1>2, <1>7 DEF StandDown, Publish
<1> QED
  BY <1>3, <1>4, <1>5, <1>6, <1>7 DEF Process, Suppress

\* What a suppressed event publishes: nothing but hold-safe, and nothing recorded.
LEMMA HiddenFrame ==
  ASSUME NEW ts, NEW scored \in Levels, NEW tamper \in BOOLEAN, Hidden(ts, scored, tamper)
  PROVE  /\ frame'.ts = ts
         /\ frame'.raw = Raw(scored, tamper)
         /\ frame'.level = IF frame'.raw = "HOLD" THEN "HOLD" ELSE "CLEAR"
         /\ UNCHANGED <<elevatedSince, cooldownUntil, lastLevel>>
BY DEF Hidden, Suppress, Publish, memory

LEMMA DwellRecorded ==
  ASSUME MonitorTypeOK, DwellInv,
         NEW ts \in Times, clock <= ts, NEW scored \in Levels, NEW tamper \in BOOLEAN,
         Recorded(ts, scored, tamper)
  PROVE  DwellInv'
<1> DEFINE raw == Raw(scored, tamper)
           level == Effective(ts, raw)
           from == ElevatedFrom(ts)
<1> USE ConstantFacts
<1>1. /\ runStart' = Run(runStart, lastLevel' # "CLEAR", ts)
      /\ threatSince' = Run(threatSince, Unsuppressible(frame'), ts)
      /\ clock' = ts
  BY RecordedDwell DEF Recorded, ObserveRecorded
<1>2. /\ from \in Times /\ from <= ts /\ clock \in Int /\ ts \in Int
      /\ elevatedSince # NoTime => from = elevatedSince /\ runStart \in Times
      /\ elevatedSince = NoTime => from = ts /\ runStart = NoTime /\ threatSince = NoTime
      /\ threatSince # NoTime => threatSince \in Times
  BY DEF ElevatedFrom, DwellInv, MonitorTypeOK, TypeOK, Times
<1>3. Unsuppressible(frame') => level = raw /\ raw \in Threat
  BY RecordedDwell DEF Unsuppressible, Effective, LowTier, Threat, MonitorTypeOK, TypeOK, Times
<1>4. CASE level \in Critical /\ elevatedSince' = from /\ lastLevel' # "CLEAR"
  <2>1. runStart' # NoTime /\ runStart' <= from /\ runStart' \in Int
    BY <1>1, <1>2, <1>4 DEF Run, DwellInv, Times
  <2>2. threatSince' # NoTime => from <= threatSince' /\ threatSince' <= ts
    BY <1>1, <1>2 DEF Run, DwellInv, Times
  <2>3. /\ lastLevel' = "CLEAR" <=> elevatedSince' = NoTime
        /\ runStart' = NoTime <=> elevatedSince' = NoTime
    BY <1>2, <1>4, <2>1 DEF Times
  <2>4. ~Unconfirmed(ts, level) /\ level # "HOLD" => ts - from >= Dwell
    BY <1>2 DEF Unconfirmed, Times
  <2>5. ConfirmedEscalation'
    BY <1>2, <2>1, <2>4, RecordedDwell DEF ConfirmedEscalation, Spans, Threat, Times
  <2>6. SustainedThreatPublished'
    <3> SUFFICES ASSUME Spans(threatSince, Dwell)'
                 PROVE  frame'.level = frame'.raw
      BY DEF SustainedThreatPublished
    <3>1. Unsuppressible(frame') /\ frame'.ts = ts
      BY <1>1, RecordedDwell DEF Spans, Run
    <3>2. ts - from >= Dwell
      BY <1>2, <2>2, <1>1, <3>1 DEF Spans, Times, Run
    <3>3. ~Unconfirmed(ts, level)
      BY <1>2, <3>2 DEF Unconfirmed, Times
    <3> QED
      BY <1>3, <1>4, <3>1, <3>3, RecordedDwell DEF Critical, Threat
  <2> QED
    BY <1>1, <1>2, <1>4, <2>1, <2>2, <2>3, <2>5, <2>6 DEF DwellInv
<1>5. CASE level \notin Critical
  <2>1. ~Unsuppressible(frame')
    BY <1>3, <1>5 DEF Critical
  <2>2. threatSince' = NoTime
    BY <1>1, <2>1 DEF Run
  <2>3. \/ level = "YELLOW" /\ elevatedSince' = ts /\ lastLevel' = "YELLOW" /\ frame'.level = "YELLOW"
        \/ level = "CLEAR" /\ elevatedSince' = NoTime /\ lastLevel' = "CLEAR" /\ frame'.level = "CLEAR"
    BY <1>5, RecordedDwell DEF Critical
  <2>4. ConfirmedEscalation' /\ SustainedThreatPublished'
    BY <2>2, <2>3 DEF ConfirmedEscalation, SustainedThreatPublished, Spans, Threat
  <2>5. CASE lastLevel' = "YELLOW"
    <3>1. runStart' # NoTime /\ runStart' <= ts
      BY <1>1, <1>2, <2>5 DEF Run, DwellInv, Times
    <3> QED
      BY <1>1, <1>2, <2>2, <2>3, <2>4, <2>5, <3>1 DEF DwellInv
  <2>6. CASE lastLevel' = "CLEAR"
    BY <1>1, <2>2, <2>3, <2>4, <2>6 DEF DwellInv, Run
  <2> QED
    BY <2>3, <2>5, <2>6
<1> QED
  BY <1>4, <1>5, RecordedDwell DEF Critical, Threat

LEMMA DwellStep ==
  ASSUME Forward, MonitorTypeOK, DwellInv, [MonitorNext]_monitorVars
  PROVE  DwellInv'
<1>1. ASSUME NEW step \in ClockSteps, NEW scored \in Levels, NEW tamper \in BOOLEAN,
             clock + step \in Times, Recorded(clock + step, scored, tamper)
      PROVE  DwellInv'
  <2>1. clock <= clock + step
    BY <1>1, ConstantFacts DEF Forward, MonitorTypeOK, TypeOK, Times
  <2> QED
    BY <1>1, <2>1, DwellRecorded
<1>2. ASSUME NEW step \in ClockSteps, NEW scored \in Levels, NEW tamper \in BOOLEAN,
             clock + step \in Times, Hidden(clock + step, scored, tamper)
      PROVE  DwellInv'
  <2>1. clock' = clock + step /\ clock \in Int /\ step \in Nat
    BY <1>2, ConstantFacts DEF Hidden, Forward, MonitorTypeOK, TypeOK, Times
  <2>2. UNCHANGED <<elevatedSince, lastLevel, runStart>> /\ threatSince' = NoTime
    BY <1>2, HiddenFrame DEF Hidden, ObserveSuppressed
  <2>3. frame'.level \notin Threat
    BY <1>2, HiddenFrame DEF Threat
  <2>4. elevatedSince \in Times \cup {NoTime}
    BY DEF MonitorTypeOK, TypeOK
  <2> QED
    BY <2>1, <2>2, <2>3, <2>4, ConstantFacts
       DEF DwellInv, ConfirmedEscalation, SustainedThreatPublished, Spans, Times
<1>3. CASE Redeployed \/ UNCHANGED monitorVars
  BY <1>3 DEF Redeployed, monitorVars, vars, memory, history, DwellInv,
              ConfirmedEscalation, SustainedThreatPublished, Spans
<1>4. CASE Restart /\ ForgetAll
  BY <1>4 DEF Restart, ForgetAll, DwellInv, NoFrame, Threat,
              ConfirmedEscalation, SustainedThreatPublished, Spans
<1> QED
  BY <1>1, <1>2, <1>3, <1>4, MonitorSteps

LEMMA DwellInvariant == ASSUME Forward PROVE MonitorSpec => []DwellInv
<1>1. MonitorTypeOK /\ DwellInv /\ [MonitorNext]_monitorVars => DwellInv'
  BY DwellStep
<1> QED
  BY <1>1, DwellInit, MonitorTypes, PTL DEF MonitorSpec

\* Every ORANGE or RED frame closes a run of at least Dwell away from CLEAR.
THEOREM EscalationIsConfirmed ==
  ASSUME Forward PROVE MonitorSpec => []ConfirmedEscalation
<1>1. DwellInv => ConfirmedEscalation
  BY DEF DwellInv
<1> QED
  BY <1>1, DwellInvariant, PTL

\* A threat that lasts for Dwell, and that no cooldown may hide, is published.
THEOREM ThreatIsPublished ==
  ASSUME Forward PROVE MonitorSpec => []SustainedThreatPublished
<1>1. DwellInv => SustainedThreatPublished
  BY DEF DwellInv
<1> QED
  BY <1>1, DwellInvariant, PTL

------------------------------------------------------------------------------
(***************************************************************************)
(* The cooldown. The inductive invariant says that the level a cooldown     *)
(* repeats is CLEAR until a RED or HOLD input breaks it, and that a cooldown *)
(* in which hold-safe is repeated ends within Cooldown of the last input    *)
(* that called for hold-safe.                                              *)
(***************************************************************************)

CooldownInv ==
  /\ cooldownUntil <= clock + Cooldown
  /\ clock < cooldownUntil /\ ~breached => lastLevel = "CLEAR"
  /\ lastLevel = "HOLD" => holdAt # NoTime /\ cooldownUntil <= holdAt + Cooldown
  /\ QuietCooldown
  /\ LatchedHoldIsBounded

LEMMA CooldownInit == MonitorInit => CooldownInv
BY ConstantFacts
   DEF MonitorInit, Init, CooldownInv, QuietCooldown, LatchedHoldIsBounded, NoFrame, LowTier

LEMMA CooldownRecorded ==
  ASSUME MonitorTypeOK, CooldownInv,
         NEW ts \in Times, clock <= ts, NEW scored \in Levels, NEW tamper \in BOOLEAN,
         Recorded(ts, scored, tamper)
  PROVE  CooldownInv'
<1> DEFINE raw == Raw(scored, tamper)
           level == Effective(ts, raw)
<1> USE ConstantFacts
<1>1. /\ holdAt' = IF raw = "HOLD" THEN ts ELSE holdAt
      /\ ~breached' /\ frame'.state # "cooldown" => ~breached /\ raw \notin {"RED", "HOLD"}
      /\ clock' = ts
      /\ frame'.ts = ts /\ frame'.raw = raw
      /\ raw \in Levels
  BY RecordedDwell DEF Recorded, ObserveRecorded
<1>2. /\ cooldownUntil \in Int /\ clock \in Int /\ ts \in Int
      /\ holdAt # NoTime => holdAt \in Int
  BY DEF MonitorTypeOK, TypeOK, Times
<1>3. CASE cooldownUntil' = ts + Cooldown /\ lastLevel' = "CLEAR" /\ frame'.level = "CLEAR"
  BY <1>1, <1>2, <1>3 DEF CooldownInv, QuietCooldown, LatchedHoldIsBounded
<1>4. CASE cooldownUntil' = cooldownUntil /\ frame'.state # "cooldown"
  <2>1. cooldownUntil' <= clock' + Cooldown
    BY <1>1, <1>2, <1>4 DEF CooldownInv
  <2>2. clock' < cooldownUntil' /\ ~breached' => lastLevel' = "CLEAR" /\ frame'.level = "CLEAR"
    <3> SUFFICES ASSUME clock' < cooldownUntil', ~breached'
                 PROVE  lastLevel' = "CLEAR" /\ frame'.level = "CLEAR"
      OBVIOUS
    <3>1. lastLevel = "CLEAR" /\ raw \notin {"RED", "HOLD"} /\ ts < cooldownUntil
      BY <1>1, <1>2, <1>4 DEF CooldownInv
    <3>2. level = "CLEAR"
      BY <1>1, <3>1 DEF Effective, LowTier, Levels
    <3> QED
      BY <3>2, RecordedDwell DEF Critical, Threat
  <2>3. QuietCooldown'
    BY <1>1, <2>2 DEF QuietCooldown
  <2>4. level = "HOLD" =>
          /\ holdAt' # NoTime /\ cooldownUntil <= holdAt' + Cooldown
          /\ raw = "HOLD" \/ ts - holdAt' < Cooldown
    <3> SUFFICES ASSUME level = "HOLD", raw # "HOLD"
                 PROVE  holdAt' # NoTime /\ cooldownUntil <= holdAt' + Cooldown
                          /\ ts - holdAt' < Cooldown
      BY <1>1, <1>2 DEF CooldownInv
    <3>1. lastLevel = "HOLD" /\ ts < cooldownUntil
      BY DEF Effective
    <3> QED
      BY <1>1, <1>2, <3>1 DEF CooldownInv
  <2>5. (lastLevel' = "HOLD" => level = "HOLD") /\ (frame'.level = "HOLD" => level = "HOLD")
    BY RecordedDwell
  <2> QED
    BY <1>1, <1>4, <2>1, <2>2, <2>3, <2>4, <2>5 DEF CooldownInv, LatchedHoldIsBounded
<1> QED
  BY <1>3, <1>4, RecordedDwell

LEMMA CooldownStep ==
  ASSUME Forward, MonitorTypeOK, CooldownInv, [MonitorNext]_monitorVars
  PROVE  CooldownInv'
<1>1. ASSUME NEW step \in ClockSteps, NEW scored \in Levels, NEW tamper \in BOOLEAN,
             clock + step \in Times, Recorded(clock + step, scored, tamper)
      PROVE  CooldownInv'
  <2>1. clock <= clock + step
    BY <1>1, ConstantFacts DEF Forward, MonitorTypeOK, TypeOK, Times
  <2> QED
    BY <1>1, <2>1, CooldownRecorded
<1>2. ASSUME NEW step \in ClockSteps, NEW scored \in Levels, NEW tamper \in BOOLEAN,
             clock + step \in Times, Hidden(clock + step, scored, tamper)
      PROVE  CooldownInv'
  <2> DEFINE ts == clock + step
  <2>1. /\ clock' = ts /\ clock <= ts /\ clock \in Int /\ ts \in Int
        /\ cooldownUntil \in Int /\ Cooldown \in Nat
        /\ holdAt # NoTime => holdAt \in Int
    BY <1>2, ConstantFacts DEF Hidden, Forward, MonitorTypeOK, TypeOK, Times
  <2>2. /\ UNCHANGED <<cooldownUntil, lastLevel, breached>>
        /\ frame'.ts = ts
        /\ frame'.level = IF frame'.raw = "HOLD" THEN "HOLD" ELSE "CLEAR"
        /\ holdAt' = IF frame'.raw = "HOLD" THEN ts ELSE holdAt
    BY <1>2, HiddenFrame DEF Hidden, ObserveSuppressed
  <2>3. QuietCooldown' /\ LatchedHoldIsBounded'
    BY <2>1, <2>2, ConstantFacts DEF QuietCooldown, LatchedHoldIsBounded, LowTier
  <2>4. lastLevel' = "HOLD" => holdAt' # NoTime /\ cooldownUntil' <= holdAt' + Cooldown
    BY <2>1, <2>2, ConstantFacts DEF CooldownInv
  <2>5. /\ cooldownUntil' <= clock' + Cooldown
        /\ clock' < cooldownUntil' /\ ~breached' => lastLevel' = "CLEAR"
    BY <2>1, <2>2 DEF CooldownInv
  <2> QED
    BY <2>3, <2>4, <2>5 DEF CooldownInv
<1>3. CASE Redeployed \/ UNCHANGED monitorVars
  BY <1>3 DEF Redeployed, monitorVars, vars, memory, history,
              CooldownInv, QuietCooldown, LatchedHoldIsBounded
<1>4. CASE Restart /\ ForgetAll
  <2>1. clock \in Nat
    BY ConstantFacts DEF MonitorTypeOK, TypeOK, Times
  <2> QED
    BY <1>4, <2>1, ConstantFacts DEF Restart, ForgetAll, NoFrame, LowTier,
         CooldownInv, QuietCooldown, LatchedHoldIsBounded
<1> QED
  BY <1>1, <1>2, <1>3, <1>4, MonitorSteps

LEMMA CooldownInvariant == ASSUME Forward PROVE MonitorSpec => []CooldownInv
<1>1. MonitorTypeOK /\ CooldownInv /\ [MonitorNext]_monitorVars => CooldownInv'
  BY CooldownStep
<1> QED
  BY <1>1, CooldownInit, MonitorTypes, PTL DEF MonitorSpec

\* Until a RED or HOLD input breaks it, a cooldown publishes low-tier events as CLEAR.
THEOREM CooldownIsQuiet ==
  ASSUME Forward PROVE MonitorSpec => []QuietCooldown
<1>1. CooldownInv => QuietCooldown
  BY DEF CooldownInv
<1> QED
  BY <1>1, CooldownInvariant, PTL

\* Hold-safe outlives the last tamper or jamming input by less than Cooldown.
THEOREM HoldIsBounded ==
  ASSUME Forward PROVE MonitorSpec => []LatchedHoldIsBounded
<1>1. CooldownInv => LatchedHoldIsBounded
  BY DEF CooldownInv
<1> QED
  BY <1>1, CooldownInvariant, PTL

------------------------------------------------------------------------------
(***************************************************************************)
(* From calm to a threat, under any clock.                                 *)
(***************************************************************************)

\* The dwell timer is off exactly when the last recorded level is CLEAR.
TimerInv == lastLevel = "CLEAR" <=> elevatedSince = NoTime

LEMMA TimerStep ==
  ASSUME TypeOK, TimerInv, [Next]_vars
  PROVE  /\ TimerInv'
         /\ Dwell > 0 /\ lastLevel = "CLEAR" => lastLevel' \notin Threat
<1>1. ASSUME NEW ts \in Times, NEW raw, NEW tamper, Process(ts, raw, tamper)
      PROVE  /\ TimerInv'
             /\ Dwell > 0 /\ lastLevel = "CLEAR" => lastLevel' \notin Threat
  <2>1. ts \in Int /\ ts # NoTime /\ ElevatedFrom(ts) # NoTime
    BY ConstantFacts DEF Times, ElevatedFrom
  <2>2. CASE Suppress(ts, raw, tamper)
    BY <2>2 DEF Suppress, memory, TimerInv, Threat
  <2>3. CASE Confirm(ts, raw, tamper)
    BY <2>1, <2>3 DEF Confirm, TimerInv, Threat
  <2>4. CASE Alert(ts, raw, tamper)
    <3> DEFINE level == Effective(ts, raw)
    <3>1. /\ level \in Critical /\ ~Unconfirmed(ts, level)
          /\ lastLevel' = level /\ elevatedSince' = ElevatedFrom(ts)
      BY <2>4 DEF Alert
    <3> HIDE DEF level
    <3>2. level # "CLEAR"
      BY <3>1 DEF Critical, Threat
    <3>3. Dwell > 0 /\ lastLevel = "CLEAR" => level = "HOLD"
      BY <2>1, <3>1, ConstantFacts DEF Unconfirmed, ElevatedFrom, TimerInv
    <3> QED BY <2>1, <3>1, <3>2, <3>3 DEF TimerInv, Threat
  <2>5. CASE Watch(ts, raw, tamper)
    BY <2>1, <2>5 DEF Watch, TimerInv, Threat
  <2>6. CASE StandDown(ts, raw, tamper)
    BY <2>6 DEF StandDown, TimerInv, Threat
  <2> QED BY <1>1, <2>2, <2>3, <2>4, <2>5, <2>6 DEF Process
<1>2. CASE SensorEvent
  BY <1>1, <1>2 DEF SensorEvent
<1>3. CASE UNCHANGED <<elevatedSince, lastLevel>>
  BY <1>3 DEF TimerInv, Threat
<1>4. CASE SimulateLaunch \/ RunMeshAutoJoin \/ RunPostLandingChecks \/ UNCHANGED vars
  BY <1>3, <1>4 DEF SimulateLaunch, RunMeshAutoJoin, RunPostLandingChecks, vars, memory
<1>5. CASE Restart
  BY <1>5 DEF Restart, TimerInv, Threat
<1> QED
  BY <1>2, <1>4, <1>5 DEF Next

LEMMA TimerInvariant == Spec => [](TypeOK /\ TimerInv)
<1>1. Init => TimerInv
  BY DEF Init, TimerInv
<1>2. TypeOK /\ TimerInv /\ [Next]_vars => TimerInv'
  BY TimerStep
<1> QED BY <1>1, <1>2, GuardianTypes, PTL DEF Spec

\* With a dwell time above zero no frame of process() goes from a recorded CLEAR to
\* a threat, for any clock: stated of the guardian alone, so that it passes to
\* whatever implements it.
THEOREM GuardianNeverJumps ==
  ASSUME Dwell > 0
  PROVE  Spec => [][lastLevel = "CLEAR" => lastLevel' \notin Threat]_vars
<1>1. TypeOK /\ TimerInv /\ [Next]_vars => [lastLevel = "CLEAR" => lastLevel' \notin Threat]_vars
  BY TimerStep
<1> QED BY <1>1, TimerInvariant, PTL DEF Spec

\* CalmNeverJumps, of the monitored guardian.
THEOREM NoJumpFromCalm == ASSUME Dwell > 0 PROVE MonitorSpec => CalmNeverJumps
<1>1. TypeOK /\ TimerInv /\ [MonitorNext]_monitorVars =>
        [lastLevel = "CLEAR" => lastLevel' \notin Threat]_monitorVars
  <2>1. ASSUME TypeOK, TimerInv, [MonitorNext]_monitorVars
        PROVE  lastLevel = "CLEAR" => lastLevel' \notin Threat
    BY <2>1, MonitorImplements, TimerStep
  <2> QED BY <2>1
<1> QED
  BY <1>1, MonitorSpecImplements, TimerInvariant, PTL DEF MonitorSpec, CalmNeverJumps

------------------------------------------------------------------------------
(***************************************************************************)
(* The deployment phases, as the guardian takes them.                      *)
(***************************************************************************)

Stages == INSTANCE DeploymentPhases WITH stage <- phase

\* A step of the phases is one of the guardian's: whatever a manager does that keeps
\* to DeploymentPhases (manager.py), with the process restarted when it forgets.
THEOREM PhasesAreTheGuardians ==
  ASSUME DeploymentEnabled, [Stages!Next]_phase,
         IF phase' = "stowed" /\ phase # "stowed" THEN Restart
         ELSE UNCHANGED <<seq, state, memory, clock, frame>>
  PROVE  [Next]_vars
<1>1. CASE phase' = "stowed" /\ phase # "stowed"
  BY <1>1 DEF Next
<1>2. CASE ~(phase' = "stowed" /\ phase # "stowed")
  <2>1. UNCHANGED <<seq, state, memory, clock, frame>>
    BY <1>2
  <2>2. CASE Stages!Launch
    BY <2>1, <2>2 DEF Stages!Launch, SimulateLaunch, Next
  <2>3. CASE Stages!Join
    BY <2>1, <2>3 DEF Stages!Join, Stages!Launched, RunMeshAutoJoin, Launched, Next
  <2>4. CASE Stages!Arm
    BY <2>1, <2>4 DEF Stages!Arm, Stages!Joined, RunPostLandingChecks, Next
  <2>5. CASE UNCHANGED phase
    BY <2>1, <2>5 DEF vars
  <2>6. CASE Stages!Forget
    BY <1>2, <2>5, <2>6 DEF Stages!Forget
  <2> QED BY <2>2, <2>3, <2>4, <2>5, <2>6 DEF Stages!Next
<1> QED BY <1>1, <1>2
==============================================================================
