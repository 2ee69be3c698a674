------------------------------ MODULE Guardian ------------------------------
(***************************************************************************)
(* The guardian of one SENTRY node (sentry/guardian.py): a state machine   *)
(* that turns the scored level of each sensor event into a published alert *)
(* frame. It confirms a threat over a dwell time before it publishes one,  *)
(* suppresses low-tier alerts for a cooldown after a threat clears, lets   *)
(* hold-safe through at once, and publishes no threat while the deployment *)
(* manager (sentry/deployment/manager.py) says the chain is not yet        *)
(* operational.                                                            *)
(*                                                                         *)
(* One sensor event is one atomic step: the node is single-threaded and    *)
(* process() makes no call that yields. The scored level is an input; its  *)
(* computation from the channels is fusion.py and scoring.py. Time is the  *)
(* event's timestamp, in the unit of the constants.                        *)
(***************************************************************************)
EXTENDS AlertLevels, Integers

CONSTANTS
  Dwell,              \* guardian.dwell_confirm_s
  Cooldown,           \* guardian.cooldown_s
  DeploymentEnabled,  \* does the mission profile enable the deployment manager?
  ClockSteps,         \* how far the wall clock may move between two events
  MaxTime, MaxFrames, \* bounds of the model: the clock, and the frame counter
  NoTime              \* Python's None, for a time that is not set

ASSUME DurationAssumption == Dwell \in Nat /\ Cooldown \in Nat
ASSUME DeploymentAssumption == DeploymentEnabled \in BOOLEAN
ASSUME ClockAssumption == ClockSteps \subseteq Int
ASSUME BoundAssumption == MaxTime \in Nat /\ MaxFrames \in Nat
ASSUME NoTimeAssumption == NoTime \notin Int

VARIABLES
  seq,            \* _seq
  state,          \* _state
  elevatedSince,  \* _elevated_since
  cooldownUntil,  \* _cooldown_until
  lastLevel,      \* _last_level
  phase,          \* deployment.state.phase
  clock,          \* the timestamp of the latest event
  frame           \* the alert frame process() returned last, with its input

memory == <<elevatedSince, cooldownUntil, lastLevel>>
vars == <<seq, state, memory, phase, clock, frame>>

------------------------------------------------------------------------------
Phases == {"stowed", "deployed", "chain_joining", "operational"}
States == Phases \cup {"watch", "confirming", "alerting", "cooldown", "hold_safe"}
Times == 0..MaxTime

\* No frame has been published since the guardian was constructed.
NoFrame == [seq |-> -1, ts |-> 0, raw |-> "CLEAR", tamper |-> FALSE,
            level |-> "CLEAR", state |-> "watch"]

Frames == [seq : Nat, ts : Times, raw : Levels, tamper : BOOLEAN,
           level : Levels, state : States]

TypeOK ==
  /\ seq \in 0..MaxFrames
  /\ state \in States
  /\ elevatedSince \in Times \cup {NoTime}
  /\ cooldownUntil \in 0..(MaxTime + Cooldown)
  /\ lastLevel \in Levels
  /\ phase \in Phases
  /\ clock \in Times
  /\ frame \in Frames \cup {NoFrame}

------------------------------------------------------------------------------
\* deployment.alerts_suppressed(): the manager exists and is not operational.
\* The phase "deploying" is set and left within simulate_launch().
Suppressed == DeploymentEnabled /\ phase # "operational"

\* The tamper flag of the event overrides the scored level.
Raw(scored, tamper) == IF tamper THEN "HOLD" ELSE scored

\* Mutant of Effective: the cooldown also swallows the levels it must let through.
EffectiveOfAny(ts, raw) == IF ts < cooldownUntil THEN lastLevel ELSE raw

\* Mutant of Effective: only YELLOW is taken for low-tier.
EffectiveOfYellow(ts, raw) ==
  IF ts < cooldownUntil /\ raw = "YELLOW" THEN lastLevel ELSE raw

\* In a cooldown a low-tier level is replaced by the level of the frame before.
Effective(ts, raw) ==
  IF ts < cooldownUntil /\ raw \in LowTier THEN lastLevel ELSE raw

\* The start of the dwell time, as an elevated event at ts finds or sets it.
ElevatedFrom(ts) == IF elevatedSince = NoTime THEN ts ELSE elevatedSince

\* Mutant of Unconfirmed: the dwell time is over one time unit early.
UnconfirmedShort(ts, level) == level # "HOLD" /\ ts - ElevatedFrom(ts) < Dwell - 1

\* The dwell time has not yet elapsed at ts; hold-safe is never held back.
Unconfirmed(ts, level) == level # "HOLD" /\ ts - ElevatedFrom(ts) < Dwell

\* Build the frame and count it. The guardian's level and state are given.
Publish(ts, raw, tamper, level, st) ==
  /\ state' = st
  /\ frame' = [seq |-> seq, ts |-> ts, raw |-> raw, tamper |-> tamper,
               level |-> level, state |-> st]
  /\ seq' = seq + 1

------------------------------------------------------------------------------
\* The deployment lifecycle hides every level but HOLD, and returns early:
\* the dwell timer, the cooldown and the last level stay as they were.
Suppress(ts, raw, tamper) ==
  /\ Suppressed
  /\ Publish(ts, raw, tamper, IF raw = "HOLD" THEN "HOLD" ELSE "CLEAR", phase)
  /\ UNCHANGED memory

\* An elevated level inside the dwell time is published as YELLOW.
Confirm(ts, raw, tamper) ==
  LET level == Effective(ts, raw) IN
  /\ ~Suppressed
  /\ level \in Critical
  /\ Unconfirmed(ts, level)
  /\ elevatedSince' = ElevatedFrom(ts)
  /\ lastLevel' = "YELLOW"
  /\ Publish(ts, raw, tamper, "YELLOW", "confirming")
  /\ UNCHANGED cooldownUntil

\* Mutant of Alert: every published alert starts the cooldown anew.
AlertRestartsCooldown(ts, raw, tamper) ==
  LET level == Effective(ts, raw) IN
  /\ ~Suppressed
  /\ level \in Critical
  /\ ~Unconfirmed(ts, level)
  /\ elevatedSince' = ElevatedFrom(ts)
  /\ cooldownUntil' = ts + Cooldown
  /\ lastLevel' = level
  /\ Publish(ts, raw, tamper, level, IF level = "HOLD" THEN "hold_safe" ELSE "alerting")

\* An elevated level that is confirmed, or hold-safe, is published as it is.
Alert(ts, raw, tamper) ==
  LET level == Effective(ts, raw) IN
  /\ ~Suppressed
  /\ level \in Critical
  /\ ~Unconfirmed(ts, level)
  /\ elevatedSince' = ElevatedFrom(ts)
  /\ lastLevel' = level
  /\ Publish(ts, raw, tamper, level, IF level = "HOLD" THEN "hold_safe" ELSE "alerting")
  /\ UNCHANGED cooldownUntil

\* YELLOW restarts the dwell timer at the present event.
Watch(ts, raw, tamper) ==
  /\ ~Suppressed
  /\ Effective(ts, raw) = "YELLOW"
  /\ elevatedSince' = ts
  /\ lastLevel' = "YELLOW"
  /\ Publish(ts, raw, tamper, "YELLOW", "watch")
  /\ UNCHANGED cooldownUntil

\* Mutant of StandDown: the dwell timer is not stopped.
StandDownKeepsDwell(ts, raw, tamper) ==
  LET clearing == lastLevel \in Threat IN
  /\ ~Suppressed
  /\ Effective(ts, raw) = "CLEAR"
  /\ cooldownUntil' = IF clearing THEN ts + Cooldown ELSE cooldownUntil
  /\ lastLevel' = "CLEAR"
  /\ Publish(ts, raw, tamper, "CLEAR", IF clearing THEN "cooldown" ELSE "watch")
  /\ UNCHANGED elevatedSince

\* CLEAR stops the dwell timer; right after a threat it starts the cooldown.
StandDown(ts, raw, tamper) ==
  LET clearing == lastLevel \in Threat IN
  /\ ~Suppressed
  /\ Effective(ts, raw) = "CLEAR"
  /\ elevatedSince' = NoTime
  /\ cooldownUntil' = IF clearing THEN ts + Cooldown ELSE cooldownUntil
  /\ lastLevel' = "CLEAR"
  /\ Publish(ts, raw, tamper, "CLEAR", IF clearing THEN "cooldown" ELSE "watch")

\* SentryGuardian.process(event): the event carries the wall clock's time.
Process(ts, raw, tamper) ==
  \/ Suppress(ts, raw, tamper)
  \/ Confirm(ts, raw, tamper)
  \/ Alert(ts, raw, tamper)
  \/ Watch(ts, raw, tamper)
  \/ StandDown(ts, raw, tamper)

SensorEvent ==
  /\ seq < MaxFrames
  /\ \E step \in ClockSteps, scored \in Levels, tamper \in BOOLEAN :
       /\ clock + step \in Times
       /\ clock' = clock + step
       /\ Process(clock + step, Raw(scored, tamper), tamper)
  /\ UNCHANGED phase

------------------------------------------------------------------------------
\* DeploymentManager: a launch builds the topology, which the mesh join and the
\* post-landing checks need; each may be called again at any later time.
Launched == phase # "stowed"

\* Mutant of SimulateLaunch: the phase is left at its intermediate value.
LaunchNeverLands ==
  /\ DeploymentEnabled
  /\ phase' = "deploying"
  /\ UNCHANGED <<seq, state, memory, clock, frame>>

SimulateLaunch ==
  /\ DeploymentEnabled
  /\ phase' = "deployed"
  /\ UNCHANGED <<seq, state, memory, clock, frame>>

RunMeshAutoJoin ==
  /\ DeploymentEnabled /\ Launched
  /\ phase' = "chain_joining"
  /\ UNCHANGED <<seq, state, memory, clock, frame>>

\* At least one node passed, which takes a join since the launch (Deployment.tla);
\* with none the phase stays what it was.
RunPostLandingChecks ==
  /\ DeploymentEnabled
  /\ phase \in {"chain_joining", "operational"}
  /\ phase' = "operational"
  /\ UNCHANGED <<seq, state, memory, clock, frame>>

\* The process is restarted: nothing of the guardian is persisted.
Restart ==
  /\ seq' = 0
  /\ state' = "watch"
  /\ elevatedSince' = NoTime
  /\ cooldownUntil' = 0
  /\ lastLevel' = "CLEAR"
  /\ phase' = "stowed"
  /\ frame' = NoFrame
  /\ UNCHANGED clock

Init ==
  /\ seq = 0
  /\ state = "watch"
  /\ elevatedSince = NoTime
  /\ cooldownUntil = 0
  /\ lastLevel = "CLEAR"
  /\ phase = "stowed"
  /\ clock = 0
  /\ frame = NoFrame

Next ==
  \/ SensorEvent
  \/ SimulateLaunch
  \/ RunMeshAutoJoin
  \/ RunPostLandingChecks
  \/ Restart

Spec == Init /\ [][Next]_vars
==============================================================================
