--------------------------- MODULE GuardianMonitor ---------------------------
(***************************************************************************)
(* The guardian observed over time. The history variables of this module   *)
(* record what a reader of the alert stream would have to remember to judge *)
(* it; they follow each step of Guardian and never influence one. The      *)
(* properties of the guardian are stated over them.                        *)
(***************************************************************************)
EXTENDS Guardian

VARIABLES
  runStart,     \* time of the first frame of the present run of recorded levels
                \* that are not CLEAR
  rawSince,     \* time of the first event of the present run of critical inputs
  threatSince,  \* time of the first event of the present run of threats that no
                \* cooldown may suppress
  holdAt,       \* time of the latest hold-safe input
  breached      \* has a RED or HOLD input come in since the cooldown started?

history == <<runStart, rawSince, threatSince, holdAt, breached>>
monitorVars == <<vars, history>>

MonitorTypeOK ==
  /\ TypeOK
  /\ {runStart, rawSince, threatSince, holdAt} \subseteq Times \cup {NoTime}
  /\ breached \in BOOLEAN

------------------------------------------------------------------------------
\* The start of a run at time ts: kept while the run lasts, NoTime once it ends.
Run(start, goesOn, ts) ==
  IF ~goesOn THEN NoTime ELSE IF start = NoTime THEN ts ELSE start

\* A threat that is published whether or not a cooldown is running.
Unsuppressible(f) == f.raw = "RED" \/ (f.raw = "ORANGE" /\ f.ts >= cooldownUntil)

ForgetAll ==
  /\ runStart' = NoTime
  /\ rawSince' = NoTime
  /\ threatSince' = NoTime
  /\ holdAt' = NoTime
  /\ breached' = FALSE

\* A frame the guardian has recorded in its memory.
ObserveRecorded(f) ==
  /\ runStart' = Run(runStart, lastLevel' # "CLEAR", f.ts)
  /\ rawSince' = Run(rawSince, f.raw \in Critical, f.ts)
  /\ threatSince' = Run(threatSince, Unsuppressible(f), f.ts)
  /\ holdAt' = IF f.raw = "HOLD" THEN f.ts ELSE holdAt
  /\ breached' = (f.state # "cooldown" /\ (breached \/ f.raw \in {"RED", "HOLD"}))

\* A frame of a suppressed phase leaves no trace in the guardian's memory.
ObserveSuppressed(f) ==
  /\ rawSince' = NoTime
  /\ threatSince' = NoTime
  /\ holdAt' = IF f.raw = "HOLD" THEN f.ts ELSE holdAt
  /\ UNCHANGED <<runStart, breached>>

MonitorInit ==
  /\ Init
  /\ runStart = NoTime
  /\ rawSince = NoTime
  /\ threatSince = NoTime
  /\ holdAt = NoTime
  /\ breached = FALSE

MonitorNext ==
  \/ SensorEvent /\ Suppressed /\ ObserveSuppressed(frame')
  \/ SensorEvent /\ ~Suppressed /\ ObserveRecorded(frame')
  \/ (SimulateLaunch \/ RunMeshAutoJoin \/ RunPostLandingChecks) /\ UNCHANGED history
  \/ Restart /\ ForgetAll

MonitorSpec == MonitorInit /\ [][MonitorNext]_monitorVars

------------------------------------------------------------------------------
\* The time from a start to the latest frame is at least d.
Spans(start, d) == start # NoTime /\ frame.ts - start >= d

(***************************************************************************)
(* No threat is published out of the blue: when ORANGE or RED goes out, the *)
(* guardian has been away from CLEAR without interruption for the whole    *)
(* dwell time. It is the dwell confirmation as the code implements it,     *)
(* across YELLOW events, cooldowns, hold-safe frames and redeployments; it *)
(* needs a wall clock that does not run backwards.                         *)
(***************************************************************************)
ConfirmedEscalation == frame.level \in Threat => Spans(runStart, Dwell)

(***************************************************************************)
(* No threat is lost: a threat that no cooldown may suppress and that      *)
(* lasts for the dwell time without interruption is published, at its own  *)
(* level, whatever preceded it.                                            *)
(***************************************************************************)
SustainedThreatPublished == Spans(threatSince, Dwell) => frame.level = frame.raw

(***************************************************************************)
(* The cooldown is quiet: until a RED or HOLD input breaks it, a low-tier  *)
(* event inside a cooldown is published as CLEAR.                          *)
(***************************************************************************)
QuietCooldown ==
  frame.raw \in LowTier /\ frame.ts < cooldownUntil /\ ~breached => frame.level = "CLEAR"

(***************************************************************************)
(* Hold-safe ends: a HOLD that repeats the level of an earlier frame in a  *)
(* cooldown, with neither tamper nor jamming behind it, is published only  *)
(* within one cooldown time of the last event that did call for hold-safe. *)
(***************************************************************************)
LatchedHoldIsBounded ==
  frame.level = "HOLD" =>
    holdAt # NoTime /\ (frame.raw = "HOLD" \/ frame.ts - holdAt < Cooldown)

(***************************************************************************)
(* From a recorded CLEAR the guardian never goes to a threat in one frame, *)
(* even if the wall clock is set back or jumps ahead between two events:   *)
(* the dwell timer is off whenever the recorded level is CLEAR.            *)
(***************************************************************************)
CalmNeverJumps == [][lastLevel = "CLEAR" => lastLevel' \notin Threat]_monitorVars
==============================================================================
