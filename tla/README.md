# Verification of the SENTRY node

TLA+ models of the SENTRY node software (`implementation/src/sentry`) and of the
tools that vouch for it, the TLC configurations that check them on small instances,
and proofs that TLAPS checks for every value of the constants. Paths below are
relative to the repository; `sentry/` stands for `implementation/src/sentry/`.

## 1. The system

A node samples passive sensors, fuses them into a score, lets a guardian turn the
score into an alert level, records the alert as evidence and relays threats to
its neighbours on a LoRa mesh. One process per node, one thread, started by
systemd behind an integrity check. Around it stand the tools that say the node is
fit: acceptance gates, a report pipeline, a signed GPU sweep. What makes all this
hard is not concurrency but *state that outlives a step*: timers and levels from
earlier frames, files that survive the memory that described them, reports that
survive the checkout they are about, a wipe, a crash or a power loss between two
effects, and a chain of nodes that is launched, joined and tested in stages.

| Component | Source | State | Operations |
|---|---|---|---|
| Guardian | `sentry/guardian.py` | `_seq`, `_state`, `_elevated_since`, `_cooldown_until`, `_last_level` | `process(event)` |
| Fusion, scoring | `sentry/fusion.py`, `scoring.py` | none | event to level |
| Sensor array | `sentry/hardware/live_array.py` | duty cycle, adapters | `sample` |
| Detectors, adapters | `sentry/sensors/`, `sentry/hardware/` | RF index, baselines and drift; ghost rows and verdict; latest motion; latest picture | `read`, `sample`, `scan_jsonl`, `probe` |
| Simulated sensors | `sentry/simulation/synthetic.py` | generator | `sample` |
| Deployment manager | `sentry/deployment/manager.py` | phase, topology, join result, report | launch, mesh join, post-landing checks |
| Chain and built-in test | `sentry/deployment/chain_topology.py`, `post_landing.py`, `physics.py` | nodes: operational, joined | join and test of each node |
| Live ingest | `sentry/ingest.py` | position in the loop, two JSONL files | one pass per sample |
| Tamper response | `sentry/tamper_response.py` | key, environment, spool, environment file | `handle_tamper` |
| Audit chain | `sentry/audit/hmac_chain.py` | key buffer, `_seq`, `_prev_hash` | append, rotate, wipe, verify |
| Audit store | `sentry/audit/sqlite_store.py` | rows | append with pruning |
| Mesh relay | `sentry/networking/` | hold mode, radio, spool, inbox, peers | `send_alert`, `set_hold_mode`, `chain_auto_join` |
| Units, integrity check | `deploy/`, `scripts/generate_manifest.py` | manifest, environment file, unit states | boot, check, wipe, restart |
| Acceptance gates, power | `validation/run_gate.py`, `sentry/cli.py`, `sentry/sensors/power_metrics.py` | reports | G1 to G5, `--probe` |
| Report pipeline | `scripts/collect_ci_reports.py`, `build_ci_summary.py`, `publish_results.py`, `.github/workflows/ci.yml` | files of five gates, summary, published results | collect, rebuild, publish, CI job |
| GPU sweep | `scripts/runpod_validation_sweep.py` | results, database rows, manifest | one run of a chain of gates |
| Chaos parser | `sentry/chaos.py` | bounded window | `parse_line`, `parse_file` |
| Failure modes, GPU batch | `sentry/failure_modes.py`, `sentry/gpu/` | none | - |

The live loop calls the array, the tamper response, the guardian, the store, the
audit chain, the two files and the mesh handler, in that order, in every pass.
The guardian asks the deployment manager whether alerts are suppressed. The
array's whisper detector reads the files the loop writes. Nothing of the
guardian, the manager, the array or the audit logger is persisted.

What each must get right:

* guardian: no threat without confirmation, no lasting threat unpublished, a
  quiet cooldown, no hold-safe without end;
* scoring: more evidence never lowers the level;
* array and detectors: what is reported was there, recently, whichever window
  each channel was read in; a node with nothing to report stays calm;
* deployment: the phase is backed by the join and the test of *this* launch;
* ingest: what is relayed is on record; records agree, in the order the loop
  gives them; a critical frame gets through; nothing is relayed twice;
* tamper response: a wiped key is not used again;
* audit chain: a file that verifies has nothing missing;
* mesh relay: every alert ends in one place, a suppressed one never goes out;
* units: a guardian runs only code that was checked, and with no key that an
  alarm has ended;
* gates and reports: a PASS comes with its own evidence, and not with that of an
  earlier run.

## 2. The modules

| Module | Models |
|---|---|
| `AlertLevels` | levels, their order, and the sets of levels the code tests |
| `Guardian` | the guardian under the deployment phase, with restarts |
| `GuardianMonitor` | history of the alert stream, and the guardian's properties |
| `Scoring` | fusion and scoring, in exact integers |
| `Detectors` | each sensor and passive detector as a function of its memory |
| `SensorWatch` | the array over a changing scene, with `Detectors`, `Scoring` and `Guardian`; its properties |
| `DeploymentPhases` | the abstract phases of a chain, as the guardian relies on them |
| `DeploymentPhysics` | which nodes of a thrown line survive |
| `Deployment` | the manager with its nodes, and its properties |
| `AuditChain` | the audit logger's operations and `verify_chain` |
| `AuditTrail` | a logger with its file, under any caller |
| `AuditStore` | the pruned event table |
| `MeshHandler` | the operations of the mesh handler |
| `MeshRelay` | the handler under any caller |
| `LiveIngest` | the live service, composed of `AuditChain`, `AuditStore`, `MeshHandler` and the tamper response |
| `EvidenceLog` | the abstract records of a node, as a reader of its files relies on them |
| `IngestProperties` | the properties of the live service, and its refinement of `EvidenceLog` |
| `Reports` | gates, collection, CI summary, CI job and published results |
| `GpuSweep` | the GPU sweep in a workspace that outlives it |
| `Acceptance` | gates G1 to G5 and the built-in test, over the probes |
| `Fielding` | code, manifest, key and the two systemd units of a node in the field |
| `MC...` | constants for TLC |
| `...Proofs` | the TLAPS proofs (section 5) |

**Guardian.** The variables are those of the object, without the underscore. One
sensor event is one step, `SensorEvent`; its disjuncts `Suppress`, `Confirm`,
`Alert`, `Watch`, `StandDown` are the branches of `process()` in code order. The
scored level and the tamper flag are inputs here: every level may follow every
other, which is more than the scoring can produce, so what holds here holds for
every score. `SimulateLaunch`, `RunMeshAutoJoin` and `RunPostLandingChecks` change
only the phase. `frame` keeps the last alert with its input. Time is the event's
timestamp.

**Scoring.** A channel score of 1.0 is 1200 and weights and thresholds are in
hundredths, so that every product and comparison of the code is an exact integer
one. The rationale text is left out.

**Sensing.** `Detectors` has one operator per detector: what it remembers and meets
to what it remembers next and reports. Signal processing is reduced to classes (a
propeller, wind, silence, a failed recording; an encoded text of some entropy); the
RF sweeps are exact, in tenths of a decibel, because their slow drift is the point.
The scan of a file is a recursive function over its lines, `Strongest`.
`SensorWatch` is the live array: one step, `Watching`, is one sample with what the
loop makes of its level, guardian included; `SceneChanges`, `Note` (somebody writes
to a scanned file) and `Reboot` are the world. The monotonic clock is the wall
clock plus the uptime at the start. No RF band is ever swept by a radio, because
`RfSensor` cannot find one (`gate_claim`), so only the synthetic sweeps are there.

**Deployment.** The launch, the join and the test are public calls, in any order and
number; `FullDeploySequence` is the launch with the other two calls queued in
`calls`, which lets nothing but a restart come between them. The draws of the join
and of the test come from generators that each call seeds with the same number, so
which nodes would join (`joins`) and be found fit (`fit`) is chosen once, in `Init`.
The topology carries the number of its launch, which stands for the identity of the
Python object. The physics is computed as in the code, in hundredths of g. Nothing
of a launch fails, so the phase `deploying` is never seen from outside.
`Guardian` sees only the phase; its three deployment actions are those that
`DeploymentPhases` allows, and `ImplementsPhases` shows that the manager makes no
other: a test right after a launch cannot arm the chain, because no node of a fresh
topology has joined. The guardian's *Restart* and the manager's are the same event.

**Audit chain.** A keyed hash is the tuple of what it covers, so hashes agree
exactly when key and fields do. `AuditTrail` lets the caller write or drop each
entry, wipe, rotate and restart at any time; `issued`, all entries of all chains, is
a history variable.

**Mesh relay.** `sendText()` either takes a message or raises; that a radio may
raise after it has taken the message is outside the model (it would make the
spool a second copy). `radio` is `_available`, decided when the handler connects.

**Live service.** Every effect of a pass is a step (`pc` names the next one), and two
actions may come between any two. `Crash` is the end of the process alone, by a kill
or an exception nobody catches: every file stays whole. `PowerLoss` also takes what
is not on the disk. The loop appends to the alert log, the audit file and the spool
without an fsync, so each of them loses last lines of its own, independently of the
others. `disk` is what is safe: so many lines of each, and a state of the
environment file. A power loss picks how much more the kernel had written back by
then, and that is on the disk for good. `taken` remembers the alerts it took from log
and audit file. The zeros of a tamper wipe are synced (`tamper_response.py:16-26`),
the deletions are not, so a deleted environment file may be back as zeros. The spool
is emptied for good once its zeros are synced; a zeroed spool that is back holds no
message. The store loses nothing: `append()` returns after its connection, the only
one, is closed, which makes SQLite checkpoint and sync the database also under
`synchronous=NORMAL` (`sqlite_store.py:28-34`); a second program that keeps the
database open would take that away. `Boot` is systemd's restart; it loads the key from the environment file,
or takes the development key when the file is zeroed, and fails when the file is
gone. The schema's rejection of a deployment phase (`ValidateAlert`) and the
missing signing key (`CannotSign`) are the two exceptions the loop itself can
raise in a legal configuration. The code resets `entry` just before the audit
chain; the model does so in `Sample`, with nothing in between that reads it.

`EvidenceLog` forgets the process. It has four sequences of alerts - the log, the
audit file, what was heard, the spool - and the alert being handled, `current`. It
says that an alert is logged after all that is on record, attested and then relayed,
each once, only while it is handled, and that nothing is made up for when that is
over. Two things take something back: the wipe of the spool (`Forget`), and a power
loss (`Lose`), which cuts the ends of log, audit file and spool, each on its own, but
never below what it once left (`kept`), and nothing that was heard.
`ImplementsEvidenceLog` maps the files and the air of `LiveIngest` to it; every other
step is a stutter.

**Reports.** A checkout is a set of defects; what each gate does on them, and what
its file shows of them, is read off the gate. A file is the collection that wrote it
with the defects it was made from, so that a file that a crashed gate leaves behind
can be told from a new one.

**GPU sweep.** A stage is a gate, and every gate may raise; the test harness and the
mirror are not in the repository, so any outcome the script can read is a choice.
Results, rows and manifest outlive the run. `Prelude` is what comes before the `try`
(lines 554-558): an exception there ends the run with exit code 1, no report and no
clean-up. A write of the report may raise before it opens the file, half-way (`Torn`),
or at its end; of the PASS, that goes to the handler, of the failure manifest, it is
logged and swallowed. So a PASS of the run itself stays beside exit code 1 when both
writes fail that way, and an earlier run's when the run could not start or write.
`Interrupt` (Ctrl-C) passes the handler and cleans up; `KillSweep` does neither.
`faults` remembers which of these happened.

**Acceptance.** A build is the set of parts and packages on the node, and a probe is
a predicate on it. Power is in hundredths of a watt. `RunG1` and `RunProbe` are two
implementations of the same gate.

**Fielding.** The covered code is one version, the manifest names one. `Check`,
`WipeTarget` and `WipeEnds` are the one-shot unit; `StartGuardian` needs it passed or
skipped (`RequiredBy=`, `ConditionPathExists=`). A check that is skipped leaves its unit
inactive, and one that fails leaves it failed; in both cases systemd evaluates it again
at the next start, of the unit or of the guardian, so `Check` may come at any time until
it has passed (`RemainAfterExit=`). It may then pass, or fail and wipe, beside a
guardian that was started while the checker was missing: a requirement that *fails*
does not stop what already runs. A passed check that is stopped does
(`StopSecurity`). A running guardian writes the other two wipe targets anew
(`GuardianWrites`). Power may fail anywhere, and bring back what was not synced
(`back`): the deletion of a wiped file, as zeros; a file whose zeros failed to sync, as
it was. An environment file that the bootstrap script made is assumed to be on the
disk before power fails. `skipped` and `outlived` remember how the running guardian
came by its start, and that a check has failed since.

## 3. The runs

| Run | Shows |
|---|---|
| `guardian` | `ConfirmedEscalation`: ORANGE or RED only after `Dwell` away from CLEAR. `SustainedThreatPublished`: a threat that lasts for `Dwell`, and that no cooldown may hide, is published at its level. `QuietCooldown`, `LatchedHoldIsBounded`: what the cooldown may and may not repeat. `CalmNeverJumps`: never from CLEAR to a threat in one frame. |
| `sensing` | `QuietUntilDrift`: a benign node with little noise is CLEAR for 83 reads of the RF bands and on HOLD from the 158th (each time the drifting band is read), if the thresholds are above `LoudestQuiet`, which the shipped ones are. `AnomalyNeedsRecentTraffic`, `MotionIsReal`, `WhisperMissesOnlyMasked`: what a detector's memory may report, and miss. `AwakeThreatSeenAsleep`: an active window of at most two samples, shorter than the dwell (`ShortWindow`), never confirms a threat. `MoreEvidenceNeverLowers`. |
| `deployment` | `OperationalIsBacked`: the phase is operational only while the report and the join result are of the present launch and some node works, has joined and has passed. `LivePeersAreLive`: unless the line broke, a working node is told to join working nodes. `ImplementsPhases`: the manager refines `DeploymentPhases`. |
| `audit_trail` | `VerifiedMeansComplete`: a file that verifies is the beginning of one issued chain. `IssuedChainVerifies`, `WipeCutsTheChain`. |
| `mesh_relay` | `EveryAlertAccountedFor`: air, spool or inbox, exactly one. `SuppressedForGood`: hold mode is final for the alerts it met. |
| `ingest_crash` | `EvidenceBeforeRelay`, `LogsAgree`, `GapsAreControlEntries`, `WipedFileMeansWipedKey` and the refinement `ImplementsEvidenceLog`, over kills, power losses, restarts, a real wipe and a spool that may fail. What a neighbour heard is in the store whatever happened, and in log and audit file unless a power loss took its line; each of these two is compared with what it ever held, so that a line that was *never* written counts. |
| `ingest_live` | `CriticalFrameIsAudited`, `ThreatIsHandedOver`: liveness of a pass. |
| `evidence` | reports: `PublishedPassIsEvidenced`, `SummaryAgreesWithJob`. Sweep: `MasterReportTellsTheLatest`: which report an exit code comes with, and after which faults an earlier one may still be there; `PassIsItsOwn`. Gates: `ReportsTellOnlyVisibleParts`, `UnconfirmedSoakIsWhole`. Field: `GuardianRunsVouchedCode`; `AlarmEndsTheKey`: who may still hold a key after an alarm. |
| `chain_claim`, `stored_claim`, `wipe_claim`, `gate_claim` | each refutes a sentence of the documents or the code; see the findings. |

`evidence` checks four tools in one run. They share no file, so a behaviour is one
of one of them, chosen at the start, and the others stay where they are: their
product would say nothing more. The proofs are about each specification by itself.

Bounds. `guardian`: a unit is 1.5 s, `Dwell` is 2 (the default 3 s), `Cooldown` 4,
events 1 or 2 units apart, 9 units in all: enough for a confirmation, a cooldown
and a second episode inside and after it. `sensing`: the shipped weights,
thresholds, dwell and duty cycle; seven nodes (without hardware; of the bill of
materials; always awake; sampling every second right after power-on; the three
staged scenarios). The bare node gets 168 samples, which is past the point where
the drift settles it on HOLD; the always-awake one 20 of 10 s, so that the ghost
history fills and empties; the staged ones 6, the others 14, up to nearly three duty
cycles, with two
changes of scene, notes or restarts. `deployment`: 3 launches, eight chains
that cover every launch method, an unknown one, a line that breaks and a profile
with too few nodes; every subset of nodes may join and be fit. `audit_trail`: 4
entries, 3 chains, 2 keys: an entry can be moved between chains of the same and of
different keys. `mesh_relay`: 3 alerts, 1 registration. `ingest_crash`: 2 processes of 2 frames,
2 kills or power losses, a store of 2 rows, so pruning happens, a frame can precede and
follow a loss, and a second loss meets what the first one left; exceptions may end a
process too. A third process would take the run past 40 million states; what holds
for every number of them is proved. `ingest_live`: 2 processes of 2 frames. The levels of a frame are CLEAR (only logged), RED (relayed) and HOLD.
`evidence`: 2 collections and 2 changes of the checkout over one defect of each
kind; 3 sweeps of 2 rows; a finished build, each build with one part missing and a
desktop, with 2 reports and 1 refit; soaks on both sides of the two sampled
minutes; 3 boots, 3 changes and 2 keys. Two runs, reports or keys are what it takes
for one to be taken for another, and a third comes after both.

Deadlock is not checked where the system may stop: the live service after its
duration or with its environment file gone, and the watch and the tools at their
bounds.

Fairness, in `FairIngestSpec` only: weak fairness of `Boot`, because the unit has
`Restart=on-failure`, and of `Loop`, because the loop is `while True` and every
call in it returns. Nothing is assumed of crashes and power losses. The liveness
properties except a process that dies. No other module states liveness: nothing in the code makes a
person launch, test, collect or boot.

Restarts and messages are not bounded in the code; they are here, by `MaxBoots`,
`MaxLaunches`, `MaxCrashes`, `MaxFrames`, `MaxIssued`, `MaxChains`, `MaxHanded`,
`MaxJoins`, `MaxTime`, `MaxSamples`, `MaxChanges`, `MaxRuns`, `MaxEdits`,
`MaxSweeps`, `MaxGateRuns`, `MaxFittings`, `MaxKeys`, `MaxSwitchOns`.

## 4. The findings

* `chain_claim`: the boot and tamper entries are chained but never written, so the
  live audit file never verifies.
* `stored_claim`: with deployment enabled, the frame's `guardian_state` is not in
  the schema; the live service dies after the store and before the audit chain.
* `wipe_claim`: after a wipe, the first threat cannot be signed, the process dies,
  and its successor loads the wiped key from the environment file.
* `gate_claim`: a finished node fails G1. `RfSensor` asks `probe()` for the radio
  before the flag that `probe()` tests is set, and no default band can be tuned.

Met on the way and not given a run.

Guardian and scoring:
* YELLOW counts as dwell (`guardian.py:133`), so a threat can go out on its first
  event, where docs/system_datasheet.md:363 has a dwell before ORANGE and RED.
* In a cooldown that RED or HOLD has broken, a YELLOW event is *raised* to that
  level by the substitution meant to suppress it (`guardian.py:116-118`).
* A YELLOW between RED and CLEAR means no cooldown (`guardian.py:137`).
* A jamming HOLD passes a deployment phase, which docs/deployment_chain.md:79
  reserves to tamper. `jamming_hold_score` is read and never used.

Sensing:
* The synthetic 5.8 GHz level rises by 0.1 dB with each read against a baseline that
  never moves: a node that has nothing to detect ends on HOLD, against README.md:48
  "Quiet stays CLEAR." The RF sensor is read in both windows of the duty cycle.
* With the default 4 s of activity, a sample every 2 s and a dwell of 3 s, no threat
  is confirmed by awake samples alone.
* For 2 s after power-on the motion sensor always reports motion.
* The tamper probe uses its default pin 27, not the pin of the configuration.

Deployment:
* The peers of `mesh_peer_list` are not filtered, against its docstring
  (`chain_topology.py:156`), which shows on lost and on broken lines only.
* With the default soft pneumatic launch *no* node survives the 25 g of its receiver
  (`physics.py:138-142`): such a chain never becomes operational and its threats
  stay suppressed. `require_post_landing_check` is read and never used.

Mesh and live service:
* Neither JSONL file is synced, so after a power loss an alert that neighbours have heard
  may be in the store alone (`ingest.py:91-95`).
* HOLD alerts are never relayed, against docs/pi_deployment.md:131; nothing drains
  the spool; a payload with its intel is cut to 200 bytes of broken JSON.

Units and integrity check:
* The committed manifest is that of files with CRLF line ends, and two files match
  neither form: a node cloned with LF wipes its key at the first boot unless
  `generate_manifest.py` is run before (`deploy/firmware_integrity.py:15-25`).
* A wipe leaves the shipped audit database alone: it targets
  `/var/lib/sentry/audit_log.db`, and configs/sentry_node_config.json:84 stores
  elsewhere. The bootstrap script keeps an environment file of zeros.
* A guardian that was started while the checker was missing keeps running, with the key
  in its memory, when a later check fails and wipes the file.
* `mlockall` in a one-shot check protects nothing of the guardian's.

Gates and reports:
* G2 to G4 are presence gates; G1 and G3 do not notice a missing microphone, and no GPIO probe
  can tell a missing motion sensor or switch. The power gate cannot fail: the largest
  estimate is below its 5 W target.
* A collection writes "ok" for the tests only, so the published table says FAIL for
  simulation, build and audit even when they passed (`publish_results.py`).
* The GPU sweep swallows an error of the failure manifest and makes none for what
  precedes its `try`: an earlier PASS, signed with the same secret, then stays.
* A file that a crashed gate leaves behind is collected and published again. The rebuilt
  summary counts "BUILD READINESS: FAIL", a simulation that fails without a
  traceback, and an audit that fails in tamper, failure modes, live smoke or
  deployment as passed. The failure-modes check of the audit accepts every level.

## 5. The proofs

Each proof module is about one specification and holds for every value of its
constants, under the named assumptions in the modules that declare them.

**`GuardianProofs`**, for every `Dwell`, `Cooldown`, bound and clock:

* `MonitorTypes`: by one lemma per layer: `ProcessTypes` for the five branches,
  `TypeStep` for the guardian, `MonitorTypeStep` for the history.
* `EscalationIsConfirmed`, `ThreatIsPublished`: from `DwellInv`. The two properties
  are not inductive: they look at the latest frame, while what decides the next one
  is the dwell timer. `DwellInv` adds that the timer runs exactly while the last
  level is not CLEAR, that it never started before the run it belongs to, and that
  a run of unsuppressible threats never started before the timer.
* `CooldownIsQuiet`, `HoldIsBounded`: from `CooldownInv`, which adds that an
  unbroken cooldown has last level CLEAR, and that a cooldown that repeats HOLD ends
  within `Cooldown` of the last input that called for it.
* `NoJumpFromCalm`: from `TimerInv`, for any clock, if `Dwell > 0`.
* `GuardianNeverJumps` is the same of the guardian alone, so that it passes to what
  implements it. `PhasesAreTheGuardians`: each step of `DeploymentPhases` is one of
  the guardian's, so no manager that refines the phases does what these proofs rule
  out.

`EscalationIsConfirmed`, `ThreatIsPublished`, `CooldownIsQuiet` and `HoldIsBounded`
assume `Forward`: the clock is not set back (`ClockSteps \subseteq Nat`).

**`DeploymentProofs`**, for every set of configurations and every draw:

* `DeploymentTypes`, and `ArmedIsBacked` from `IInv`, which adds `PhaseMeaning`:
  what each phase says of the topology (none before the launch, nobody joined right
  after it, the join result about this topology once joined, and a test that would
  succeed again once armed). The last part is what lets the code leave the phase
  alone when a test finds no passing node: an armed chain never meets that.
* `ManagerImplementsPhases`: the refinement, step by step, from the same invariant.
  These leave the physics unexpanded: they hold whichever nodes survive.
* `PeersAreLive` is about the physics. `PeakBounds` puts the peak at any node of any
  line between 74.8 and 100 percent of the launch's own; since no launch method lies
  near the 25 g of the weakest part, a line survives whole or not at all
  (`AllOrNoneSurvive`), and `TopologyLanded` carries that to the topology at hand.
* `ThrownChainsStaySilent`: from the same bounds and `ArmedIsBacked`, only a
  hand-emplaced chain is ever operational. The default launch method is a throw.

They use the assumption that `None` is no record.

**`SensingProofs`**:

* `LevelGrows`: for all weights and thresholds, more evidence never lowers the level.
  It goes up the scoring: `WeightedGrows`, `ScoreGrows` over damping and the jamming
  floor, then the thresholds and the two detector rules. `WatchLevelGrows` applies it
  to the node on watch, whose events are typed evidence (`Evidenced`, an invariant
  over every detector).
* `WatchMotionIsReal`: from `MotionRemembered`: the high level that the adapter
  remembers is no later than the latest motion.
* `WatchTypes`: from `Evidenced` and `Remembered`; `NewestAppended` says once what a
  bounded history keeps (the ghost rows, the lines of a file, the latest frames).
* `AnomalyIsRecent`: from `TrafficHeard`: a row with fewer bytes than the counter now
  has was taken no later than the latest traffic, and rows follow one another within
  `RowGap` (`NextRowInTime`: the interval rounded up to the sampling, or sooner when
  forced). A verdict needs a first row below the last, so the oldest of at most
  `GhostWindow` rows is no later than that traffic.
* `ThreatShowedAsleep`: from `Paced`: the dwell timer, when it runs, was started now
  or at least a sample ago, and then the sample before was not CLEAR either. An awake
  threat is two samples old at least when the dwell is longer than a step, and of
  its two predecessors one was asleep (`AsleepBefore`).
* `QuietDriftsToHold`: from `StillDrifts`, which gives the drifting level after any
  number of reads exactly and both baselines to within the noise; then arithmetic on the sum
  (`LittleIsClear`) and on the jamming floor (`JamIsHold`).
* `WhisperIsAboutLines`: what a scan tells of `n` lines, for every `n`. No prover
  here does induction over data. Instead `LeastNumber` gives the least number of
  lines at which the statement fails, from the well-foundedness of `<`, and the line
  before it contradicts that. The same argument shows that `Strongest` is defined.
* `WatchIsAGuardian`: the node on watch refines `Guardian`, if the clock steps of the
  guardian include those of the sampling. This is what makes it sound to let *any*
  level follow any other in `Guardian`. `WatchNeverJumps` and, for the node with the
  history variables of `GuardianMonitor`, `WatchKeepsGuardiansWord` pass the
  guardian's theorems on.

**`AuditProofs`**: `TrailTypes`, with `IssuedBounded` for the bound on what is
issued; `VerifiedIsComplete`, `IssuedVerifies`, `WipeCuts`, from
`TrailInvariant`. That a list which verifies is the beginning of *one* chain looks
like an induction over the list; it is replaced by that of the specification, since
the file grows by one entry at a time. The part that carries it is
`HashFixesPrefix`: two issued chains that share a hash share everything up to it.

**`RelayProofs`**: `RelayTypes`, `SuppressionIsFinal` for every handler;
`AlertsAreAccountedFor` if `SpoolMayFail = FALSE` (a spool that cannot be written
loses the alert). `RelayInvariant` adds that alerts are numbered as they are handed
in, so that a new one is in no place yet.

**`IngestProofs`**, for any number of frames, processes, crashes and power losses, any
store size and any tamper configuration. The invariants say, by program counter, where
the frame at hand is on record, or was until a power loss; `FrameFacts` says once which
step touches which file, and `PowerLossFacts`, from `PrefixFacts`, what a power loss
leaves of a file. What log and audit file ever held only grows (`LoggedGrows`,
`EverAuditedGrows`), which is why the invariants are stated over that.

* `RelayedIsOnRecord` from `StoreFacts`, `LogFacts`, `AuditFacts` and `RelayFacts`:
  pruning keeps what is stored accounted for because rows ascend.
* `LogsTellTheSame`; `RelayedOnce` (no alert relayed twice or out of order);
  `WipedKeyIsGone` from `KeyIsGone`; `GapsAreKnown` from `GapFacts`: where the logger
  stands is the last line of the file or a control entry; `IngestTypes`, whose
  bound on sequence numbers needs `EntryCount`, two entries a frame.
* `RecordsImplementLog`: the refinement of `EvidenceLog`, from all of these and
  `RecordFacts`: the alert at hand comes after all that was ever logged until it is
  written, and is not attested until its entry is. `LossIsLose` maps a power loss, whose
  cut of the file of entries is a cut of the list of their alerts (`CutMap`).
* `PassEndsOnRecord`: an action property, the half of the two liveness properties
  that needs no fairness. `StepsLeft` counts what a pass has still to do; every step
  in a pass lowers it and keeps the alert, is the end of the process, or ends
  the pass with the alert audited and, if the spool can be written, handed over.
* `NoLiveFileVerifies`, from `NumberFacts`, and `ChainNodesRecordNothing`: what
  `chain_claim` and `stored_claim` show on one instance holds on every one. No audit
  file with an entry verifies, under any key; a chain node records and relays nothing.

**`FieldingProofs`**: `RunningCodeIsVouched` from `Vouched`; `AlarmedKeyIsGone` from
`KeyInvariant`: an alarmed key is in the file, or among what a power failure may bring
back in its place, only if the wipe spared it or has not come to it yet; zeros in either
place come from an alarm; and a running guardian that no check has failed under holds
the key of the file (`LoadedIsThere`: only one that skipped its check can outlive a check).

**`EvidenceProofs`**: `SoakIsWhole`, `ReportsAreBlind` from `GateInvariant` (with
`RadioNeverAvailable` and `PowerNeverFails` for every build), and `NoNodePassesG1`,
which is `gate_claim` for every build; `PublishedIsEvidenced`
from `ReportsInvariant`: a gate that passes leaves a new file, and a summary is
backed by the files until a later collection replaces them; `JobIsSummed`, gate by gate (`ShownBreaks`:
what the summary reads of a gate breaks that gate); `ReportIsTheLatest`,
`PassIsEarned` from `SweepInvariant`: who owns the results, the rows and the report at
each stage, and after which faults the report is not the run's own.

Every invariant and action property of the runs is a theorem. Model-checked only:
`CriticalFrameIsAudited` and `ThreatIsHandedOver`, whose other half, that the loop
does take its steps, is fairness, which with ENABLED cannot be reasoned about in
this prover; and the counterexamples.

The assumptions on constants are named where they are declared: durations, bounds
and limits are natural numbers (`TrailBounds`, `WatchBoundAssumption`), a history
of rows has room for four and a scan for one line (`DetectorAssumption`, as in the
constructors), a sampling interval is positive (`ConfigAssumption`), a note is a
classified text (`NoteAssumption`).

## 6. Plan and what is not modelled

Next, in this order: the chaos parser's window and its classification of lines; the
failure modes as inputs to `SensorWatch`; `Guardian` with `Deployment` in one
specification instead of over `DeploymentPhases`.

Not modelled, and why:

* chaos parser: a window that only test code fills, planned as above;
* failure modes and the stress test: fixed scripts over the components above, with
  no state of their own; `Reports` has their outcome as a defect;
* impact Monte Carlo and GPU batch code: sampling and numerics, no state;
* GPIO, audio, camera and radio drivers, power telemetry: input and output; the
  models take what an adapter can answer;
* simulation, demo and deployment commands of the command line: they drive other
  components and print;
* half lines: a power loss in the model leaves whole lines only. A torn last line would
  also spoil the line that the next process appends to it, and a reader
  (`hmac_chain.py:160-170`) would refuse the file; files with zeros in place of lost
  data are left out with it;
* one failing node among passing ones, after the post-landing test
  (`manager.py:96`): modelled, but no document says what it must do, so no property
  demands it.
