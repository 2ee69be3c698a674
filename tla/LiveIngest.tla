------------------------------ MODULE LiveIngest ------------------------------
(***************************************************************************)
(* The live service of one node: run_live_ingest (sentry/ingest.py) with    *)
(* the tamper response (sentry/tamper_response.py), the audit logger, the   *)
(* SQLite store and the mesh handler, under systemd, which restarts the     *)
(* process when it fails.                                                   *)
(*                                                                         *)
(* The loop is sequential; what makes it hard is that it can stop between   *)
(* any two of its effects, and that files survive while memory does not. So *)
(* each effect is a step of its own, and two actions may come between any   *)
(* two. Crash is the death of the process alone, by a kill or an exception  *)
(* no handler catches: every file stays as it is. PowerLoss also takes the  *)
(* lines that are not on the disk yet: the loop appends to its files        *)
(* without an fsync. The guardian's state machine is module Guardian; here  *)
(* its frame may have any level that the guardian can publish.             *)
(***************************************************************************)
EXTENDS AlertLevels, AuditChain, AuditStore, MeshHandler, Functions

CONSTANTS
  Environment,       \* SENTRY_ENV of /etc/sentry/environment
  MeshKeySet,        \* does that file set SENTRY_MESH_SIGN_KEY?
  OperatorKey,       \* SENTRY_AUDIT_HMAC_KEY of /etc/sentry/environment
  DevKey,            \* the built-in development key
  DryRun,            \* tamper_response.dry_run
  WipesEnvFile,      \* does wipe_paths name /etc/sentry/environment, writable?
  HasDuration,       \* was a duration given? (the service runs without one)
  ChainPhase,        \* is the deployment manager enabled? (its phase is "stowed")
  Inputs,            \* the levels the guardian can give an untampered frame
  MaxFrames, MaxBoots, MaxCrashes   \* bounds: frames of a boot, boots, crashes

ASSUME EnvironmentAssumption ==
  /\ Keys = {OperatorKey, DevKey} /\ OperatorKey # DevKey
  /\ {MeshKeySet, DryRun, WipesEnvFile, HasDuration, ChainPhase} \subseteq BOOLEAN
  /\ Inputs \subseteq Levels
ASSUME IngestBoundAssumption == {MaxFrames, MaxBoots, MaxCrashes} \subseteq Nat

VARIABLES
  pc,          \* the next effect of the loop; "down" when no process runs
  boot,        \* which process this is
  frameSeq,    \* the guardian's _seq
  alert,       \* the frame being handled
  entry,       \* its audit entry, a sequence of length one or none
  env,         \* the process environment: "full"; "scrubbed" of the audit key;
               \* "empty" if the file it was loaded from was zeroed
  envFile,     \* /etc/sentry/environment: "intact", "zeroed" or "gone"
  alertsFile,  \* sentry_live_alerts.jsonl
  auditFile,   \* sentry_live_audit.jsonl
  disk,        \* what a power loss cannot take: so many lines of the log, the
               \* audit file and the spool, and a state of the environment file
  taken,       \* history: the alerts power losses took from log and audit file
  crashes      \* crashes and power losses so far, for the bound

volatile == <<frameSeq, alert, entry, env>>
files == <<envFile, alertsFile, auditFile, disk, taken>>
ingestVars == <<logger, rows, handler, meshFiles, pc, boot, volatile, files, crashes>>

------------------------------------------------------------------------------
\* The mesh key is the audit key unless one is set; in production (to p2p_mesh.py
\* that is SENTRY_ENV=production only) having neither is an exception.
CannotSign == Environment = "production" /\ ~MeshKeySet /\ env = "scrubbed"

Alert(level, tamper) == [boot |-> boot, seq |-> frameSeq, level |-> level, tamper |-> tamper]
AlertContent(a) == [event |-> "alert", of |-> a]
BootContent(b) == [event |-> "boot", of |-> b]
WipeContent(a) == [event |-> "tamper_wipe", of |-> a]

\* Mutant of Audited: only hold-safe is written to the chain.
AuditedHoldOnly(a) == a.level = "HOLD"

\* What goes to the HMAC chain, and what goes on the mesh.
Audited(a) == a.level \in Critical \/ a.tamper
Relayed(a) == a.level \in Threat

\* The alerts of the entries in the audit file.
AuditedAlerts == {e.content.of : e \in Range(auditFile)}

NoAlert == [boot |-> 0, seq |-> 0, level |-> "CLEAR", tamper |-> FALSE]

------------------------------------------------------------------------------
(***************************************************************************)
(* Start and end of a process.                                             *)
(***************************************************************************)

\* Mutant of Boot: the logger goes on with the numbers of the process before it.
BootResumesNumbers ==
  /\ pc = "down"
  /\ boot < MaxBoots
  /\ envFile # "gone"
  /\ boot' = boot + 1
  /\ key' = IF envFile = "intact" THEN OperatorKey ELSE DevKey
  /\ nextSeq' = nextSeq + 1
  /\ prevHash' = Mac(key', nextSeq, BootContent(boot + 1), GENESIS_HASH)
  /\ env' = IF envFile = "intact" THEN "full" ELSE "empty"
  /\ frameSeq' = 0
  /\ entry' = <<>>
  /\ radio' \in BOOLEAN
  /\ hold' = FALSE
  /\ pc' = "sample"
  /\ UNCHANGED <<rows, air, meshFiles, alert, files, crashes>>

\* systemd needs the environment file. The logger, the guardian and the mesh
\* handler are constructed anew, and the boot entry is appended to the chain;
\* it is not written to the audit file.
Boot ==
  LET k == IF envFile = "intact" THEN OperatorKey ELSE DevKey
  IN /\ pc = "down"
     /\ boot < MaxBoots
     /\ envFile # "gone"
     /\ boot' = boot + 1
     /\ key' = k
     /\ nextSeq' = 1
     /\ prevHash' = Mac(k, 0, BootContent(boot + 1), GENESIS_HASH)
     /\ env' = IF envFile = "intact" THEN "full" ELSE "empty"
     /\ frameSeq' = 0
     /\ entry' = <<>>
     /\ radio' \in BOOLEAN
     /\ hold' = FALSE
     /\ pc' = "sample"
     /\ UNCHANGED <<rows, air, meshFiles, alert, files, crashes>>

\* The process is gone; the files and what is on the air stay.
Die ==
  /\ pc' = "down"
  /\ UNCHANGED <<logger, rows, handler, meshFiles, boot, volatile, files>>

\* A kill, or an exception of a file operation.
Crash ==
  /\ pc \notin {"down", "done"}
  /\ crashes < MaxCrashes
  /\ crashes' = crashes + 1
  /\ Die

\* The kernel has written back some of the lines that the loop appended without
\* an fsync, of each file on its own, and the environment file as it was when it
\* was last synced or as it is; nothing else is there when the power is back.
\* The rows of the store are: see AuditStore.
PowerLoss ==
  /\ crashes < MaxCrashes
  /\ crashes' = crashes + 1
  /\ disk' \in [log   : disk.log..Len(alertsFile),
               audit : disk.audit..Len(auditFile),
               spool : disk.spool..Len(spool),
               env   : {disk.env, envFile}]
  /\ alertsFile' = SubSeq(alertsFile, 1, disk'.log)
  /\ auditFile' = SubSeq(auditFile, 1, disk'.audit)
  /\ spool' = SubSeq(spool, 1, disk'.spool)
  /\ envFile' = disk'.env
  /\ taken' = [log   |-> taken.log \cup (Range(alertsFile) \ Range(alertsFile')),
               audit |-> taken.audit \cup (AuditedAlerts \ AuditedAlerts')]
  /\ pc' = "down"
  /\ UNCHANGED <<logger, rows, handler, inbox, boot, volatile>>

\* The duration given on the command line is over.
Finish ==
  /\ HasDuration
  /\ pc = "sample"
  /\ pc' = "done"
  /\ UNCHANGED <<logger, rows, handler, meshFiles, boot, volatile, files, crashes>>

------------------------------------------------------------------------------
(***************************************************************************)
(* One pass through the loop.                                              *)
(***************************************************************************)

\* Mutant of Sample: the entry of the frame before is not reset.
SampleKeepsEntry ==
  /\ pc = "sample"
  /\ frameSeq < MaxFrames
  /\ \E level \in Inputs, tamper \in BOOLEAN :
       /\ tamper => level = "HOLD"
       /\ ChainPhase => level \in {"CLEAR", "HOLD"}
       /\ alert' = Alert(level, tamper)
       /\ pc' = IF tamper THEN "tamper" ELSE "process"
  /\ UNCHANGED <<logger, rows, handler, meshFiles, boot, frameSeq, entry, env, files, crashes>>

\* array.sample(), the validation of the event, and the level the guardian will
\* give it. Tamper is HOLD; before the chain is operational the rest is CLEAR.
Sample ==
  /\ pc = "sample"
  /\ frameSeq < MaxFrames
  /\ \E level \in Inputs, tamper \in BOOLEAN :
       /\ tamper => level = "HOLD"
       /\ ChainPhase => level \in {"CLEAR", "HOLD"}
       /\ alert' = Alert(level, tamper)
       /\ pc' = IF tamper THEN "tamper" ELSE "process"
  /\ entry' = <<>>
  /\ UNCHANGED <<logger, rows, handler, meshFiles, boot, frameSeq, env, files, crashes>>

\* Mutant of HandleTamper: the files are wiped, the key in memory is not.
HandleTamperKeepsKey ==
  /\ pc = "tamper"
  /\ AppendEntry(WipeContent(alert))
  /\ pc' = IF DryRun THEN "process" ELSE "wipe_spool"
  /\ UNCHANGED <<rows, handler, meshFiles, boot, volatile, files, crashes>>

\* handle_tamper() appends its entry to the chain, which the loop never writes;
\* unless it is a dry run it then wipes the key in memory.
HandleTamper ==
  /\ pc = "tamper"
  /\ nextSeq' = nextSeq + 1
  /\ prevHash' = Entry(WipeContent(alert)).hash
  /\ key' = IF DryRun THEN key ELSE ZeroKey
  /\ env' = IF env = "full" /\ ~DryRun THEN "scrubbed" ELSE env
  /\ pc' = IF DryRun THEN "process" ELSE "wipe_spool"
  /\ UNCHANGED <<rows, handler, meshFiles, boot, frameSeq, alert, entry, files, crashes>>

\* The spool file is filled with zeros, synced and deleted.
WipeSpool ==
  /\ pc = "wipe_spool"
  /\ \/ spool' = <<>> /\ disk' = [disk EXCEPT !.spool = 0]
     \/ SpoolMayFail /\ UNCHANGED <<spool, disk>>
  /\ pc' = IF WipesEnvFile THEN "zero_env" ELSE "process"
  /\ UNCHANGED <<logger, rows, handler, inbox, boot, volatile, envFile, alertsFile, auditFile,
                 taken, crashes>>

\* So is the environment file, in two effects: the zeros are synced; the deletion
\* is not, and it may fail.
ZeroEnvFile ==
  /\ pc = "zero_env"
  /\ \/ envFile = "gone" /\ UNCHANGED <<envFile, disk>>
     \/ envFile # "gone" /\ envFile' = "zeroed" /\ disk' = [disk EXCEPT !.env = "zeroed"]
  /\ pc' = "unlink_env"
  /\ UNCHANGED <<logger, rows, handler, meshFiles, boot, volatile, alertsFile, auditFile, taken,
                 crashes>>

UnlinkEnvFile ==
  /\ pc = "unlink_env"
  /\ envFile' \in {envFile, "gone"}
  /\ pc' = "process"
  /\ UNCHANGED <<logger, rows, handler, meshFiles, boot, volatile, alertsFile, auditFile, disk,
                 taken, crashes>>

\* guardian.process(event) counts the frame.
GuardianProcess ==
  /\ pc = "process"
  /\ frameSeq' = frameSeq + 1
  /\ pc' = "store"
  /\ UNCHANGED <<logger, rows, handler, meshFiles, boot, alert, entry, env, files, crashes>>

Store ==
  /\ pc = "store"
  /\ StoreAppend(alert)
  /\ pc' = "validate"
  /\ UNCHANGED <<logger, handler, meshFiles, boot, volatile, files, crashes>>

\* The schema knows no deployment phase as a guardian_state: an exception.
ValidateAlert ==
  /\ pc = "validate"
  /\ pc' = IF ChainPhase THEN "down" ELSE "audit"
  /\ UNCHANGED <<logger, rows, handler, meshFiles, boot, volatile, files, crashes>>

\* Mutant of AuditAlert: every frame is chained, and only the critical ones are kept.
ChainEveryFrame ==
  /\ pc = "audit"
  /\ AppendEntry(AlertContent(alert))
  /\ entry' = IF Audited(alert) THEN <<Entry(AlertContent(alert))>> ELSE <<>>
  /\ pc' = "write_alert"
  /\ UNCHANGED <<rows, handler, meshFiles, boot, frameSeq, alert, env, files, crashes>>

AuditAlert ==
  /\ pc = "audit"
  /\ IF Audited(alert)
       THEN AppendEntry(AlertContent(alert)) /\ entry' = <<Entry(AlertContent(alert))>>
       ELSE UNCHANGED <<logger, entry>>
  /\ pc' = "write_alert"
  /\ UNCHANGED <<rows, handler, meshFiles, boot, frameSeq, alert, env, files, crashes>>

WriteAlert ==
  /\ pc = "write_alert"
  /\ alertsFile' = Append(alertsFile, alert)
  /\ pc' = "write_audit"
  /\ UNCHANGED <<logger, rows, handler, meshFiles, boot, volatile, envFile, auditFile, disk, taken,
                 crashes>>

\* Mutant of WriteAudit: a hold-safe entry is not written.
WriteThreatsOnly ==
  /\ pc = "write_audit"
  /\ auditFile' = IF Relayed(alert) THEN auditFile \o entry ELSE auditFile
  /\ pc' = "set_hold"
  /\ UNCHANGED <<logger, rows, handler, meshFiles, boot, volatile, envFile, alertsFile, disk, taken,
                 crashes>>

WriteAudit ==
  /\ pc = "write_audit"
  /\ auditFile' = auditFile \o entry
  /\ pc' = "set_hold"
  /\ UNCHANGED <<logger, rows, handler, meshFiles, boot, volatile, envFile, alertsFile, disk, taken,
                 crashes>>

\* Mutant of SetHold: every critical alert switches hold mode on.
SetHoldOnCritical ==
  /\ pc = "set_hold"
  /\ SetHoldMode(Audited(alert))
  /\ pc' = IF Relayed(alert) THEN "send" ELSE "sample"
  /\ UNCHANGED <<logger, rows, boot, volatile, files, crashes>>

SetHold ==
  /\ pc = "set_hold"
  /\ SetHoldMode(alert.level = "HOLD")
  /\ pc' = IF Relayed(alert) THEN "send" ELSE "sample"
  /\ UNCHANGED <<logger, rows, boot, volatile, files, crashes>>

\* The intel summary is signed before the radio or the spool is tried.
Send ==
  /\ pc = "send"
  /\ \/ CannotSign /\ Die
     \/ /\ ~CannotSign
        /\ SendAlert(alert)
        /\ pc' = "sample"
        /\ UNCHANGED <<logger, rows, boot, volatile, files>>
  /\ UNCHANGED crashes

------------------------------------------------------------------------------
Loop ==
  \/ Sample \/ HandleTamper \/ WipeSpool \/ ZeroEnvFile \/ UnlinkEnvFile
  \/ GuardianProcess \/ Store \/ ValidateAlert \/ AuditAlert
  \/ WriteAlert \/ WriteAudit \/ SetHold \/ Send

IngestInit ==
  /\ key = DevKey /\ nextSeq = 0 /\ prevHash = GENESIS_HASH
  /\ rows = <<>>
  /\ radio = FALSE /\ hold = FALSE /\ air = <<>> /\ spool = <<>> /\ inbox = <<>>
  /\ pc = "down" /\ boot = 0 /\ frameSeq = 0
  /\ alert = NoAlert /\ entry = <<>> /\ env = "empty"
  /\ envFile = "intact" /\ alertsFile = <<>> /\ auditFile = <<>>
  /\ disk = [log |-> 0, audit |-> 0, spool |-> 0, env |-> "intact"]
  /\ taken = [log |-> {}, audit |-> {}]
  /\ crashes = 0

IngestNext == Boot \/ Crash \/ PowerLoss \/ Finish \/ Loop

IngestSpec == IngestInit /\ [][IngestNext]_ingestVars

\* systemd starts the process, and a running process takes its next step; the
\* sensors deliver a sample in every pass, and nothing is bound to stop it.
FairIngestSpec == IngestSpec /\ WF_ingestVars(Boot) /\ WF_ingestVars(Loop)
==============================================================================
