--------------------------- MODULE IngestProperties ---------------------------
(***************************************************************************)
(* What the live service promises about its evidence and its messages, and  *)
(* what the documents promise that the code does not keep.                 *)
(***************************************************************************)
EXTENDS LiveIngest, FiniteSets

PCs == {"down", "sample", "tamper", "wipe_spool", "zero_env", "unlink_env",
        "process", "store", "validate", "audit", "write_alert", "write_audit",
        "set_hold", "send", "done"}

AlertRecords == [boot : 0..MaxBoots, seq : 0..MaxFrames, level : Levels, tamper : BOOLEAN]

IngestTypeOK ==
  /\ pc \in PCs
  /\ key \in Keys \cup {ZeroKey}
  /\ nextSeq \in 0..(2 * MaxFrames + 1)
  /\ boot \in 0..MaxBoots
  /\ frameSeq \in 0..MaxFrames
  /\ alert \in AlertRecords
  /\ Range(rows) \cup Range(alertsFile) \subseteq AlertRecords
  /\ Len(entry) <= 1 /\ \A e \in Range(entry) : e.content = AlertContent(alert)
  /\ env \in {"full", "scrubbed", "empty"}
  /\ {envFile, disk.env} \subseteq {"intact", "zeroed", "gone"}
  /\ disk.log \in 0..Len(alertsFile)
  /\ disk.audit \in 0..Len(auditFile)
  /\ disk.spool \in 0..Len(spool)
  /\ taken.log \cup taken.audit \subseteq AlertRecords
  /\ hold \in BOOLEAN
  /\ crashes \in 0..MaxCrashes

------------------------------------------------------------------------------
RelayedAlerts == {m.alert : m \in Range(air) \cup Range(spool)}

Before(a, b) == a.boot < b.boot \/ (a.boot = b.boot /\ a.seq < b.seq)

\* An alert is in the store, or has been pruned in favour of newer ones.
Stored(a) ==
  \/ a \in Range(rows)
  \/ Len(rows) = MaxRows /\ \A r \in Range(rows) : Before(a, r)

\* What is in the alert log and the audit file, or was until a power loss: the
\* loop does not sync the two files, and each loses its own last lines.
EverLogged == Range(alertsFile) \cup taken.log
EverAudited == AuditedAlerts \cup taken.audit

(***************************************************************************)
(* Evidence before relay: whatever a neighbour hears, or finds in the       *)
(* spool, is already in the SQLite store, in the alert log and in the audit *)
(* file, wherever the process was interrupted before or since. The store    *)
(* keeps it through power losses; nothing but a power loss takes it from    *)
(* the other two.                                                          *)
(***************************************************************************)
EvidenceBeforeRelay ==
  \A a \in RelayedAlerts : Stored(a) /\ a \in EverLogged /\ a \in EverAudited

(***************************************************************************)
(* The alert log and the audit file tell the same story, power losses       *)
(* aside: every audited alert is in the alert log, and a critical alert of  *)
(* the log is missing from the audit file only if the process stopped       *)
(* between the two writes, so at most one per process.                     *)
(***************************************************************************)
LogsAgree ==
  LET missing == {a \in EverLogged : Audited(a)} \ EverAudited IN
  /\ EverAudited \subseteq EverLogged
  /\ \A a \in missing : a.boot = boot => a = alert /\ pc \in {"write_audit", "down"}
  /\ \A a, b \in missing : a.boot = b.boot => a = b

(***************************************************************************)
(* No alert is relayed twice or out of order, across restarts too: the      *)
(* handler's messages on the air and in the spool are disjoint, and each    *)
(* lists alerts in the order in which they were raised.                    *)
(***************************************************************************)
Ascending(ms) == \A i, j \in 1..Len(ms) : i < j => Before(ms[i].alert, ms[j].alert)

RelayOnceInOrder ==
  /\ Ascending(air)
  /\ Ascending(spool)
  /\ Range(air) \cap Range(spool) = {}

(***************************************************************************)
(* The records of the node implement EvidenceLog: however the loop is cut   *)
(* off and started again, an alert is entered in the audit file only while  *)
(* it is handled, and relayed, once, only after that; nothing is written    *)
(* late, twice or out of order; the wipe of the spool takes the spool back, *)
(* a power loss the last unsynced lines of a file, and nothing anything     *)
(* else.                                                                   *)
(***************************************************************************)
AlertsOf(messages) == [i \in DOMAIN messages |-> messages[i].alert]
AlertsOfEntries == [i \in DOMAIN auditFile |-> auditFile[i].content.of]

Evidence == INSTANCE EvidenceLog WITH
  Alerts  <- AlertRecords,
  Evident <- {a \in AlertRecords : Audited(a)},
  Urgent  <- {a \in AlertRecords : Relayed(a)},
  log     <- alertsFile,
  audit   <- AlertsOfEntries,
  heard   <- AlertsOf(air),
  waiting <- AlertsOf(spool),
  current <- IF pc \in {"write_audit", "set_hold", "send"} THEN <<alert>> ELSE <<>>,
  kept    <- [log |-> disk.log, audit |-> disk.audit, waiting |-> disk.spool]

ImplementsEvidenceLog == Evidence!Spec

(***************************************************************************)
(* The gaps of the audit file are known: if an entry does not follow the    *)
(* one before it in the file, the entry it does follow is one the loop never *)
(* writes, that of the boot or of a tamper wipe. No alert is skipped.      *)
(***************************************************************************)
GapsAreControlEntries ==
  \A i \in 1..Len(auditFile) :
    \/ i > 1 /\ auditFile[i].prev_hash = auditFile[i - 1].hash
    \/ auditFile[i].prev_hash[3].event \in {"boot", "tamper_wipe"}

(***************************************************************************)
(* A wipe that reaches the environment file has reached the memory first,   *)
(* and has reached the disk: from the moment the file is touched, no entry  *)
(* is ever signed with the operator's key again, by this process or by a    *)
(* later one, and no power loss brings the key back.                       *)
(***************************************************************************)
WipedFileMeansWipedKey ==
  envFile # "intact" => key # OperatorKey /\ disk.env # "intact"

(***************************************************************************)
(* Every critical frame that reaches the store reaches the audit file, and  *)
(* every threat among them the radio or the spool, unless the process dies. *)
(***************************************************************************)
CriticalFrameIsAudited ==
  pc = "store" /\ Audited(alert) ~> alert \in AuditedAlerts \/ pc = "down"

ThreatIsHandedOver ==
  pc = "store" /\ Relayed(alert) ~> alert \in RelayedAlerts \/ pc = "down"

------------------------------------------------------------------------------
\* "Hash chain: each entry links to previous via HMAC-SHA256": the audit file of
\* the live service verifies as a chain under the operator's key.
LiveAuditFileVerifies == VerifyChain(OperatorKey, auditFile)

\* "ORANGE, RED, HOLD, and tamper events are also appended to the immutable HMAC
\* JSONL chain": no process leaves a critical row in the store without its entry.
StoredCriticalIsAudited ==
  pc = "down" => \A a \in Range(rows) : Audited(a) => a \in AuditedAlerts

\* "set tamper_response.dry_run: false in production to wipe env keys": a key that
\* has been wiped is not used again.
WipedKeyStaysWiped == [][key = ZeroKey => key' # OperatorKey]_ingestVars
==============================================================================
