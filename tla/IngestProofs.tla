----------------------------- MODULE IngestProofs -----------------------------
(***************************************************************************)
(* Proofs about the live service, for any number of frames, processes,      *)
(* crashes and power losses, any store size and any configuration of the    *)
(* tamper response.                                                        *)
(*                                                                         *)
(* The invariants relate what the files say to where the loop stands, so    *)
(* they are stated by program counter. FrameFacts says once which step       *)
(* touches which file; with it each part of the invariant needs an argument  *)
(* only for the step that writes its file and for those that change the      *)
(* frame at hand.                                                           *)
(***************************************************************************)
EXTENDS IngestProperties, SequenceTheorems, TLAPS

\* Where the loop stands with the frame at hand.
Unwiped == {"wipe_spool", "zero_env", "unlink_env"}
Uncounted == {"tamper", "process"} \cup Unwiped
Unstored == Uncounted \cup {"store"}
Stage == {"validate", "audit", "write_alert"}
Unlogged == Unstored \cup Stage
Logged == {"write_audit", "set_hold", "send"}
Unsent == Unlogged \cup Logged
Counted == Unsent \ Uncounted
Writing == {"write_alert", "write_audit"}

Messages == [alert : AlertRecords]

\* The state's shape; the entry at hand is that of the alert at hand.
IngestShape ==
  /\ pc \in PCs /\ boot \in 0..MaxBoots /\ frameSeq \in 0..MaxFrames
  /\ crashes \in 0..MaxCrashes
  /\ key \in Keys \cup {ZeroKey} /\ hold \in BOOLEAN
  /\ env \in {"full", "scrubbed", "empty"} /\ envFile \in {"intact", "zeroed", "gone"}
  /\ alert \in AlertRecords
  /\ rows \in Seq(AlertRecords) /\ alertsFile \in Seq(AlertRecords)
  /\ air \in Seq(Messages) /\ spool \in Seq(Messages)
  /\ auditFile \in Seq(Range(auditFile))
  /\ disk \in [log   : 0..Len(alertsFile),
              audit : 0..Len(auditFile),
              spool : 0..Len(spool),
              env   : {"intact", "zeroed", "gone"}]
  /\ taken.log \subseteq AlertRecords

EntryAtHand ==
  /\ entry = <<>> \/ (entry = <<entry[1]>> /\ entry[1].content = AlertContent(alert))
  /\ pc \in Unstored \cup {"validate", "audit"} => entry = <<>>
  /\ pc \in Writing => (Audited(alert) <=> entry # <<>>)

\* The frame at hand is the present process's, counted or about to be.
Position ==
  /\ pc \in Unsent => alert.boot = boot
  /\ pc \in Uncounted => frameSeq = alert.seq /\ frameSeq < MaxFrames
  /\ pc \in Counted => frameSeq = alert.seq + 1
  /\ pc = "send" => Relayed(alert)

\* A frame that has been counted, by this process or an earlier one.
Past(a) == a.boot < boot \/ (a.boot = boot /\ a.seq < frameSeq)

IngestBase == IngestShape /\ EntryAtHand /\ Position

------------------------------------------------------------------------------
(***************************************************************************)
(* Lemmas about sequences.                                                 *)
(***************************************************************************)
LEMMA AppendRange ==
  ASSUME NEW S, NEW s \in Seq(S), NEW e \in S
  PROVE  /\ Append(s, e) \in Seq(S) /\ Len(Append(s, e)) = Len(s) + 1
         /\ \A i \in 1..Len(s) : Append(s, e)[i] = s[i]
         /\ Append(s, e)[Len(s) + 1] = e
         /\ Range(Append(s, e)) = Range(s) \cup {e}
<1>1. /\ Append(s, e) \in Seq(S) /\ Len(Append(s, e)) = Len(s) + 1
      /\ \A i \in 1..Len(s) : Append(s, e)[i] = s[i]
      /\ Append(s, e)[Len(s) + 1] = e
      /\ Len(s) \in Nat /\ DOMAIN s = 1..Len(s)
      /\ DOMAIN Append(s, e) = 1..(Len(s) + 1)
  OBVIOUS
<1>2. ASSUME NEW x \in Range(Append(s, e)) PROVE x \in Range(s) \cup {e}
  <2>1. PICK i \in 1..(Len(s) + 1) : x = Append(s, e)[i]
    BY <1>1 DEF Range
  <2>2. CASE i = Len(s) + 1
    BY <1>1, <2>1, <2>2
  <2>3. CASE i \in 1..Len(s)
    BY <1>1, <2>1, <2>3 DEF Range
  <2> QED BY <1>1, <2>2, <2>3
<1>3. ASSUME NEW x \in Range(s) PROVE x \in Range(Append(s, e))
  <2>1. PICK i \in 1..Len(s) : x = s[i]
    BY <1>1 DEF Range
  <2>2. i \in 1..(Len(s) + 1) /\ x = Append(s, e)[i]
    BY <1>1, <2>1
  <2> QED BY <1>1, <2>2 DEF Range
<1>4. e \in Range(Append(s, e))
  <2>1. Len(s) + 1 \in 1..(Len(s) + 1)
    BY <1>1
  <2> QED BY <1>1, <2>1 DEF Range
<1> QED BY <1>1, <1>2, <1>3, <1>4

LEMMA EmptyRange == Range(<<>>) = {}
BY DEF Range

LEMMA InRange ==
  ASSUME NEW S, NEW s \in Seq(S)
  PROVE  /\ Len(s) \in Nat /\ DOMAIN s = 1..Len(s) /\ Range(s) \subseteq S
         /\ \A i \in 1..Len(s) : s[i] \in Range(s)
         /\ \A x \in Range(s) : \E i \in 1..Len(s) : x = s[i]
<1>1. Len(s) \in Nat /\ DOMAIN s = 1..Len(s) /\ \A i \in 1..Len(s) : s[i] \in S
  BY LenProperties, ElementOfSeq
<1> QED BY <1>1 DEF Range

LEMMA OwnRange == ASSUME NEW S, NEW s \in Seq(S) PROVE s \in Seq(Range(s))
<1>1. Len(s) \in Nat /\ DOMAIN s = 1..Len(s) /\ s \in [1..Len(s) -> S]
  BY LenProperties
<1>2. s \in [1..Len(s) -> Range(s)]
  BY <1>1 DEF Range
<1> QED BY <1>1, <1>2, SeqDef

\* What a power loss leaves of a file.
LEMMA PrefixFacts ==
  ASSUME NEW S, NEW s \in Seq(S), NEW n \in 0..Len(s)
  PROVE  /\ SubSeq(s, 1, n) \in Seq(S) /\ Len(SubSeq(s, 1, n)) = n
         /\ \A i \in 1..n : SubSeq(s, 1, n)[i] = s[i] /\ i \in 1..Len(s)
         /\ Range(SubSeq(s, 1, n)) \subseteq Range(s)
<1> DEFINE t == SubSeq(s, 1, n)
<1>1. /\ Len(s) \in Nat /\ n \in Int /\ 1..n \subseteq 1..Len(s)
      /\ \A i \in 1..Len(s) : s[i] \in S /\ s[i] \in Range(s)
  BY InRange, ElementOfSeq
<1>2. /\ t \in Seq(S) /\ Len(t) = IF 1 <= n THEN n - 1 + 1 ELSE 0
      /\ \A i \in 1..(n - 1 + 1) : t[i] = s[1 + i - 1]
  BY <1>1, SubSeqProperties
<1>3. Len(t) = n /\ \A i \in 1..n : t[i] = s[i] /\ i \in 1..Len(s)
  BY <1>1, <1>2
<1>4. t \in Seq(S)
  BY <1>2
<1> HIDE DEF t
<1>5. Range(t) \subseteq Range(s)
  <2>1. ASSUME NEW x \in Range(t) PROVE x \in Range(s)
    <3>1. PICK i \in 1..n : x = t[i]
      BY <1>3, <1>4, InRange
    <3> QED BY <1>1, <1>3, <3>1
  <2> QED BY <2>1
<1> QED BY <1>3, <1>4, <1>5 DEF t

------------------------------------------------------------------------------
(***************************************************************************)
(* Which step writes which file.                                           *)
(***************************************************************************)
LEMMA FrameFacts ==
  ASSUME [IngestNext]_ingestVars
  PROVE  /\ UNCHANGED rows \/ Store
         /\ UNCHANGED alertsFile \/ WriteAlert \/ PowerLoss
         /\ UNCHANGED auditFile \/ WriteAudit \/ PowerLoss
         /\ UNCHANGED <<air, spool>> \/ WipeSpool \/ Send \/ PowerLoss
         /\ UNCHANGED <<alert, entry>> \/ Boot \/ Sample \/ AuditAlert
         /\ UNCHANGED alert \/ Sample
         /\ UNCHANGED <<boot, frameSeq>> \/ Boot \/ GuardianProcess
         /\ UNCHANGED envFile \/ ZeroEnvFile \/ UnlinkEnvFile \/ PowerLoss
         /\ UNCHANGED disk \/ WipeSpool \/ ZeroEnvFile \/ PowerLoss
         /\ UNCHANGED taken \/ PowerLoss
         /\ UNCHANGED key \/ Boot \/ HandleTamper
         /\ UNCHANGED <<key, nextSeq, prevHash>> \/ Boot \/ HandleTamper \/ AuditAlert
<1> USE DEF logger, handler, meshFiles, volatile, files
<1>1. CASE Boot
  BY <1>1 DEF Boot
<1>2. CASE Crash
  BY <1>2 DEF Crash, Die
<1>3. CASE Finish
  BY <1>3 DEF Finish
<1>4. CASE Sample
  BY <1>4 DEF Sample
<1>5. CASE HandleTamper
  BY <1>5 DEF HandleTamper
<1>6. CASE WipeSpool
  BY <1>6 DEF WipeSpool
<1>7. CASE ZeroEnvFile
  BY <1>7 DEF ZeroEnvFile
<1>8. CASE UnlinkEnvFile
  BY <1>8 DEF UnlinkEnvFile
<1>9. CASE GuardianProcess
  BY <1>9 DEF GuardianProcess
<1>10. CASE Store
  BY <1>10 DEF Store
<1>11. CASE ValidateAlert
  BY <1>11 DEF ValidateAlert
<1>12. CASE AuditAlert
  BY <1>12 DEF AuditAlert, AppendEntry
<1>13. CASE WriteAlert
  BY <1>13 DEF WriteAlert
<1>14. CASE WriteAudit
  BY <1>14 DEF WriteAudit
<1>15. CASE SetHold
  BY <1>15 DEF SetHold, SetHoldMode
<1>16. CASE Send
  BY <1>16 DEF Send, Die
<1>17. CASE UNCHANGED ingestVars
  BY <1>17 DEF ingestVars
<1>18. CASE PowerLoss
  BY <1>18 DEF PowerLoss
<1> QED BY <1>1, <1>2, <1>3, <1>4, <1>5, <1>6, <1>7, <1>8, <1>9, <1>10, <1>11, <1>12,
           <1>13, <1>14, <1>15, <1>16, <1>17, <1>18 DEF IngestNext, Loop

\* How the loop gets to where it stands.
LEMMA PcFacts ==
  ASSUME [IngestNext]_ingestVars, pc \in PCs
  PROVE  /\ pc' \in PCs
         /\ pc' \in Unwiped => pc \in Unwiped \/ HandleTamper
         /\ pc' \in Unstored => pc \in Unstored \/ Sample
         /\ pc' \in Unlogged => pc \in Unlogged \/ Sample
         /\ pc' \in Unsent => pc \in Unsent \/ Sample
         /\ pc' \in Stage \cup Logged => pc \in Stage \cup Logged \/ Store
         /\ pc' \in Logged => pc \in Logged \/ WriteAlert
         /\ pc' \in {"set_hold", "send"} => pc \in {"set_hold", "send"} \/ WriteAudit
         /\ pc \in {"write_audit", "down"} => Boot \/ WriteAudit \/ pc' \in {pc, "down"}
         /\ pc' \in Writing => pc \in Writing \/ AuditAlert
         /\ pc \in Writing => pc' \in Writing \cup {"down"} \/ WriteAudit
         /\ pc' \notin {"down", "done"} => pc \notin {"down", "done"} \/ Boot
<1> USE DEF PCs, Unwiped, Uncounted, Unstored, Stage, Unlogged, Logged, Unsent, Writing
<1>1. CASE Boot
  BY <1>1 DEF Boot
<1>2. CASE Crash
  BY <1>2 DEF Crash, Die
<1>3. CASE Finish
  BY <1>3 DEF Finish
<1>4. CASE Sample
  BY <1>4 DEF Sample
<1>5. CASE HandleTamper
  BY <1>5 DEF HandleTamper
<1>6. CASE WipeSpool
  BY <1>6 DEF WipeSpool
<1>7. CASE ZeroEnvFile
  BY <1>7 DEF ZeroEnvFile
<1>8. CASE UnlinkEnvFile
  BY <1>8 DEF UnlinkEnvFile
<1>9. CASE GuardianProcess
  BY <1>9 DEF GuardianProcess
<1>10. CASE Store
  BY <1>10 DEF Store
<1>11. CASE ValidateAlert
  BY <1>11 DEF ValidateAlert
<1>12. CASE AuditAlert
  BY <1>12 DEF AuditAlert
<1>13. CASE WriteAlert
  BY <1>13 DEF WriteAlert
<1>14. CASE WriteAudit
  BY <1>14 DEF WriteAudit
<1>15. CASE SetHold
  BY <1>15 DEF SetHold
<1>16. CASE Send
  BY <1>16 DEF Send, Die
<1>17. CASE UNCHANGED ingestVars
  BY <1>17 DEF ingestVars
<1>18. CASE PowerLoss
  BY <1>18 DEF PowerLoss
<1> QED BY <1>1, <1>2, <1>3, <1>4, <1>5, <1>6, <1>7, <1>8, <1>9, <1>10, <1>11, <1>12,
           <1>13, <1>14, <1>15, <1>16, <1>17, <1>18 DEF IngestNext, Loop

\* What the radio and the spool get from a step of Send.
LEMMA SendFacts ==
  ASSUME Send
  PROVE  /\ pc = "send"
         /\ \/ UNCHANGED <<air, spool>>
            \/ air' = Append(air, Message(alert)) /\ UNCHANGED spool
            \/ spool' = Append(spool, Message(alert)) /\ UNCHANGED air
         /\ UNCHANGED hold
BY DEF Send, Die, SendAlert, SuppressSend, Transmit, SpoolSend, SpoolWrite, handler, meshFiles

\* What a power loss leaves: a first part of each file, and all of memory but the
\* place in the loop.
LEMMA PowerLossFacts ==
  ASSUME IngestShape, PowerLoss
  PROVE  /\ pc' = "down"
         /\ disk' \in [log   : 0..Len(alertsFile'),
                      audit : 0..Len(auditFile'),
                      spool : 0..Len(spool'),
                      env   : {"intact", "zeroed", "gone"}]
         /\ envFile' = disk'.env /\ disk'.env \in {disk.env, envFile}
         /\ alertsFile' \in Seq(AlertRecords) /\ Range(alertsFile') \subseteq Range(alertsFile)
         /\ auditFile' \in Seq(Range(auditFile'))
         /\ Len(auditFile') \in 0..Len(auditFile)
         /\ \A i \in 1..Len(auditFile') : auditFile'[i] = auditFile[i]
         /\ AuditedAlerts' \subseteq AuditedAlerts
         /\ spool' \in Seq(Messages) /\ Range(spool') \subseteq Range(spool)
         /\ Len(spool') \in 0..Len(spool)
         /\ \A i \in 1..Len(spool') : spool'[i] = spool[i]
         /\ EverLogged' = EverLogged /\ EverAudited' = EverAudited
         /\ taken'.log \subseteq AlertRecords
<1>1. /\ pc' = "down" /\ envFile' = disk'.env
      /\ alertsFile' = SubSeq(alertsFile, 1, disk'.log)
      /\ auditFile' = SubSeq(auditFile, 1, disk'.audit)
      /\ spool' = SubSeq(spool, 1, disk'.spool)
      /\ taken'.log = taken.log \cup (Range(alertsFile) \ Range(alertsFile'))
      /\ taken'.audit = taken.audit \cup (AuditedAlerts \ AuditedAlerts')
  BY DEF PowerLoss
<1>2. /\ disk \in [log : 0..Len(alertsFile), audit : 0..Len(auditFile), spool : 0..Len(spool),
                   env : {"intact", "zeroed", "gone"}]
      /\ disk' \in [log   : disk.log..Len(alertsFile), audit : disk.audit..Len(auditFile),
                    spool : disk.spool..Len(spool), env : {disk.env, envFile}]
      /\ {disk.env, envFile} \subseteq {"intact", "zeroed", "gone"}
      /\ Len(alertsFile) \in Nat /\ Len(auditFile) \in Nat /\ Len(spool) \in Nat
  BY LenProperties DEF PowerLoss, IngestShape
<1>3. /\ disk'.log \in 0..Len(alertsFile) /\ disk'.audit \in 0..Len(auditFile)
      /\ disk'.spool \in 0..Len(spool) /\ disk'.env \in {disk.env, envFile}
      /\ disk' = [log |-> disk'.log, audit |-> disk'.audit, spool |-> disk'.spool,
                  env |-> disk'.env]
  BY <1>2
<1>4. /\ alertsFile' \in Seq(AlertRecords) /\ Len(alertsFile') = disk'.log
      /\ Range(alertsFile') \subseteq Range(alertsFile)
  BY <1>1, <1>3, PrefixFacts DEF IngestShape
<1>5. /\ auditFile' \in Seq(Range(auditFile)) /\ Len(auditFile') = disk'.audit
      /\ Range(auditFile') \subseteq Range(auditFile)
      /\ \A i \in 1..disk'.audit : auditFile'[i] = auditFile[i]
  BY <1>1, <1>3, PrefixFacts DEF IngestShape
<1>6. /\ spool' \in Seq(Messages) /\ Len(spool') = disk'.spool
      /\ Range(spool') \subseteq Range(spool)
      /\ \A i \in 1..disk'.spool : spool'[i] = spool[i]
  BY <1>1, <1>3, PrefixFacts DEF IngestShape
<1>7. auditFile' \in Seq(Range(auditFile'))
  BY <1>5, OwnRange
<1>8. AuditedAlerts' \subseteq AuditedAlerts
  BY <1>5 DEF AuditedAlerts
<1>9. EverLogged' = EverLogged /\ EverAudited' = EverAudited
  BY <1>1, <1>4, <1>8 DEF EverLogged, EverAudited
<1>10. taken'.log \subseteq AlertRecords
  <2>1. Range(alertsFile) \subseteq AlertRecords /\ taken.log \subseteq AlertRecords
    BY InRange DEF IngestShape
  <2> QED BY <1>1, <2>1
<1>11. disk' \in [log : 0..Len(alertsFile'), audit : 0..Len(auditFile'), spool : 0..Len(spool'),
                 env : {"intact", "zeroed", "gone"}]
  <2>1. /\ disk'.log \in 0..Len(alertsFile') /\ disk'.audit \in 0..Len(auditFile')
        /\ disk'.spool \in 0..Len(spool') /\ disk'.env \in {"intact", "zeroed", "gone"}
    BY <1>2, <1>3, <1>4, <1>5, <1>6
  <2> QED BY <1>3, <2>1
<1> QED BY <1>1, <1>3, <1>4, <1>5, <1>6, <1>7, <1>8, <1>9, <1>10, <1>11

------------------------------------------------------------------------------
(***************************************************************************)
(* The shape of the state and the frame at hand.                           *)
(***************************************************************************)
LEMMA EntryIsSequence == ASSUME EntryAtHand, NEW R PROVE entry \in Seq(R \cup {entry[1]})
<1>1. CASE entry = <<>>
  BY <1>1, EmptySeq
<1>2. CASE entry = <<entry[1]>>
  <2> DEFINE e == entry[1]
             S == R \cup {e}
  <2>1. e \in S /\ entry = <<e>>
    BY <1>2
  <2> HIDE DEF e, S
  <2>2. entry \in Seq(S)
    BY <2>1
  <2> QED BY <2>2 DEF e, S
<1> QED BY <1>1, <1>2 DEF EntryAtHand

LEMMA DiskStep ==
  ASSUME IngestShape, EntryAtHand, [IngestNext]_ingestVars
  PROVE  disk' \in [log : 0..Len(alertsFile'), audit : 0..Len(auditFile'), spool : 0..Len(spool'),
                   env : {"intact", "zeroed", "gone"}]
<1> USE DEF logger, handler, meshFiles, volatile, files
<1>1. /\ disk = [log |-> disk.log, audit |-> disk.audit, spool |-> disk.spool, env |-> disk.env]
      /\ disk.log \in 0..Len(alertsFile) /\ disk.audit \in 0..Len(auditFile)
      /\ disk.spool \in 0..Len(spool) /\ disk.env \in {"intact", "zeroed", "gone"}
      /\ Len(alertsFile) \in Nat /\ Len(auditFile) \in Nat /\ Len(spool) \in Nat
  BY LenProperties DEF IngestShape
<1>2. CASE PowerLoss
  BY <1>2, PowerLossFacts
<1>3. CASE WipeSpool
  <2>1. UNCHANGED <<alertsFile, auditFile>> /\ Len(<<>>) = 0
    BY <1>3, EmptySeq DEF WipeSpool
  <2>2. \/ spool' = <<>> /\ disk' = [disk EXCEPT !.spool = 0]
        \/ UNCHANGED <<spool, disk>>
    BY <1>3 DEF WipeSpool
  <2> QED BY <1>1, <2>1, <2>2
<1>4. CASE ZeroEnvFile
  <2>1. UNCHANGED <<alertsFile, auditFile, spool>>
        /\ (UNCHANGED disk \/ disk' = [disk EXCEPT !.env = "zeroed"])
    BY <1>4 DEF ZeroEnvFile
  <2> QED BY <1>1, <2>1
<1>5. CASE UNCHANGED disk /\ ~WipeSpool /\ ~PowerLoss
  <2>1. Len(alertsFile') \in Nat /\ Len(alertsFile') >= Len(alertsFile)
    <3>1. CASE WriteAlert
      <4>1. alertsFile' = Append(alertsFile, alert)
        BY <3>1 DEF WriteAlert
      <4>2. Len(alertsFile') = Len(alertsFile) + 1
        BY <4>1, AppendRange DEF IngestShape
      <4> QED BY <1>1, <4>2
    <3> QED BY <1>1, <1>5, <3>1, FrameFacts
  <2>2. Len(auditFile') \in Nat /\ Len(auditFile') >= Len(auditFile)
    <3>1. CASE WriteAudit
      <4> DEFINE S == Range(auditFile) \cup {entry[1]}
      <4>1. auditFile \in Seq(S) /\ auditFile' = auditFile \o entry
        BY <3>1, SeqMonotonic DEF WriteAudit, IngestShape
      <4>2. entry \in Seq(S)
        BY EntryIsSequence
      <4> HIDE DEF S
      <4>3. Len(auditFile') = Len(auditFile) + Len(entry) /\ Len(entry) \in Nat
        BY <4>1, <4>2, ConcatProperties, LenProperties
      <4> QED BY <1>1, <4>3
    <3> QED BY <1>1, <1>5, <3>1, FrameFacts
  <2>3. Len(spool') \in Nat /\ Len(spool') >= Len(spool)
    <3>1. CASE Send
      <4>1. Message(alert) \in Messages
        BY DEF Message, Messages, IngestShape
      <4>2. Len(Append(spool, Message(alert))) = Len(spool) + 1
        BY <4>1, AppendRange DEF IngestShape
      <4> QED BY <1>1, <3>1, <4>2, SendFacts
    <3> QED BY <1>1, <1>5, <3>1, FrameFacts
  <2> QED BY <1>1, <1>5, <2>1, <2>2, <2>3
<1> QED BY <1>2, <1>3, <1>4, <1>5, FrameFacts

LEMMA ShapeStep == ASSUME IngestBase, [IngestNext]_ingestVars PROVE IngestShape'
<1> USE DEF logger, handler, meshFiles, volatile, files
<1>1. pc' \in PCs
  BY PcFacts DEF IngestBase, IngestShape
<1>2. boot' \in 0..MaxBoots /\ frameSeq' \in 0..MaxFrames
  <2>1. CASE UNCHANGED <<boot, frameSeq>>
    BY <2>1 DEF IngestBase, IngestShape
  <2>2. CASE Boot
    BY <2>2, IngestBoundAssumption DEF IngestBase, IngestShape, Boot
  <2>3. CASE GuardianProcess
    BY <2>3, IngestBoundAssumption
       DEF IngestBase, IngestShape, Position, GuardianProcess, Uncounted
  <2> QED BY <2>1, <2>2, <2>3, FrameFacts
<1>3. alert' \in AlertRecords
  <2>1. CASE Sample
    BY <2>1, EnvironmentAssumption
       DEF Sample, Alert, AlertRecords, IngestBase, IngestShape
  <2> QED BY <2>1, FrameFacts DEF IngestBase, IngestShape
<1>4. rows' \in Seq(AlertRecords)
  <2>1. CASE Store
    <3> DEFINE t == Append(rows, alert)
    <3>1. t \in Seq(AlertRecords) /\ Len(t) \in Nat
      BY LenProperties DEF IngestBase, IngestShape
    <3>2. \A i \in 1..Len(t) : t[i] \in AlertRecords
      BY <3>1, ElementOfSeq
    <3>3. rows' = Newest(t, MaxRows)
      BY <2>1 DEF Store, StoreAppend
    <3> HIDE DEF t
    <3>4. CASE MaxRows < 0 \/ Len(t) <= MaxRows
      BY <3>1, <3>3, <3>4 DEF Newest
    <3>5. CASE ~(MaxRows < 0 \/ Len(t) <= MaxRows)
      <4> DEFINE m == Len(t) - MaxRows + 1
      <4>1. m \in Int /\ Len(t) \in Int /\ m >= 1
        BY <3>1, <3>5, MaxRowsAssumption
      <4>2. \A i \in m..Len(t) : t[i] \in AlertRecords
        BY <3>2, <4>1
      <4>3. rows' = SubSeq(t, m, Len(t))
        BY <3>3, <3>5 DEF Newest
      <4> HIDE DEF m
      <4> QED BY <4>1, <4>2, <4>3, SubSeqProperties
    <3> QED BY <3>4, <3>5
  <2> QED BY <2>1, FrameFacts DEF IngestBase, IngestShape
<1>5. alertsFile' \in Seq(AlertRecords)
  <2>1. CASE WriteAlert
    BY <2>1, AppendRange DEF WriteAlert, IngestBase, IngestShape
  <2> QED BY <2>1, FrameFacts, PowerLossFacts DEF IngestBase, IngestShape
<1>6. air' \in Seq(Messages) /\ spool' \in Seq(Messages)
  <2>1. Message(alert) \in Messages
    BY DEF Message, Messages, IngestBase, IngestShape
  <2>2. CASE Send
    <3>1. /\ Append(air, Message(alert)) \in Seq(Messages)
          /\ Append(spool, Message(alert)) \in Seq(Messages)
      BY <2>1, AppendRange DEF IngestBase, IngestShape
    <3> QED BY <2>2, <3>1, SendFacts DEF IngestBase, IngestShape
  <2>3. CASE WipeSpool
    BY <2>3, EmptySeq DEF WipeSpool, IngestBase, IngestShape
  <2>4. CASE PowerLoss
    BY <2>4, PowerLossFacts DEF PowerLoss, IngestBase, IngestShape
  <2> QED BY <2>2, <2>3, <2>4, FrameFacts DEF IngestBase, IngestShape
<1>7. auditFile' \in Seq(Range(auditFile'))
  <2>1. CASE WriteAudit
    <3>1. auditFile' = auditFile \o entry
      BY <2>1 DEF WriteAudit
    <3> DEFINE S == Range(auditFile) \cup {entry[1]}
    <3>2. auditFile \in Seq(S)
      BY SeqMonotonic DEF IngestBase, IngestShape
    <3>3. entry \in Seq(S)
      BY EntryIsSequence DEF IngestBase
    <3> HIDE DEF S
    <3>4. auditFile' \in Seq(S)
      BY <3>1, <3>2, <3>3, ConcatProperties
    <3> QED BY <3>4, OwnRange
  <2> QED BY <2>1, FrameFacts, PowerLossFacts DEF IngestBase, IngestShape
<1>8. key' \in Keys \cup {ZeroKey}
  <2>1. CASE Boot
    BY <2>1, EnvironmentAssumption DEF Boot
  <2>2. CASE HandleTamper
    BY <2>2 DEF HandleTamper, IngestBase, IngestShape
  <2> QED BY <2>1, <2>2, FrameFacts DEF IngestBase, IngestShape
<1>9. envFile' \in {"intact", "zeroed", "gone"}
  BY FrameFacts, PowerLossFacts DEF ZeroEnvFile, UnlinkEnvFile, IngestBase, IngestShape
<1>10. crashes' \in 0..MaxCrashes /\ hold' \in BOOLEAN /\ env' \in {"full", "scrubbed", "empty"}
  <2> USE DEF IngestBase, IngestShape
  <2>1. CASE Boot
    BY <2>1 DEF Boot
  <2>2. CASE Crash
    BY <2>2, IngestBoundAssumption DEF Crash, Die
  <2>3. CASE Finish \/ Sample \/ WipeSpool \/ ZeroEnvFile \/ UnlinkEnvFile
    BY <2>3 DEF Finish, Sample, WipeSpool, ZeroEnvFile, UnlinkEnvFile
  <2>4. CASE HandleTamper
    BY <2>4 DEF HandleTamper
  <2>5. CASE GuardianProcess \/ Store \/ ValidateAlert \/ AuditAlert \/ WriteAlert \/ WriteAudit
    BY <2>5 DEF GuardianProcess, Store, ValidateAlert, AuditAlert, WriteAlert, WriteAudit
  <2>6. CASE SetHold
    BY <2>6 DEF SetHold, SetHoldMode
  <2>7. CASE Send
    BY <2>7, SendFacts DEF Send, Die
  <2>8. CASE UNCHANGED ingestVars
    BY <2>8 DEF ingestVars
  <2>9. CASE PowerLoss
    BY <2>9, IngestBoundAssumption DEF PowerLoss
  <2> QED BY <2>1, <2>2, <2>3, <2>4, <2>5, <2>6, <2>7, <2>8, <2>9 DEF IngestNext, Loop
<1>11. disk' \in [log : 0..Len(alertsFile'), audit : 0..Len(auditFile'), spool : 0..Len(spool'),
                 env : {"intact", "zeroed", "gone"}]
  BY DiskStep DEF IngestBase
<1>12. taken'.log \subseteq AlertRecords
  BY FrameFacts, PowerLossFacts DEF IngestBase, IngestShape
<1> QED BY <1>1, <1>2, <1>3, <1>4, <1>5, <1>6, <1>7, <1>8, <1>9, <1>10, <1>11, <1>12
   DEF IngestShape

LEMMA EntryStep == ASSUME IngestBase, [IngestNext]_ingestVars PROVE EntryAtHand'
<1> USE DEF IngestBase, EntryAtHand, Uncounted, Unwiped, Unstored, Writing
<1>1. CASE Boot
  BY <1>1 DEF Boot
<1>2. CASE Sample
  BY <1>2 DEF Sample
<1>3. CASE AuditAlert
  <2>1. pc' = "write_alert" /\ alert' = alert /\ pc = "audit" /\ entry = <<>>
    BY <1>3 DEF AuditAlert
  <2>2. CASE Audited(alert)
    <3> DEFINE e == Entry(AlertContent(alert))
    <3>1. entry' = <<e>> /\ e.content = AlertContent(alert) /\ entry' # <<>>
      BY <1>3, <2>2 DEF AuditAlert, Entry
    <3> HIDE DEF e
    <3>2. entry'[1] = e
      BY <3>1
    <3> QED BY <2>1, <2>2, <3>1, <3>2 DEF Audited, AlertContent
  <2>3. CASE ~Audited(alert)
    <3>1. entry' = <<>>
      BY <1>3, <2>1, <2>3 DEF AuditAlert
    <3> QED BY <2>1, <2>3, <3>1 DEF Audited
  <2> QED BY <2>2, <2>3
<1>4. CASE UNCHANGED <<alert, entry>> /\ ~AuditAlert /\ ~Sample
  <2>1. entry' = <<>> \/ (entry' = <<entry'[1]>> /\ entry'[1].content = AlertContent(alert'))
    BY <1>4 DEF AlertContent
  <2>2. pc' \in Unstored \cup {"validate", "audit"} => pc \in Unstored \cup {"validate"} \/ pc' = pc
    BY <1>4 DEF IngestNext, Loop, Boot, Crash, Die, PowerLoss, Finish, HandleTamper, WipeSpool,
                ZeroEnvFile, UnlinkEnvFile, GuardianProcess, Store, ValidateAlert, WriteAlert, WriteAudit,
                SetHold, Send, ingestVars
  <2>3. pc' \in {"write_alert", "write_audit"} => pc = "write_alert" \/ pc' = pc
    BY <1>4 DEF IngestNext, Loop, Boot, Crash, Die, PowerLoss, Finish, HandleTamper, WipeSpool,
                ZeroEnvFile, UnlinkEnvFile, GuardianProcess, Store, ValidateAlert, WriteAlert, WriteAudit,
                SetHold, Send, ingestVars
  <2> QED BY <1>4, <2>1, <2>2, <2>3 DEF Audited
<1> QED BY <1>1, <1>2, <1>3, <1>4, FrameFacts

LEMMA PositionStep == ASSUME IngestBase, [IngestNext]_ingestVars PROVE Position'
<1> USE DEF IngestBase, IngestShape, Position, Unwiped, Uncounted, Unstored, Stage, Unlogged,
            Logged, Unsent, Counted, volatile
<1>1. CASE Boot
  BY <1>1 DEF Boot
<1>2. CASE Crash
  BY <1>2 DEF Crash, Die
<1>3. CASE Finish
  BY <1>3 DEF Finish
<1>4. CASE Sample
  BY <1>4 DEF Sample, Alert
<1>5. CASE HandleTamper
  BY <1>5 DEF HandleTamper
<1>6. CASE WipeSpool
  BY <1>6 DEF WipeSpool
<1>7. CASE ZeroEnvFile
  BY <1>7 DEF ZeroEnvFile
<1>8. CASE UnlinkEnvFile
  BY <1>8 DEF UnlinkEnvFile
<1>9. CASE GuardianProcess
  BY <1>9 DEF GuardianProcess
<1>10. CASE Store
  BY <1>10 DEF Store
<1>11. CASE ValidateAlert
  BY <1>11 DEF ValidateAlert
<1>12. CASE AuditAlert
  BY <1>12 DEF AuditAlert
<1>13. CASE WriteAlert
  BY <1>13 DEF WriteAlert
<1>14. CASE WriteAudit
  BY <1>14 DEF WriteAudit
<1>15. CASE SetHold
  BY <1>15 DEF SetHold, Relayed
<1>16. CASE Send
  BY <1>16 DEF Send, Die
<1>17. CASE UNCHANGED ingestVars
  BY <1>17 DEF ingestVars, Relayed
<1>18. CASE PowerLoss
  BY <1>18 DEF PowerLoss
<1> QED BY <1>1, <1>2, <1>3, <1>4, <1>5, <1>6, <1>7, <1>8, <1>9, <1>10, <1>11, <1>12,
           <1>13, <1>14, <1>15, <1>16, <1>17, <1>18 DEF IngestNext, Loop

LEMMA BaseStart == ASSUME IngestInit PROVE IngestBase
<1> USE DEF IngestInit
<1>1. IngestShape
  <2>1. NoAlert \in AlertRecords
    BY IngestBoundAssumption DEF NoAlert, AlertRecords, Levels
  <2>2. /\ pc \in PCs /\ key \in Keys /\ hold \in BOOLEAN
        /\ env \in {"full", "scrubbed", "empty"} /\ envFile \in {"intact", "zeroed", "gone"}
    BY EnvironmentAssumption DEF PCs
  <2>3. boot \in 0..MaxBoots /\ frameSeq \in 0..MaxFrames /\ crashes \in 0..MaxCrashes
    BY IngestBoundAssumption
  <2>4. /\ rows = <<>> /\ alertsFile = <<>> /\ air = <<>> /\ spool = <<>> /\ auditFile = <<>>
        /\ alert \in AlertRecords
    BY <2>1
  <2>5. /\ taken.log \subseteq AlertRecords
        /\ disk \in [log : 0..Len(alertsFile), audit : 0..Len(auditFile), spool : 0..Len(spool),
                     env : {"intact", "zeroed", "gone"}]
    BY EmptySeq
  <2> HIDE DEF IngestInit
  <2> QED BY <2>2, <2>3, <2>4, <2>5, EmptySeq DEF IngestShape
<1>2. EntryAtHand
  <2>1. pc \notin Writing /\ entry = <<>>
    BY DEF Writing
  <2> HIDE DEF IngestInit
  <2> QED BY <2>1, Zenon DEF EntryAtHand
<1>3. pc \notin Unsent /\ pc # "send"
  BY DEF Unwiped, Uncounted, Unstored, Stage, Unlogged, Logged, Unsent
<1>4. Position
  BY <1>3 DEF Position, Unsent, Unlogged, Unstored, Counted
<1> QED BY <1>1, <1>2, <1>4 DEF IngestBase

LEMMA BaseStep == ASSUME IngestBase, [IngestNext]_ingestVars PROVE IngestBase'
BY ShapeStep, EntryStep, PositionStep DEF IngestBase

LEMMA BaseSafe == IngestSpec => []IngestBase
<1>1. IngestInit => IngestBase
  BY BaseStart
<1>2. IngestBase /\ [IngestNext]_ingestVars => IngestBase'
  BY BaseStep
<1> QED BY <1>1, <1>2, PTL DEF IngestSpec

------------------------------------------------------------------------------
(***************************************************************************)
(* The wiped key.                                                          *)
(***************************************************************************)

\* Before the environment file is touched, the buffer of this process is zero; a file
\* that reads intact is intact on the disk, and one that is to be deleted is not.
KeyIsGone ==
  /\ WipedFileMeansWipedKey
  /\ envFile = "intact" => disk.env = "intact"
  /\ pc \in Unwiped => key = ZeroKey
  /\ pc = "unlink_env" => envFile # "intact"

LEMMA KeyStep == ASSUME IngestBase, KeyIsGone, [IngestNext]_ingestVars PROVE KeyIsGone'
<1> USE DEF KeyIsGone, WipedFileMeansWipedKey
<1>1. OperatorKey # DevKey /\ OperatorKey # ZeroKey
  BY EnvironmentAssumption, KeyAssumption
<1>2. CASE Boot
  <2>1. pc' = "sample" /\ UNCHANGED <<envFile, disk>>
        /\ key' = IF envFile = "intact" THEN OperatorKey ELSE DevKey
    BY <1>2 DEF Boot, files
  <2>2. pc' \notin Unwiped
    BY <2>1 DEF Unwiped
  <2> QED BY <1>1, <2>1, <2>2
<1>3. CASE HandleTamper
  <2>1. UNCHANGED <<envFile, disk>> /\ pc' # "unlink_env"
    BY <1>3 DEF HandleTamper, files
  <2>2. CASE DryRun
    <3>1. key' = key /\ pc' = "process"
      BY <1>3, <2>2 DEF HandleTamper
    <3>2. pc' \notin Unwiped
      BY <3>1 DEF Unwiped
    <3> QED BY <2>1, <3>1, <3>2
  <2>3. CASE ~DryRun
    <3>1. key' = ZeroKey
      BY <1>3, <2>3 DEF HandleTamper
    <3> QED BY <1>1, <2>1, <3>1
  <2> QED BY <2>2, <2>3
<1>4. CASE ZeroEnvFile
  <2>1. /\ pc = "zero_env" /\ pc' = "unlink_env" /\ UNCHANGED key
        /\ \/ envFile = "gone" /\ UNCHANGED <<envFile, disk>>
           \/ envFile' = "zeroed" /\ disk' = [disk EXCEPT !.env = "zeroed"]
    BY <1>4 DEF ZeroEnvFile, logger
  <2>2. disk' = [disk EXCEPT !.env = "zeroed"] => disk'.env = "zeroed"
    BY DEF IngestBase, IngestShape
  <2>3. key' = ZeroKey
    BY <2>1 DEF Unwiped
  <2> QED BY <1>1, <2>1, <2>2, <2>3
<1>5. CASE UnlinkEnvFile
  <2>1. pc = "unlink_env" /\ pc' = "process" /\ UNCHANGED <<key, disk>> /\ envFile # "intact"
        /\ envFile' \in {envFile, "gone"}
    BY <1>5 DEF UnlinkEnvFile, logger
  <2>2. pc' \notin Unwiped
    BY <2>1 DEF Unwiped
  <2> QED BY <2>1, <2>2
<1>6. CASE PowerLoss
  <2>1. pc' = "down" /\ UNCHANGED key /\ envFile' = disk'.env /\ disk'.env \in {disk.env, envFile}
    BY <1>6, PowerLossFacts DEF PowerLoss, logger, IngestBase
  <2>2. pc' \notin Unwiped
    BY <2>1 DEF Unwiped
  <2> QED BY <2>1, <2>2
<1>7. CASE WipeSpool
  <2>1. /\ pc \in Unwiped /\ pc' # "unlink_env" /\ UNCHANGED <<key, envFile>>
        /\ UNCHANGED disk \/ disk' = [disk EXCEPT !.spool = 0]
    BY <1>7 DEF WipeSpool, logger, Unwiped
  <2>2. disk'.env = disk.env
    BY <2>1 DEF IngestBase, IngestShape
  <2> QED BY <2>1, <2>2
<1>8. CASE UNCHANGED <<key, envFile, disk>> /\ ~HandleTamper /\ ~ZeroEnvFile /\ ~WipeSpool
  <2>1. pc' \in Unwiped => pc \in Unwiped
    BY <1>8, PcFacts DEF IngestBase, IngestShape
  <2>2. pc' = "unlink_env" => pc = "unlink_env"
    BY <1>8 DEF IngestNext, Loop, Boot, Crash, Die, PowerLoss, Finish, Sample, GuardianProcess,
      Store, ValidateAlert, AuditAlert, WriteAlert, WriteAudit, SetHold, Send, UnlinkEnvFile,
      ingestVars
  <2> QED BY <1>8, <2>1, <2>2
<1> QED BY <1>2, <1>3, <1>4, <1>5, <1>6, <1>7, <1>8, FrameFacts

\* handle_tamper wipes the memory before it touches the environment file, and a
\* later process does not find the operator's key in a file that was touched, nor
\* does a power loss bring it back (_secure_delete syncs the zeros).
THEOREM WipedKeyIsGone == IngestSpec => []WipedFileMeansWipedKey
<1>1. IngestInit => KeyIsGone
  BY DEF IngestInit, KeyIsGone, WipedFileMeansWipedKey, Unwiped
<1>2. IngestBase /\ KeyIsGone /\ [IngestNext]_ingestVars => KeyIsGone'
  BY KeyStep
<1>3. KeyIsGone => WipedFileMeansWipedKey
  BY DEF KeyIsGone
<1> QED BY <1>1, <1>2, <1>3, BaseSafe, PTL DEF IngestSpec

------------------------------------------------------------------------------
(***************************************************************************)
(* The store and the alert log.                                            *)
(***************************************************************************)
RowsAscend == \A i, j \in 1..Len(rows) : i < j => Before(rows[i], rows[j])

StoreFacts ==
  /\ RowsAscend
  /\ \A r \in Range(rows) : Past(r)
  /\ pc \in Unstored => \A r \in Range(rows) : Before(r, alert)
  /\ pc \in Stage \cup Logged => Stored(alert)

\* INSERT and DELETE in one transaction: the newest row goes in, and a row that
\* was there, or was pruned before, stays accounted for.
LEMMA StoreKeeps ==
  ASSUME IngestShape, RowsAscend, \A r \in Range(rows) : Before(r, alert),
         StoreAppend(alert), UNCHANGED alert
  PROVE  /\ RowsAscend' /\ Range(rows') \subseteq Range(rows) \cup {alert}
         /\ Stored(alert)'
         /\ \A a \in AlertRecords : Stored(a) /\ Before(a, alert) => Stored(a)'
<1> DEFINE t == Append(rows, alert)
           n == Len(rows)
<1>1. /\ t \in Seq(AlertRecords) /\ Len(t) = n + 1 /\ n \in Nat
      /\ \A i \in 1..n : t[i] = rows[i]
      /\ t[n + 1] = alert /\ Range(t) = Range(rows) \cup {alert}
      /\ \A i \in 1..n : rows[i] \in Range(rows)
      /\ \A x \in Range(rows) : \E i \in 1..n : x = rows[i]
  BY AppendRange, InRange DEF IngestShape
<1>2. rows' = Newest(t, MaxRows) /\ MaxRows \in Int
  BY MaxRowsAssumption DEF StoreAppend
<1> HIDE DEF t
<1>3. \A i, j \in 1..(n + 1) : i < j => Before(t[i], t[j])
  <2> SUFFICES ASSUME NEW i \in 1..(n + 1), NEW j \in 1..(n + 1), i < j
               PROVE  Before(t[i], t[j])
    OBVIOUS
  <2>1. i \in 1..n
    BY <1>1
  <2>2. CASE j = n + 1
    BY <1>1, <2>1, <2>2
  <2>3. CASE j \in 1..n
    BY <1>1, <2>1, <2>3 DEF RowsAscend
  <2> QED BY <1>1, <2>2, <2>3
<1>4. \A i \in 1..(n + 1) : t[i] \in Range(t) /\ t[i] \in AlertRecords
  BY <1>1, InRange, ElementOfSeq
<1>5. CASE MaxRows < 0 \/ n + 1 <= MaxRows
  <2>1. rows' = t
    BY <1>1, <1>2, <1>5 DEF Newest
  <2>2. RowsAscend' /\ Range(rows') \subseteq Range(rows) \cup {alert}
    BY <1>1, <1>3, <2>1 DEF RowsAscend
  <2>3. Stored(alert)'
    BY <1>1, <2>1 DEF Stored
  <2>4. ASSUME NEW a \in AlertRecords, Stored(a) PROVE Stored(a)'
    <3>1. n # MaxRows
      BY <1>1, <1>2, <1>5
    <3> QED BY <1>1, <2>1, <2>4, <3>1 DEF Stored
  <2> QED BY <2>2, <2>3, <2>4
<1>6. CASE ~(MaxRows < 0 \/ n + 1 <= MaxRows)
  <2> DEFINE k == n + 1 - MaxRows
  <2>1. k \in 1..(n + 1) /\ MaxRows \in 0..n /\ k + MaxRows = n + 1
    BY <1>1, <1>2, <1>6
  <2>2. rows' = SubSeq(t, k + 1, n + 1)
    <3>1. n + 1 - MaxRows + 1 = k + 1
      BY <2>1
    <3> QED BY <1>1, <1>2, <1>6, <3>1 DEF Newest
  <2>3. /\ rows' \in Seq(AlertRecords) /\ Len(rows') = MaxRows
        /\ \A i \in 1..MaxRows : rows'[i] = t[k + i]
    <3>1. /\ k + 1 \in Int /\ n + 1 \in Int
          /\ \A i \in (k + 1)..(n + 1) : t[i] \in AlertRecords
      BY <1>1, <1>4, <2>1
    <3>2. /\ rows' \in Seq(AlertRecords)
          /\ Len(rows') = IF k + 1 <= n + 1 THEN (n + 1) - (k + 1) + 1 ELSE 0
          /\ \A i \in 1..((n + 1) - (k + 1) + 1) : rows'[i] = t[(k + 1) + i - 1]
      BY <2>2, <3>1, SubSeqProperties
    <3>3. (n + 1) - (k + 1) + 1 = MaxRows /\ \A i \in 1..MaxRows : (k + 1) + i - 1 = k + i
      BY <1>1, <2>1
    <3>4. Len(rows') = MaxRows
      BY <1>1, <2>1, <3>2
    <3> QED BY <3>2, <3>3, <3>4
  <2> HIDE DEF k
  <2>4. \A i \in 1..MaxRows : k + i \in 1..(n + 1)
    BY <1>1, <2>1
  <2>5. \A x \in Range(rows') : \E i \in 1..MaxRows : x = t[k + i]
    BY <2>3, InRange
  <2>6. RowsAscend'
    <3> SUFFICES ASSUME NEW i \in 1..MaxRows, NEW j \in 1..MaxRows, i < j
                 PROVE  Before(rows'[i], rows'[j])
      BY <2>3 DEF RowsAscend
    <3>1. k + i \in 1..(n + 1) /\ k + j \in 1..(n + 1) /\ k + i < k + j
      BY <2>1, <2>4
    <3> QED BY <1>3, <2>3, <3>1
  <2>7. Range(rows') \subseteq Range(t)
    BY <1>4, <2>4, <2>5
  <2>8. Stored(alert)'
    <3>1. CASE MaxRows = 0
      <4>1. Range(rows') = {}
        BY <2>5, <3>1
      <4> QED BY <2>3, <4>1 DEF Stored
    <3>2. CASE MaxRows # 0
      <4>1. MaxRows \in 1..MaxRows /\ rows'[MaxRows] = alert
        BY <1>1, <2>1, <2>3, <3>2
      <4>2. alert \in Range(rows')
        BY <2>3, <4>1, InRange
      <4> QED BY <4>2 DEF Stored
    <3> QED BY <3>1, <3>2
  <2>9. ASSUME NEW a \in AlertRecords, Stored(a), Before(a, alert) PROVE Stored(a)'
    <3>1. CASE a \in Range(rows)
      <4>1. PICK p \in 1..n : a = rows[p]
        BY <1>1, <3>1
      <4>2. p \in 1..(n + 1) /\ t[p] = a
        BY <1>1, <4>1
      <4>3. CASE p > k
        <5>1. p - k \in 1..MaxRows /\ k + (p - k) = p
          BY <1>1, <2>1, <4>2, <4>3
        <5>2. rows'[p - k] = a
          BY <2>3, <4>2, <5>1
        <5> QED BY <2>3, <5>1, <5>2, InRange DEF Stored
      <4>4. CASE p <= k
        <5>1. \A i \in 1..MaxRows : Before(a, t[k + i])
          <6> TAKE i \in 1..MaxRows
          <6>1. k + i \in 1..(n + 1) /\ p < k + i
            BY <2>1, <2>4, <4>2, <4>4
          <6> QED BY <1>3, <4>2, <6>1
        <5>2. \A r \in Range(rows') : Before(a, r)
          BY <2>5, <5>1
        <5> QED BY <2>3, <5>2 DEF Stored
      <4> QED BY <1>1, <2>1, <4>2, <4>3, <4>4
    <3>2. CASE \A r \in Range(rows) : Before(a, r)
      <4>1. \A r \in Range(rows') : Before(a, r)
        BY <1>1, <2>7, <2>9, <3>2
      <4> QED BY <2>3, <4>1 DEF Stored
    <3> QED BY <2>9, <3>1, <3>2 DEF Stored
  <2> QED BY <1>1, <2>6, <2>7, <2>8, <2>9
<1> QED BY <1>5, <1>6

\* What has been counted stays counted, and comes before the next frame.
LEMMA PastStays ==
  ASSUME IngestBase, [IngestNext]_ingestVars, NEW a \in AlertRecords, Past(a)
  PROVE  Past(a)'
<1>1. a.boot \in Nat /\ a.seq \in Nat /\ boot \in Nat /\ frameSeq \in Nat
  BY IngestBoundAssumption DEF AlertRecords, IngestBase, IngestShape
<1>2. CASE Boot
  BY <1>1, <1>2 DEF Boot, Past
<1>3. CASE GuardianProcess
  BY <1>1, <1>3 DEF GuardianProcess, Past
<1> QED BY <1>2, <1>3, FrameFacts DEF Past

LEMMA SampledIsNext ==
  ASSUME Sample, NEW a, Past(a)
  PROVE  Before(a, alert')
BY DEF Sample, Alert, Past, Before

\* The alert at hand, once counted.
LEMMA AtHandIsPast ==
  ASSUME IngestBase, pc \in Counted
  PROVE  Past(alert) /\ alert \in AlertRecords
BY IngestBoundAssumption
   DEF IngestBase, IngestShape, Position, Counted, Past, AlertRecords

LEMMA StoreStep == ASSUME IngestBase, StoreFacts, [IngestNext]_ingestVars PROVE StoreFacts'
<1>1. Range(rows) \subseteq AlertRecords /\ pc \in PCs
  BY InRange DEF IngestBase, IngestShape
<1>2. CASE Store
  <2>1. pc = "store" /\ pc' = "validate" /\ StoreAppend(alert) /\ UNCHANGED alert
        /\ UNCHANGED <<boot, frameSeq>>
    BY <1>2 DEF Store, volatile
  <2>2. pc \in Unstored /\ pc \in Counted /\ pc' \notin Unstored
    BY <2>1 DEF Unwiped, Uncounted, Unstored, Unlogged, Unsent, Counted
  <2>3. /\ RowsAscend' /\ Range(rows') \subseteq Range(rows) \cup {alert}
        /\ Stored(alert)'
    BY <2>1, <2>2, StoreKeeps DEF StoreFacts, IngestBase
  <2>4. \A r \in Range(rows') : Past(r)'
    BY <2>1, <2>2, <2>3, AtHandIsPast DEF StoreFacts, Past
  <2> QED BY <2>2, <2>3, <2>4 DEF StoreFacts, Past
<1>3. CASE UNCHANGED rows /\ ~Store
  <2>1. RowsAscend' /\ \A r \in Range(rows') : Past(r)'
    BY <1>1, <1>3, PastStays DEF StoreFacts, RowsAscend
  <2>2. CASE Sample
    <3>1. \A r \in Range(rows') : Before(r, alert')
      BY <1>3, <2>2, SampledIsNext DEF StoreFacts
    <3>2. pc' \notin Stage \cup Logged
      BY <2>2 DEF Sample, Stage, Logged
    <3> QED BY <2>1, <3>1, <3>2 DEF StoreFacts, Past, Before
  <2>3. CASE UNCHANGED alert /\ ~Sample
    <3>1. pc' \in Unstored => pc \in Unstored
      BY <1>1, <2>3, PcFacts
    <3>2. pc' \in Stage \cup Logged => pc \in Stage \cup Logged
      BY <1>1, <1>3, PcFacts
    <3>3. Stored(alert) => Stored(alert)'
      BY <1>3, <2>3 DEF Stored
    <3>4. pc' \in Unstored => \A r \in Range(rows') : Before(r, alert')
      BY <1>3, <2>3, <3>1 DEF StoreFacts
    <3> QED BY <2>1, <3>2, <3>3, <3>4 DEF StoreFacts, Past, Before
  <2> QED BY <2>2, <2>3, FrameFacts
<1> QED BY <1>2, <1>3, FrameFacts

LEMMA StoreStart == ASSUME IngestInit PROVE StoreFacts
<1>1. rows = <<>> /\ pc = "down" /\ Range(rows) = {} /\ Len(rows) = 0
  BY EmptyRange, EmptySeq DEF IngestInit
<1>2. pc \notin Unstored /\ pc \notin Stage \cup Logged
  BY <1>1 DEF Unwiped, Uncounted, Unstored, Stage, Logged
<1> QED BY <1>1, <1>2 DEF StoreFacts, RowsAscend

LogFacts ==
  /\ EverLogged \subseteq AlertRecords
  /\ \A a \in EverLogged : Past(a)
  /\ pc \in Logged => alert \in Range(alertsFile)

\* Only WriteAlert logs, and what has been logged is accounted for ever after.
LEMMA LoggedGrows ==
  ASSUME IngestBase, [IngestNext]_ingestVars
  PROVE  EverLogged' = EverLogged \cup (IF WriteAlert THEN {alert} ELSE {})
<1>1. CASE WriteAlert
  <2>1. alertsFile' = Append(alertsFile, alert) /\ UNCHANGED taken
    BY <1>1 DEF WriteAlert
  <2>2. Range(alertsFile') = Range(alertsFile) \cup {alert}
    BY <2>1, AppendRange DEF IngestBase, IngestShape
  <2> QED BY <1>1, <2>1, <2>2 DEF EverLogged
<1>2. CASE PowerLoss
  <2>1. ~WriteAlert
    BY <1>2 DEF PowerLoss, WriteAlert
  <2> QED BY <1>2, <2>1, PowerLossFacts DEF IngestBase
<1>3. CASE UNCHANGED <<alertsFile, taken>> /\ ~WriteAlert
  BY <1>3 DEF EverLogged
<1>4. WriteAlert => UNCHANGED taken
  BY DEF WriteAlert
<1> QED BY <1>1, <1>2, <1>3, <1>4, FrameFacts

LEMMA LogStep == ASSUME IngestBase, LogFacts, [IngestNext]_ingestVars PROVE LogFacts'
<1>1. pc \in PCs /\ alert \in AlertRecords
  BY DEF IngestBase, IngestShape
<1>2. CASE WriteAlert
  <2>1. pc = "write_alert" /\ UNCHANGED <<alert, boot, frameSeq>>
        /\ alertsFile' = Append(alertsFile, alert)
    BY <1>2 DEF WriteAlert, volatile
  <2>2. Past(alert)
    <3>1. pc \in Counted
      BY <2>1 DEF Counted, Unsent, Unlogged, Stage, Uncounted, Unwiped
    <3> QED BY <3>1, AtHandIsPast
  <2>3. EverLogged' = EverLogged \cup {alert} /\ alert \in Range(alertsFile')
    BY <1>1, <1>2, <2>1, LoggedGrows, AppendRange DEF IngestBase, IngestShape
  <2> QED BY <1>1, <2>1, <2>2, <2>3 DEF LogFacts, Past
<1>3. CASE ~WriteAlert
  <2>1. EverLogged' = EverLogged
    BY <1>3, LoggedGrows
  <2>2. \A a \in EverLogged' : Past(a)'
    BY <2>1, PastStays DEF LogFacts
  <2>3. pc' \in Logged => alert' \in Range(alertsFile')
    <3>1. CASE Sample \/ PowerLoss
      BY <3>1 DEF Sample, PowerLoss, Logged
    <3>2. CASE ~Sample /\ ~PowerLoss
      BY <1>1, <1>3, <3>2, PcFacts, FrameFacts DEF LogFacts
    <3> QED BY <3>1, <3>2
  <2> QED BY <2>1, <2>2, <2>3 DEF LogFacts, Past
<1> QED BY <1>2, <1>3

------------------------------------------------------------------------------
(***************************************************************************)
(* The audit file.                                                         *)
(***************************************************************************)
Missing == {a \in EverLogged : Audited(a)} \ EverAudited

AuditFacts ==
  /\ pc \in {"set_hold", "send"} /\ Audited(alert) => alert \in AuditedAlerts
  /\ EverAudited \subseteq EverLogged
  /\ \A a \in Missing : a.boot = boot => a = alert /\ pc \in {"write_audit", "down"}
  /\ \A a, b \in Missing : a.boot = b.boot => a = b

\* What WriteAudit adds to the file.
LEMMA WrittenEntry ==
  ASSUME IngestBase, WriteAudit
  PROVE  /\ pc = "write_audit" /\ pc' = "set_hold"
         /\ UNCHANGED <<alert, boot, frameSeq, alertsFile, prevHash>>
         /\ Audited(alert) =>
              /\ entry # <<>> /\ entry[1].content = AlertContent(alert)
              /\ auditFile' = Append(auditFile, entry[1])
              /\ Len(auditFile') = Len(auditFile) + 1
              /\ \A i \in 1..Len(auditFile) : auditFile'[i] = auditFile[i]
              /\ auditFile'[Len(auditFile) + 1] = entry[1]
              /\ Range(auditFile') = Range(auditFile) \cup {entry[1]}
         /\ ~Audited(alert) => entry = <<>> /\ auditFile' = auditFile
<1>1. /\ pc = "write_audit" /\ pc' = "set_hold" /\ auditFile' = auditFile \o entry
      /\ UNCHANGED <<alert, boot, frameSeq, alertsFile, prevHash>>
  BY DEF WriteAudit, volatile, logger
<1>2. Audited(alert) <=> entry # <<>>
  BY <1>1 DEF IngestBase, EntryAtHand, Writing
<1>3. auditFile \in Seq(Range(auditFile))
  BY DEF IngestBase, IngestShape
<1>4. CASE Audited(alert)
  <2> DEFINE e == entry[1]
             S == Range(auditFile) \cup {e}
  <2>1. entry = <<e>> /\ e.content = AlertContent(alert)
    BY <1>2, <1>4 DEF IngestBase, EntryAtHand
  <2>2. auditFile \in Seq(S) /\ e \in S
    BY <1>3, SeqMonotonic
  <2> HIDE DEF e, S
  <2>3. auditFile \o <<e>> = Append(auditFile, e)
    BY <2>2
  <2>4. auditFile' = Append(auditFile, e)
    BY <1>1, <2>1, <2>3
  <2>5. /\ Len(auditFile') = Len(auditFile) + 1
        /\ \A i \in 1..Len(auditFile) : auditFile'[i] = auditFile[i]
        /\ auditFile'[Len(auditFile) + 1] = e
        /\ Range(auditFile') = Range(auditFile) \cup {e}
    BY <2>2, <2>4, AppendRange
  <2> QED BY <1>1, <1>2, <1>4, <2>1, <2>4, <2>5 DEF e
<1>5. CASE ~Audited(alert)
  <2>1. entry = <<>> /\ auditFile \o <<>> = auditFile
    BY <1>2, <1>3, <1>5, ConcatEmptySeq
  <2> QED BY <1>1, <1>5, <2>1
<1> QED BY <1>4, <1>5

LEMMA AuditedGrows ==
  ASSUME IngestBase, WriteAudit
  PROVE  AuditedAlerts' = AuditedAlerts \cup (IF Audited(alert) THEN {alert} ELSE {})
<1>1. CASE Audited(alert)
  <2> DEFINE e == entry[1]
  <2>1. Range(auditFile') = Range(auditFile) \cup {e} /\ e.content = AlertContent(alert)
    BY <1>1, WrittenEntry
  <2>2. e.content.of = alert
    BY <2>1 DEF AlertContent
  <2> HIDE DEF e
  <2> QED BY <1>1, <2>1, <2>2 DEF AuditedAlerts
<1>2. CASE ~Audited(alert)
  BY <1>2, WrittenEntry DEF AuditedAlerts
<1> QED BY <1>1, <1>2

\* Only WriteAudit audits, and what has been audited is accounted for ever after.
LEMMA EverAuditedGrows ==
  ASSUME IngestBase, [IngestNext]_ingestVars
  PROVE  EverAudited' = EverAudited \cup (IF WriteAudit /\ Audited(alert) THEN {alert} ELSE {})
<1>1. CASE WriteAudit
  <2>1. UNCHANGED taken
    BY <1>1 DEF WriteAudit
  <2> QED BY <1>1, <2>1, AuditedGrows DEF EverAudited
<1>2. CASE PowerLoss
  <2>1. ~WriteAudit
    BY <1>2 DEF PowerLoss, WriteAudit
  <2> QED BY <1>2, <2>1, PowerLossFacts DEF IngestBase
<1>3. CASE UNCHANGED <<auditFile, taken>> /\ ~WriteAudit
  BY <1>3 DEF EverAudited, AuditedAlerts
<1>4. WriteAudit => UNCHANGED taken
  BY DEF WriteAudit
<1> QED BY <1>1, <1>2, <1>3, <1>4, FrameFacts

LEMMA AuditStep ==
  ASSUME IngestBase, LogFacts, AuditFacts, [IngestNext]_ingestVars
  PROVE  AuditFacts'
<1>1. pc \in PCs
  BY DEF IngestBase, IngestShape
<1>2. CASE WriteAudit
  <2>1. /\ pc = "write_audit" /\ pc' = "set_hold" /\ UNCHANGED <<alert, boot>>
        /\ Audited(alert) => alert \in AuditedAlerts'
    BY <1>2, WrittenEntry, AuditedGrows
  <2>2. /\ EverLogged' = EverLogged
        /\ EverAudited' = EverAudited \cup (IF Audited(alert) THEN {alert} ELSE {})
    <3>1. ~WriteAlert
      BY <2>1 DEF WriteAlert
    <3> QED BY <1>2, <3>1, LoggedGrows, EverAuditedGrows
  <2>3. alert \in EverLogged
    BY <2>1 DEF LogFacts, Logged, EverLogged
  <2>4. Missing' \subseteq Missing /\ (Audited(alert) => alert \notin Missing')
    BY <2>2 DEF Missing, Audited
  <2>5. \A a \in Missing' : Audited(a)
    BY DEF Missing, Audited
  <2>6. \A a \in Missing' : a.boot # boot
    BY <2>4, <2>5 DEF AuditFacts
  <2>7. EverAudited' \subseteq EverLogged'
    BY <2>2, <2>3 DEF AuditFacts
  <2> QED BY <2>1, <2>4, <2>6, <2>7 DEF AuditFacts, Audited
<1>3. CASE WriteAlert
  <2>1. pc = "write_alert" /\ pc' = "write_audit" /\ UNCHANGED <<alert, boot>>
    BY <1>3 DEF WriteAlert, volatile
  <2>2. EverLogged' = EverLogged \cup {alert} /\ EverAudited' = EverAudited
    <3>1. ~WriteAudit
      BY <2>1 DEF WriteAudit
    <3> QED BY <1>3, <3>1, LoggedGrows, EverAuditedGrows
  <2>3. Missing' \subseteq Missing \cup {alert}
    BY <2>1, <2>2 DEF Missing, Audited
  <2>4. \A a \in Missing : a.boot # boot
    BY <2>1 DEF AuditFacts
  <2>5. alert.boot = boot
    BY <2>1 DEF IngestBase, Position, Unsent, Unlogged, Stage
  <2> QED BY <2>1, <2>2, <2>3, <2>4, <2>5 DEF AuditFacts
<1>4. CASE ~WriteAlert /\ ~WriteAudit
  <2>1. EverLogged' = EverLogged /\ EverAudited' = EverAudited /\ Missing' = Missing
    BY <1>4, LoggedGrows, EverAuditedGrows DEF Missing, Audited
  <2>2. pc' \in {"set_hold", "send"} /\ Audited(alert') => alert' \in AuditedAlerts'
    <3>1. CASE Sample \/ PowerLoss
      BY <3>1 DEF Sample, PowerLoss
    <3>2. CASE ~Sample /\ ~PowerLoss
      <4>1. UNCHANGED <<alert, auditFile>>
        BY <1>4, <3>2, FrameFacts
      <4>2. AuditedAlerts' = AuditedAlerts
        BY <4>1 DEF AuditedAlerts
      <4> QED BY <1>1, <1>4, <4>1, <4>2, PcFacts DEF AuditFacts
    <3> QED BY <3>1, <3>2
  <2>3. ASSUME NEW a \in Missing, a.boot = boot'
        PROVE  a = alert' /\ pc' \in {"write_audit", "down"}
    <3>1. CASE Boot
      <4>1. a \in AlertRecords /\ Past(a)
        BY DEF Missing, LogFacts
      <4>2. boot' = boot + 1 /\ boot \in Nat /\ a.boot \in Nat
        BY <3>1, <4>1, IngestBoundAssumption DEF Boot, AlertRecords, IngestBase, IngestShape
      <4> QED BY <2>3, <4>1, <4>2 DEF Past
    <3>2. CASE ~Boot
      <4>1. boot' = boot
        BY <3>2, FrameFacts DEF GuardianProcess
      <4>2. a = alert /\ pc \in {"write_audit", "down"}
        BY <2>3, <4>1 DEF AuditFacts
      <4>3. pc' \in {pc, "down"} /\ UNCHANGED alert
        BY <1>1, <1>4, <3>2, <4>2, PcFacts, FrameFacts DEF Sample
      <4> QED BY <4>2, <4>3
    <3> QED BY <3>1, <3>2
  <2>4. EverAudited' \subseteq EverLogged'
    BY <2>1 DEF AuditFacts
  <2>5. \A a, b \in Missing' : a.boot = b.boot => a = b
    BY <2>1 DEF AuditFacts
  <2> QED BY <2>1, <2>2, <2>3, <2>4, <2>5 DEF AuditFacts
<1> QED BY <1>2, <1>3, <1>4

LEMMA LogsStart == ASSUME IngestInit PROVE LogFacts /\ AuditFacts
<1>1. /\ Range(alertsFile) = {} /\ Range(auditFile) = {} /\ pc = "down"
      /\ taken.log = {} /\ taken.audit = {}
  BY EmptyRange DEF IngestInit
<1>2. EverLogged = {} /\ EverAudited = {} /\ Missing = {}
  BY <1>1 DEF EverLogged, EverAudited, AuditedAlerts, Missing
<1> QED BY <1>1, <1>2 DEF LogFacts, AuditFacts, Logged

LEMMA RecordsSafe == IngestSpec => [](IngestBase /\ StoreFacts /\ LogFacts /\ AuditFacts)
<1> DEFINE Inv == IngestBase /\ StoreFacts /\ LogFacts /\ AuditFacts
<1>1. IngestInit => Inv
  BY BaseStart, StoreStart, LogsStart
<1>2. Inv /\ [IngestNext]_ingestVars => Inv'
  BY BaseStep, StoreStep, LogStep, AuditStep
<1> QED BY <1>1, <1>2, PTL DEF IngestSpec

\* An audited alert is in the alert log, and a critical alert of the log lacks its
\* entry only if its process died between the two writes; what power losses took
\* from either file, each on its own, counts as what it was.
THEOREM LogsTellTheSame == IngestSpec => []LogsAgree
<1>1. AuditFacts => LogsAgree
  BY DEF AuditFacts, LogsAgree, Missing
<1> QED BY <1>1, RecordsSafe, PTL

------------------------------------------------------------------------------
(***************************************************************************)
(* What is relayed.                                                        *)
(***************************************************************************)
RelayFacts ==
  /\ \A a \in RelayedAlerts : Past(a)
  /\ pc \in Unsent => \A a \in RelayedAlerts : Before(a, alert)
  /\ EvidenceBeforeRelay
  /\ RelayOnceInOrder

LEMMA RelayedTyped == ASSUME IngestShape PROVE RelayedAlerts \subseteq AlertRecords
<1>1. Range(air) \subseteq Messages /\ Range(spool) \subseteq Messages
  BY InRange DEF IngestShape
<1> QED BY <1>1 DEF RelayedAlerts, Messages

\* Only Send relays, and what it relays is the alert at hand.
LEMMA RelayedGrows ==
  ASSUME IngestBase, [IngestNext]_ingestVars
  PROVE  /\ RelayedAlerts' \subseteq RelayedAlerts \cup (IF Send THEN {alert} ELSE {})
<1>1. CASE Send
  <2> DEFINE m == Message(alert)
  <2>1. m \in Messages /\ m.alert = alert
    BY DEF Message, Messages, IngestBase, IngestShape
  <2>2. /\ Range(Append(air, m)) = Range(air) \cup {m}
        /\ Range(Append(spool, m)) = Range(spool) \cup {m}
    BY <2>1, AppendRange DEF IngestBase, IngestShape
  <2>3. Range(air') \cup Range(spool') \subseteq Range(air) \cup Range(spool) \cup {m}
    BY <1>1, <2>2, SendFacts
  <2> HIDE DEF m
  <2> QED BY <1>1, <2>1, <2>3 DEF RelayedAlerts
<1>2. CASE WipeSpool /\ ~Send
  <2>1. UNCHANGED air /\ (spool' = <<>> \/ UNCHANGED spool)
    BY <1>2 DEF WipeSpool, handler
  <2>2. Range(spool') \subseteq Range(spool)
    BY <2>1, EmptyRange
  <2> QED BY <1>2, <2>1, <2>2 DEF RelayedAlerts
<1>3. CASE PowerLoss /\ ~Send
  <2>1. UNCHANGED air /\ Range(spool') \subseteq Range(spool)
    BY <1>3, PowerLossFacts DEF PowerLoss, handler, IngestBase
  <2> QED BY <1>3, <2>1 DEF RelayedAlerts
<1>4. CASE UNCHANGED <<air, spool>> /\ ~Send
  BY <1>4 DEF RelayedAlerts
<1> QED BY <1>1, <1>2, <1>3, <1>4, FrameFacts

\* A message after those of all earlier alerts keeps a place in order.
LEMMA AppendAscends ==
  ASSUME NEW s \in Seq(Messages), Ascending(s), NEW m \in Messages,
         \A x \in Range(s) : Before(x.alert, m.alert)
  PROVE  Ascending(Append(s, m))
<1> DEFINE t == Append(s, m)
           n == Len(s)
<1>1. /\ n \in Nat /\ Len(t) = n + 1 /\ t[n + 1] = m
      /\ \A i \in 1..n : t[i] = s[i] /\ s[i] \in Range(s)
  BY AppendRange, InRange
<1> HIDE DEF t
<1>2. SUFFICES ASSUME NEW i \in 1..(n + 1), NEW j \in 1..(n + 1), i < j
               PROVE  Before(t[i].alert, t[j].alert)
  BY <1>1 DEF Ascending, t
<1>3. i \in 1..n
  BY <1>1, <1>2
<1>4. CASE j = n + 1
  BY <1>1, <1>3, <1>4
<1>5. CASE j \in 1..n
  BY <1>1, <1>2, <1>3, <1>5 DEF Ascending
<1> QED BY <1>1, <1>4, <1>5

LEMMA OrderStep ==
  ASSUME IngestBase, RelayFacts, [IngestNext]_ingestVars
  PROVE  RelayOnceInOrder'
<1>1. CASE Send
  <2> DEFINE m == Message(alert)
  <2>1. m \in Messages /\ m.alert = alert /\ alert \in AlertRecords
    BY DEF Message, Messages, IngestBase, IngestShape
  <2>2. \A x \in Range(air) \cup Range(spool) : Before(x.alert, alert)
    BY <1>1, SendFacts DEF RelayFacts, RelayedAlerts, Unsent, Logged
  <2>3. ~Before(alert, alert)
    BY <2>1 DEF Before, AlertRecords
  <2>4. m \notin Range(air) \cup Range(spool)
    BY <2>1, <2>2, <2>3
  <2>5. /\ Ascending(Append(air, m)) /\ Range(Append(air, m)) = Range(air) \cup {m}
        /\ Ascending(Append(spool, m)) /\ Range(Append(spool, m)) = Range(spool) \cup {m}
    BY <2>1, <2>2, AppendAscends, AppendRange
       DEF RelayFacts, RelayOnceInOrder, IngestBase, IngestShape
  <2>6. \/ UNCHANGED <<air, spool>>
        \/ air' = Append(air, m) /\ UNCHANGED spool
        \/ spool' = Append(spool, m) /\ UNCHANGED air
    BY <1>1, SendFacts
  <2>7. Ascending(air') /\ Ascending(spool')
    BY <2>5, <2>6 DEF RelayFacts, RelayOnceInOrder
  <2>8. Range(air') \cap Range(spool') = {}
    BY <2>4, <2>5, <2>6 DEF RelayFacts, RelayOnceInOrder
  <2> QED BY <2>7, <2>8 DEF RelayOnceInOrder, Ascending
<1>2. CASE WipeSpool
  <2>1. UNCHANGED air /\ (spool' = <<>> \/ UNCHANGED spool)
    BY <1>2 DEF WipeSpool, handler
  <2>2. Ascending(<<>>) /\ Range(<<>>) = {}
    BY EmptyRange, EmptySeq DEF Ascending
  <2> QED BY <2>1, <2>2 DEF RelayFacts, RelayOnceInOrder, Ascending
<1>3. CASE PowerLoss
  <2>1. /\ UNCHANGED air /\ Range(spool') \subseteq Range(spool)
        /\ Len(spool') \in 0..Len(spool)
        /\ \A i \in 1..Len(spool') : spool'[i] = spool[i]
    BY <1>3, PowerLossFacts DEF PowerLoss, handler, IngestBase
  <2>2. 1..Len(spool') \subseteq 1..Len(spool)
    BY <2>1, InRange DEF IngestBase, IngestShape
  <2>3. Ascending(spool)'
    BY <2>1, <2>2 DEF RelayFacts, RelayOnceInOrder, Ascending, Before
  <2> QED BY <2>1, <2>3 DEF RelayFacts, RelayOnceInOrder, Ascending
<1>4. CASE UNCHANGED <<air, spool>>
  BY <1>4 DEF RelayFacts, RelayOnceInOrder, Ascending
<1> QED BY <1>1, <1>2, <1>3, <1>4, FrameFacts

\* The three records of an alert outlive every step.
LEMMA EvidenceStays ==
  ASSUME IngestBase, StoreFacts, RelayFacts, [IngestNext]_ingestVars,
         NEW a \in RelayedAlerts
  PROVE  Stored(a)' /\ a \in EverLogged' /\ a \in EverAudited'
<1>1. a \in AlertRecords /\ Stored(a) /\ a \in EverLogged /\ a \in EverAudited
  BY RelayedTyped DEF RelayFacts, EvidenceBeforeRelay, IngestBase
<1>2. Stored(a)'
  <2>1. CASE Store
    <3>1. pc \in Unstored /\ pc \in Unsent /\ StoreAppend(alert) /\ UNCHANGED alert
      BY <2>1 DEF Store, Unstored, Unsent, Unlogged, volatile
    <3>2. Before(a, alert)
      BY <3>1 DEF RelayFacts
    <3> QED BY <1>1, <3>1, <3>2, StoreKeeps DEF StoreFacts, IngestBase
  <2>2. CASE UNCHANGED rows
    BY <1>1, <2>2 DEF Stored
  <2> QED BY <2>1, <2>2, FrameFacts
<1> QED BY <1>1, <1>2, LoggedGrows, EverAuditedGrows

LEMMA RelayStep ==
  ASSUME IngestBase, StoreFacts, LogFacts, AuditFacts, RelayFacts, [IngestNext]_ingestVars
  PROVE  RelayFacts'
<1>1. RelayedAlerts \subseteq AlertRecords /\ pc \in PCs
  BY RelayedTyped DEF IngestBase, IngestShape
<1>2. RelayOnceInOrder'
  BY OrderStep
<1>3. CASE Send
  <2>1. pc = "send" /\ pc' \notin Unsent
        /\ UNCHANGED <<alert, boot, frameSeq, rows>>
    BY <1>3 DEF Send, Die, Unsent, Unlogged, Unstored, Uncounted, Unwiped, Stage, Logged,
                volatile, files
  <2>2. RelayedAlerts' \subseteq RelayedAlerts \cup {alert}
    BY <1>3, RelayedGrows
  <2>3. Past(alert)
    <3>1. pc \in Counted
      BY <2>1 DEF Counted, Unsent, Logged, Uncounted, Unwiped
    <3> QED BY <3>1, AtHandIsPast
  <2>4. Stored(alert) /\ alert \in EverLogged /\ alert \in EverAudited
    <3>1. Relayed(alert) /\ Audited(alert)
      BY <2>1 DEF IngestBase, Position, Relayed, Audited, Critical
    <3> QED BY <2>1, <3>1 DEF StoreFacts, LogFacts, AuditFacts, Logged, EverLogged, EverAudited
  <2>5. EvidenceBeforeRelay'
    <3> SUFFICES ASSUME NEW a \in RelayedAlerts'
                 PROVE  Stored(a)' /\ a \in EverLogged' /\ a \in EverAudited'
      BY DEF EvidenceBeforeRelay
    <3>1. CASE a = alert
      BY <2>1, <2>4, <3>1, LoggedGrows, EverAuditedGrows DEF Stored
    <3>2. CASE a \in RelayedAlerts
      BY <3>2, EvidenceStays
    <3> QED BY <2>2, <3>1, <3>2
  <2>6. \A a \in RelayedAlerts' : Past(a)'
    BY <2>1, <2>2, <2>3 DEF RelayFacts, Past
  <2> QED BY <1>2, <2>1, <2>5, <2>6 DEF RelayFacts, Past
<1>4. CASE ~Send
  <2>1. RelayedAlerts' \subseteq RelayedAlerts
    BY <1>4, RelayedGrows
  <2>2. \A a \in RelayedAlerts' : Past(a)'
    BY <1>1, <2>1, PastStays DEF RelayFacts
  <2>3. EvidenceBeforeRelay'
    BY <2>1, EvidenceStays DEF EvidenceBeforeRelay
  <2>4. pc' \in Unsent => \A a \in RelayedAlerts' : Before(a, alert')
    <3>1. CASE Sample
      BY <2>1, <3>1, SampledIsNext DEF RelayFacts
    <3>2. CASE UNCHANGED alert /\ ~Sample
      BY <1>1, <2>1, <3>2, PcFacts DEF RelayFacts
    <3> QED BY <3>1, <3>2, FrameFacts
  <2> QED BY <1>2, <2>2, <2>3, <2>4 DEF RelayFacts, Past, Before
<1> QED BY <1>3, <1>4

LEMMA RelayStart == ASSUME IngestInit PROVE RelayFacts
<1>1. air = <<>> /\ spool = <<>> /\ Range(<<>>) = {} /\ Len(<<>>) = 0
  BY EmptyRange, EmptySeq DEF IngestInit
<1>2. RelayedAlerts = {}
  BY <1>1 DEF RelayedAlerts
<1> QED BY <1>1, <1>2 DEF RelayFacts, EvidenceBeforeRelay, RelayOnceInOrder, Ascending

LEMMA RelaySafe == IngestSpec => []RelayFacts
<1> DEFINE Inv == IngestBase /\ StoreFacts /\ LogFacts /\ AuditFacts
<1>1. IngestInit => RelayFacts
  BY RelayStart
<1>2. Inv /\ RelayFacts /\ [IngestNext]_ingestVars => RelayFacts'
  BY RelayStep
<1>3. IngestSpec => []Inv
  BY RecordsSafe
<1> HIDE DEF Inv
<1> QED BY <1>1, <1>2, <1>3, PTL DEF IngestSpec

\* Whatever a neighbour hears or finds in the spool is on record in all three
\* places, wherever the process was interrupted before or since, but for what power
\* losses took from the alert log and the audit file: never from the store.
THEOREM RelayedIsOnRecord == IngestSpec => []EvidenceBeforeRelay
<1>1. RelayFacts => EvidenceBeforeRelay
  BY DEF RelayFacts
<1> QED BY <1>1, RelaySafe, PTL

\* No alert is relayed twice or out of order, over all processes of the node.
THEOREM RelayedOnce == IngestSpec => []RelayOnceInOrder
<1>1. RelayFacts => RelayOnceInOrder
  BY DEF RelayFacts
<1> QED BY <1>1, RelaySafe, PTL

------------------------------------------------------------------------------
(***************************************************************************)
(* The refinement of EvidenceLog. What is needed besides is that the alert   *)
(* at hand comes after all that has been logged until it is logged itself,   *)
(* and is not audited before its entry is written.                          *)
(***************************************************************************)
RecordFacts ==
  /\ pc \in Unlogged => \A a \in EverLogged : Before(a, alert)
  /\ pc = "write_audit" => alert \notin EverAudited

LEMMA RecordStep ==
  ASSUME IngestBase, LogFacts, AuditFacts, RecordFacts, [IngestNext]_ingestVars
  PROVE  RecordFacts'
<1>1. pc \in PCs /\ alert \in AlertRecords
  BY DEF IngestBase, IngestShape
<1>2. CASE WriteAlert
  <2>1. pc = "write_alert" /\ pc' = "write_audit" /\ UNCHANGED alert
    BY <1>2 DEF WriteAlert, volatile
  <2>2. alert \notin EverLogged
    <3>1. \A a \in EverLogged : Before(a, alert)
      BY <2>1 DEF RecordFacts, Unlogged, Stage
    <3> QED BY <1>1, <3>1 DEF Before, AlertRecords
  <2>3. alert \notin EverAudited'
    <3>1. ~WriteAudit
      BY <2>1 DEF WriteAudit
    <3> QED BY <2>2, <3>1, EverAuditedGrows DEF AuditFacts
  <2>4. pc' \notin Unlogged
    BY <2>1 DEF Unlogged, Unstored, Uncounted, Unwiped, Stage
  <2> QED BY <2>1, <2>3, <2>4 DEF RecordFacts
<1>3. CASE Sample
  <2>1. pc' \in {"tamper", "process"} /\ ~WriteAlert
    BY <1>3 DEF Sample, WriteAlert
  <2>2. \A a \in EverLogged' : Before(a, alert')
    BY <1>3, <2>1, LoggedGrows, SampledIsNext DEF LogFacts
  <2> QED BY <2>1, <2>2 DEF RecordFacts, Before
<1>4. CASE ~WriteAlert /\ ~Sample
  <2>1. UNCHANGED alert /\ EverLogged' = EverLogged
    BY <1>4, FrameFacts, LoggedGrows
  <2>2. pc' \in Unlogged => pc \in Unlogged
    BY <1>1, <1>4, PcFacts
  <2>3. ASSUME pc' = "write_audit" PROVE pc = "write_audit" /\ EverAudited' = EverAudited
    <3>1. pc \in Logged
      BY <1>1, <1>4, <2>3, PcFacts DEF Logged
    <3>2. pc \in Writing \/ AuditAlert
      BY <1>1, <2>3, PcFacts DEF Writing
    <3>3. ~AuditAlert /\ ~WriteAudit
      BY <2>3 DEF AuditAlert, WriteAudit
    <3> QED BY <3>1, <3>2, <3>3, EverAuditedGrows DEF Logged, Writing
  <2> QED BY <2>1, <2>2, <2>3 DEF RecordFacts, Before
<1> QED BY <1>2, <1>3, <1>4

LEMMA RecordSafe == IngestSpec => []RecordFacts
<1> DEFINE Inv == IngestBase /\ StoreFacts /\ LogFacts /\ AuditFacts
<1>1. IngestInit => RecordFacts
  BY DEF IngestInit, RecordFacts, Unlogged, Unstored, Uncounted, Unwiped, Stage
<1>2. Inv /\ RecordFacts /\ [IngestNext]_ingestVars => RecordFacts'
  BY RecordStep
<1>3. IngestSpec => []Inv
  BY RecordsSafe
<1> HIDE DEF Inv
<1> QED BY <1>1, <1>2, <1>3, PTL DEF IngestSpec

\* A sequence that is longer by one element at its end.
LEMMA GrownBy ==
  ASSUME NEW T, NEW t \in Seq(T), NEW x \in T,
         NEW u, u \in [1..(Len(t) + 1) -> T],
         \A i \in 1..Len(t) : u[i] = t[i], u[Len(t) + 1] = x
  PROVE  u = Append(t, x)
<1>1. /\ Append(t, x) \in Seq(T) /\ Len(Append(t, x)) = Len(t) + 1
      /\ \A i \in 1..Len(t) : Append(t, x)[i] = t[i]
      /\ Append(t, x)[Len(t) + 1] = x
  BY AppendRange
<1>2. Len(t) \in Nat
  BY LenProperties
<1>3. u \in Seq(T) /\ Len(u) = Len(t) + 1
  BY <1>2
<1>4. \A i \in 1..Len(u) : u[i] = Append(t, x)[i]
  <2> SUFFICES ASSUME NEW i \in 1..(Len(t) + 1) PROVE u[i] = Append(t, x)[i]
    BY <1>3
  <2>1. i \in 1..Len(t) \/ i = Len(t) + 1
    BY <1>2
  <2> QED BY <1>1, <2>1
<1> QED BY <1>1, <1>3, <1>4, SeqEqual

\* The alerts of messages that grow by one.
LEMMA AlertsAppend ==
  ASSUME NEW s \in Seq(Messages), NEW m \in Messages
  PROVE  /\ AlertsOf(Append(s, m)) = Append(AlertsOf(s), m.alert)
         /\ Range(AlertsOf(s)) = {x.alert : x \in Range(s)}
<1> DEFINE n == Len(s)
<1>1. /\ n \in Nat /\ DOMAIN s = 1..n /\ \A i \in 1..n : s[i] \in Messages
  BY LenProperties, ElementOfSeq
<1>2. /\ Append(s, m) \in Seq(Messages) /\ Len(Append(s, m)) = n + 1
      /\ \A i \in 1..n : Append(s, m)[i] = s[i]
      /\ Append(s, m)[n + 1] = m
  BY AppendRange
<1>3. DOMAIN Append(s, m) = 1..(n + 1)
  BY <1>2, LenProperties
<1>4. \A x \in Messages : x.alert \in AlertRecords
  BY DEF Messages
<1> HIDE DEF n
<1>5. AlertsOf(s) \in [1..n -> AlertRecords] /\ \A i \in 1..n : AlertsOf(s)[i] = s[i].alert
  BY <1>1, <1>4 DEF AlertsOf
<1>6. AlertsOf(s) \in Seq(AlertRecords) /\ Len(AlertsOf(s)) = n
  BY <1>1, <1>5
<1>7. \A i \in 1..(n + 1) : AlertsOf(Append(s, m))[i] = Append(s, m)[i].alert
  BY <1>3 DEF AlertsOf
<1>8. \A i \in 1..(n + 1) : Append(s, m)[i] \in Messages
  BY <1>2, ElementOfSeq
<1>9. AlertsOf(Append(s, m)) \in [1..(n + 1) -> AlertRecords]
  BY <1>3, <1>4, <1>8 DEF AlertsOf
<1>10. /\ \A i \in 1..n : AlertsOf(Append(s, m))[i] = AlertsOf(s)[i]
       /\ AlertsOf(Append(s, m))[n + 1] = m.alert
  BY <1>1, <1>2, <1>5, <1>7
<1>11. AlertsOf(Append(s, m)) = Append(AlertsOf(s), m.alert)
  BY <1>4, <1>6, <1>9, <1>10, GrownBy
<1>12. Range(AlertsOf(s)) = {x.alert : x \in Range(s)}
  BY <1>1, <1>5 DEF Range
<1> QED BY <1>11, <1>12

LEMMA EntriesRange == ASSUME IngestBase PROVE Range(AlertsOfEntries) = AuditedAlerts
<1>1. /\ DOMAIN auditFile = 1..Len(auditFile)
      /\ \A i \in 1..Len(auditFile) : auditFile[i] \in Range(auditFile)
      /\ \A x \in Range(auditFile) : \E i \in 1..Len(auditFile) : x = auditFile[i]
  BY InRange DEF IngestBase, IngestShape
<1> QED BY <1>1 DEF Range, AlertsOfEntries, AuditedAlerts

\* The alerts of the audit file, before and after it is written.
LEMMA EntriesAppend ==
  ASSUME IngestBase, WriteAudit
  PROVE  /\ Range(AlertsOfEntries) = AuditedAlerts
         /\ Audited(alert) => AlertsOfEntries' = Append(AlertsOfEntries, alert)
         /\ ~Audited(alert) => AlertsOfEntries' = AlertsOfEntries
<1> DEFINE n == Len(auditFile)
           T == AuditedAlerts \cup {alert}
<1>1. /\ n \in Nat /\ DOMAIN auditFile = 1..n
      /\ \A i \in 1..n : auditFile[i] \in Range(auditFile)
      /\ \A x \in Range(auditFile) : \E i \in 1..n : x = auditFile[i]
  BY InRange DEF IngestBase, IngestShape
<1>2. \A i \in 1..n : auditFile[i].content.of \in T
  BY <1>1 DEF AuditedAlerts
<1> HIDE DEF n, T
<1>3. /\ AlertsOfEntries \in [1..n -> T]
      /\ \A i \in 1..n : AlertsOfEntries[i] = auditFile[i].content.of
  BY <1>1, <1>2 DEF AlertsOfEntries
<1>4. AlertsOfEntries \in Seq(T) /\ Len(AlertsOfEntries) = n
  BY <1>1, <1>3
<1>5. Range(AlertsOfEntries) = AuditedAlerts
  BY EntriesRange
<1>6. CASE Audited(alert)
  <2> DEFINE e == entry[1]
  <2>1. /\ auditFile' = Append(auditFile, e) /\ e.content = AlertContent(alert)
        /\ Len(auditFile') = n + 1 /\ auditFile'[n + 1] = e
        /\ \A i \in 1..n : auditFile'[i] = auditFile[i]
    BY <1>6, WrittenEntry DEF n
  <2>2. DOMAIN auditFile' = 1..(n + 1)
    <3>1. auditFile \in Seq(Range(auditFile) \cup {e}) /\ e \in Range(auditFile) \cup {e}
      BY SeqMonotonic DEF IngestBase, IngestShape
    <3> HIDE DEF e
    <3>2. Append(auditFile, e) \in Seq(Range(auditFile) \cup {e})
      BY <3>1
    <3> QED BY <2>1, <3>2, LenProperties
  <2>3. e.content.of = alert
    BY <2>1 DEF AlertContent
  <2> HIDE DEF e
  <2>4. \A i \in 1..(n + 1) : AlertsOfEntries'[i] = auditFile'[i].content.of
    BY <2>2 DEF AlertsOfEntries
  <2>5. /\ \A i \in 1..n : AlertsOfEntries'[i] = AlertsOfEntries[i]
        /\ AlertsOfEntries'[n + 1] = alert
    BY <1>1, <1>3, <2>1, <2>3, <2>4
  <2>6. AlertsOfEntries' \in [1..(n + 1) -> T]
    <3>1. DOMAIN AlertsOfEntries' = 1..(n + 1)
      BY <2>2 DEF AlertsOfEntries
    <3>2. AlertsOfEntries' = [i \in 1..(n + 1) |-> AlertsOfEntries'[i]]
      BY <2>2 DEF AlertsOfEntries
    <3>3. ASSUME NEW i \in 1..(n + 1) PROVE AlertsOfEntries'[i] \in T
      <4>1. i \in 1..n \/ i = n + 1
        BY <1>1
      <4>2. alert \in T
        BY DEF T
      <4> QED BY <1>3, <2>5, <4>1, <4>2
    <3> QED BY <3>2, <3>3
  <2>7. alert \in T
    BY DEF T
  <2>8. AlertsOfEntries' = Append(AlertsOfEntries, alert)
    BY <1>4, <2>5, <2>6, <2>7, GrownBy
  <2> QED BY <1>5, <1>6, <2>8
<1>7. CASE ~Audited(alert)
  BY <1>5, <1>7, WrittenEntry DEF AlertsOfEntries
<1> QED BY <1>6, <1>7

\* A mapped sequence that is cut is the cut sequence mapped.
LEMMA CutMap ==
  ASSUME NEW T, NEW t \in Seq(T), NEW n \in 0..Len(t),
         NEW u, u \in [1..n -> T], \A i \in 1..n : u[i] = t[i]
  PROVE  u = SubSeq(t, 1, n)
<1>1. /\ SubSeq(t, 1, n) \in Seq(T) /\ Len(SubSeq(t, 1, n)) = n
      /\ \A i \in 1..n : SubSeq(t, 1, n)[i] = t[i]
  BY PrefixFacts
<1>2. n \in Nat
  BY LenProperties
<1>3. u \in Seq(T) /\ Len(u) = n
  BY <1>2
<1>4. \A i \in 1..Len(u) : u[i] = SubSeq(t, 1, n)[i]
  BY <1>1, <1>3
<1> QED BY <1>1, <1>3, <1>4, SeqEqual

LEMMA AlertsLength ==
  ASSUME NEW s \in Seq(Messages)
  PROVE  AlertsOf(s) \in Seq(AlertRecords) /\ Len(AlertsOf(s)) = Len(s)
<1>1. /\ Len(s) \in Nat /\ DOMAIN s = 1..Len(s) /\ \A i \in 1..Len(s) : s[i] \in Messages
  BY LenProperties, ElementOfSeq
<1>2. AlertsOf(s) \in [1..Len(s) -> AlertRecords]
  BY <1>1 DEF AlertsOf, Messages
<1> QED BY <1>1, <1>2

LEMMA EntriesLength ==
  ASSUME IngestShape
  PROVE  AlertsOfEntries \in Seq(AuditedAlerts) /\ Len(AlertsOfEntries) = Len(auditFile)
<1>1. /\ Len(auditFile) \in Nat /\ DOMAIN auditFile = 1..Len(auditFile)
      /\ \A i \in 1..Len(auditFile) : auditFile[i] \in Range(auditFile)
  BY InRange DEF IngestShape
<1>2. AlertsOfEntries \in [1..Len(auditFile) -> AuditedAlerts]
  BY <1>1 DEF AlertsOfEntries, AuditedAlerts
<1> QED BY <1>1, <1>2

\* A power loss is a loss of EvidenceLog.
LEMMA LossIsLose == ASSUME IngestBase, PowerLoss PROVE Evidence!Lose
<1>1. /\ disk' \in [log : disk.log..Len(alertsFile), audit : disk.audit..Len(auditFile),
                    spool : disk.spool..Len(spool), env : {disk.env, envFile}]
      /\ alertsFile' = SubSeq(alertsFile, 1, disk'.log)
      /\ auditFile' = SubSeq(auditFile, 1, disk'.audit)
      /\ spool' = SubSeq(spool, 1, disk'.spool)
      /\ pc' = "down" /\ UNCHANGED air
  BY DEF PowerLoss, handler
<1>2. /\ disk'.log \in disk.log..Len(alertsFile) /\ disk'.audit \in disk.audit..Len(auditFile)
      /\ disk'.spool \in disk.spool..Len(spool)
      /\ disk'.log \in 0..Len(alertsFile) /\ disk'.audit \in 0..Len(auditFile)
      /\ disk'.spool \in 0..Len(spool)
  <2>1. disk \in [log : 0..Len(alertsFile), audit : 0..Len(auditFile), spool : 0..Len(spool),
                  env : {"intact", "zeroed", "gone"}]
    BY DEF IngestBase, IngestShape
  <2> QED BY <1>1, <2>1
<1>3. /\ AlertsOf(spool) \in Seq(AlertRecords) /\ Len(AlertsOf(spool)) = Len(spool)
      /\ AlertsOfEntries \in Seq(AuditedAlerts) /\ Len(AlertsOfEntries) = Len(auditFile)
  BY AlertsLength, EntriesLength DEF IngestBase, IngestShape
<1>4. AlertsOf(spool)' = SubSeq(AlertsOf(spool), 1, disk'.spool)
  <2> DEFINE n == disk'.spool
             u == AlertsOf(spool)'
  <2>1. /\ spool' \in Seq(Messages) /\ Len(spool') = n
        /\ \A i \in 1..n : spool'[i] = spool[i] /\ i \in 1..Len(spool)
    BY <1>1, <1>2, PrefixFacts DEF IngestBase, IngestShape
  <2>2. DOMAIN spool' = 1..n /\ DOMAIN spool = 1..Len(spool)
    BY <2>1, LenProperties DEF IngestBase, IngestShape
  <2>3. \A i \in 1..n : spool'[i] \in Messages
    BY <2>1, ElementOfSeq
  <2>4. u \in [1..n -> AlertRecords] /\ \A i \in 1..n : u[i] = AlertsOf(spool)[i]
    BY <2>1, <2>2, <2>3 DEF AlertsOf, Messages
  <2> HIDE DEF u, n
  <2>5. n \in 0..Len(AlertsOf(spool))
    BY <1>2, <1>3 DEF n
  <2>6. u = SubSeq(AlertsOf(spool), 1, n)
    BY <1>3, <2>4, <2>5, CutMap
  <2> QED BY <2>6 DEF u, n
<1>5. AlertsOfEntries' = SubSeq(AlertsOfEntries, 1, disk'.audit)
  <2> DEFINE n == disk'.audit
             u == AlertsOfEntries'
  <2>1. /\ auditFile' \in Seq(Range(auditFile)) /\ Len(auditFile') = n
        /\ \A i \in 1..n : auditFile'[i] = auditFile[i] /\ i \in 1..Len(auditFile)
    BY <1>1, <1>2, PrefixFacts DEF IngestBase, IngestShape
  <2>2. DOMAIN auditFile' = 1..n /\ DOMAIN auditFile = 1..Len(auditFile)
    BY <2>1, LenProperties DEF IngestBase, IngestShape
  <2>3. \A i \in 1..n : auditFile'[i] \in Range(auditFile)
    BY <2>1, ElementOfSeq
  <2>4. u \in [1..n -> AuditedAlerts] /\ \A i \in 1..n : u[i] = AlertsOfEntries[i]
    BY <2>1, <2>2, <2>3 DEF AlertsOfEntries, AuditedAlerts
  <2> HIDE DEF u, n
  <2>5. n \in 0..Len(AlertsOfEntries)
    BY <1>2, <1>3 DEF n
  <2>6. u = SubSeq(AlertsOfEntries, 1, n)
    BY <1>3, <2>4, <2>5, CutMap
  <2> QED BY <2>6 DEF u, n
<1>6. UNCHANGED AlertsOf(air)
  BY <1>1 DEF AlertsOf
<1> QED BY <1>1, <1>2, <1>3, <1>4, <1>5, <1>6 DEF Evidence!Lose

LEMMA EvidenceStep ==
  ASSUME IngestBase, LogFacts, AuditFacts, RelayFacts, RecordFacts, [IngestNext]_ingestVars
  PROVE  [Evidence!Next]_Evidence!records
<1> DEFINE heard == AlertsOf(air)
           waiting == AlertsOf(spool)
           current == IF pc \in Logged THEN <<alert>> ELSE <<>>
           kept == [log |-> disk.log, audit |-> disk.audit, waiting |-> disk.spool]
<1> USE DEF Evidence!records
<1>1. alert \in AlertRecords /\ alertsFile \in Seq(AlertRecords)
      /\ air \in Seq(Messages) /\ spool \in Seq(Messages) /\ pc \in PCs
  BY DEF IngestBase, IngestShape
<1>2. /\ Range(AlertsOfEntries) = AuditedAlerts
      /\ Range(heard) \cup Range(waiting) = RelayedAlerts
  <2>1. Message(alert) \in Messages
    BY <1>1 DEF Message, Messages
  <2> QED BY <1>1, <2>1, EntriesRange, AlertsAppend DEF RelayedAlerts
<1>3. CASE WriteAlert
  <2>1. /\ pc = "write_alert" /\ pc' = "write_audit" /\ alertsFile' = Append(alertsFile, alert)
        /\ UNCHANGED <<auditFile, air, spool, alert, disk>>
    BY <1>3 DEF WriteAlert, handler, meshFiles, volatile
  <2>2. UNCHANGED <<AlertsOfEntries, heard, waiting, kept>>
    BY <2>1 DEF AlertsOfEntries, AlertsOf
  <2>3. \A b \in EverLogged \cup RelayedAlerts : Before(b, alert)
    BY <2>1 DEF RecordFacts, RelayFacts, Unsent, Unlogged, Stage
  <2>4. AuditedAlerts \subseteq EverLogged /\ Range(alertsFile) \subseteq EverLogged
    BY DEF AuditFacts, EverAudited, EverLogged
  <2>5. \A b \in Evidence!OnRecord : Evidence!Earlier(b, alert)
    <3>1. Evidence!OnRecord = Range(alertsFile) \cup AuditedAlerts \cup RelayedAlerts
      BY <1>2 DEF Evidence!OnRecord, Evidence!Range, Range
    <3> QED BY <2>3, <2>4, <3>1 DEF Before, Evidence!Earlier
  <2>6. alert \in Range(alertsFile') /\ current' = <<alert>>
    BY <1>1, <2>1, AppendRange DEF Logged
  <2> HIDE DEF heard, waiting, kept
  <2>7. Evidence!Record(alert)
    BY <1>1, <2>1, <2>2, <2>5, <2>6 DEF Evidence!Record, Logged, heard, waiting, kept
  <2> QED BY <2>6, <2>7 DEF Evidence!Next, Evidence!Range, Range
<1>4. CASE WriteAudit
  <2>1. /\ pc = "write_audit" /\ pc' = "set_hold" /\ UNCHANGED <<alertsFile, air, spool, alert, disk>>
    BY <1>4 DEF WriteAudit, handler, meshFiles, volatile
  <2>2. UNCHANGED <<heard, waiting, kept>> /\ current = <<alert>> /\ current' = <<alert>>
    BY <2>1 DEF AlertsOf, Logged
  <2>3. alert \in Range(current)
    BY <2>2 DEF Range
  <2> HIDE DEF heard, waiting, kept
  <2>4. CASE Audited(alert)
    <3>1. /\ AlertsOfEntries' = Append(AlertsOfEntries, alert)
          /\ alert \notin Range(AlertsOfEntries)
      BY <1>2, <1>4, <2>1, <2>4, EntriesAppend DEF RecordFacts, EverAudited
    <3>2. Evidence!Attest(alert)
      BY <1>1, <2>1, <2>2, <2>4, <3>1
         DEF Evidence!Attest, Evidence!Range, Range, Logged, heard, waiting, kept
    <3> QED BY <2>3, <3>2 DEF Evidence!Next, Evidence!Range, Range, Logged
  <2>5. CASE ~Audited(alert)
    <3>1. UNCHANGED AlertsOfEntries
      BY <1>4, <2>5, EntriesAppend
    <3> QED BY <2>1, <2>2, <3>1 DEF heard, waiting, kept, Logged
  <2> QED BY <2>4, <2>5
<1>5. CASE Send
  <2> DEFINE m == Message(alert)
  <2>1. m \in Messages /\ m.alert = alert
    BY <1>1 DEF Message, Messages
  <2>2. pc = "send" /\ pc' \notin Logged /\ UNCHANGED <<alertsFile, auditFile, disk, alert>>
    BY <1>5 DEF Send, Die, files, volatile, Logged
  <2>3. Relayed(alert) /\ Audited(alert)
    BY <2>2 DEF IngestBase, Position, Relayed, Audited, Critical
  <2>4. alert \in AuditedAlerts /\ alert \notin RelayedAlerts
    BY <1>1, <2>2, <2>3 DEF AuditFacts, RelayFacts, Unsent, Logged, Before, AlertRecords
  <2>5. UNCHANGED <<AlertsOfEntries, kept>> /\ current = <<alert>> /\ current' = <<>>
        /\ alert \in Range(current)
    BY <2>2 DEF AlertsOfEntries, Logged, Range
  <2>6. \/ UNCHANGED <<heard, waiting>>
        \/ heard' = Append(heard, alert) /\ UNCHANGED waiting
        \/ waiting' = Append(waiting, alert) /\ UNCHANGED heard
    <3>1. CASE UNCHANGED <<air, spool>>
      BY <3>1 DEF AlertsOf
    <3>2. CASE air' = Append(air, m) /\ UNCHANGED spool
      <4>1. AlertsOf(Append(air, m)) = Append(AlertsOf(air), alert)
        BY <1>1, <2>1, AlertsAppend
      <4> QED BY <3>2, <4>1 DEF AlertsOf
    <3>3. CASE spool' = Append(spool, m) /\ UNCHANGED air
      <4>1. AlertsOf(Append(spool, m)) = Append(AlertsOf(spool), alert)
        BY <1>1, <2>1, AlertsAppend
      <4> QED BY <3>3, <4>1 DEF AlertsOf
    <3> QED BY <1>5, <3>1, <3>2, <3>3, SendFacts
  <2> HIDE DEF heard, waiting, kept
  <2>7. CASE UNCHANGED <<heard, waiting>>
    <3>1. Evidence!Close
      BY <2>2, <2>5, <2>7 DEF Evidence!Close, heard, waiting, kept, Logged
    <3> QED BY <3>1 DEF Evidence!Next
  <2>8. CASE ~UNCHANGED <<heard, waiting>>
    <3>1. Evidence!Relay(alert)
      BY <1>1, <1>2, <2>2, <2>3, <2>4, <2>5, <2>6, <2>8
         DEF Evidence!Relay, Evidence!Range, Range, heard, waiting, kept, Logged
    <3> QED BY <2>5, <3>1 DEF Evidence!Next, Evidence!Range, Range, Logged
  <2> QED BY <2>7, <2>8
<1>6. CASE WipeSpool
  <2>1. /\ UNCHANGED <<alertsFile, auditFile, air>> /\ pc \notin Logged /\ pc' \notin Logged
        /\ \/ spool' = <<>> /\ disk' = [disk EXCEPT !.spool = 0]
           \/ UNCHANGED <<spool, disk>>
    BY <1>6 DEF WipeSpool, handler, files, Logged
  <2>2. UNCHANGED <<alertsFile, AlertsOfEntries, heard>> /\ current = <<>> /\ current' = <<>>
    BY <2>1 DEF AlertsOfEntries, AlertsOf
  <2>3. CASE spool' = <<>> /\ disk' = [disk EXCEPT !.spool = 0]
    <3>1. waiting' = <<>>
      BY <2>3 DEF AlertsOf
    <3>2. kept' = [kept EXCEPT !.waiting = 0]
      BY <2>3 DEF IngestBase, IngestShape
    <3>3. Evidence!Forget
      BY <2>2, <3>1, <3>2 DEF Evidence!Forget, Logged
    <3> QED BY <3>3 DEF Evidence!Next
  <2>4. CASE UNCHANGED <<spool, disk>>
    BY <2>2, <2>4 DEF AlertsOf, Logged
  <2> QED BY <2>1, <2>3, <2>4
<1>7. CASE PowerLoss
  BY <1>7, LossIsLose DEF Evidence!Next
<1>8. CASE /\ UNCHANGED <<alertsFile, auditFile, air, spool, disk>> \/ ZeroEnvFile
           /\ ~WriteAlert /\ ~WriteAudit
  <2>1. UNCHANGED <<alertsFile, auditFile, air, spool>>
    BY <1>8 DEF ZeroEnvFile, handler, meshFiles
  <2>2. UNCHANGED <<AlertsOfEntries, heard, waiting>>
    BY <2>1 DEF AlertsOf, AlertsOfEntries
  <2>3. UNCHANGED kept
    <3>1. UNCHANGED disk \/ disk' = [disk EXCEPT !.env = "zeroed"]
      BY <1>8 DEF ZeroEnvFile
    <3> QED BY <3>1 DEF IngestBase, IngestShape
  <2>4. current' = current \/ current' = <<>>
    <3>1. CASE pc' \in Logged
      <4>1. pc \in Logged /\ ~Sample
        BY <1>1, <1>8, <3>1, PcFacts DEF Sample, Logged
      <4> QED BY <3>1, <4>1, FrameFacts
    <3>2. CASE pc' \notin Logged
      BY <3>2
    <3> QED BY <3>1, <3>2
  <2> HIDE DEF heard, waiting, kept
  <2>5. CASE current' = <<>>
    <3>1. Evidence!Close
      BY <2>1, <2>2, <2>3, <2>5 DEF Evidence!Close, heard, waiting, kept, Logged
    <3> QED BY <3>1 DEF Evidence!Next
  <2>6. CASE current' = current
    BY <2>1, <2>2, <2>3, <2>6 DEF heard, waiting, kept, Logged
  <2> QED BY <2>4, <2>5, <2>6
<1> QED BY <1>3, <1>4, <1>5, <1>6, <1>7, <1>8, FrameFacts

\* The records of the node implement EvidenceLog, through crashes, power losses and
\* wipes: run_live_ingest writes nothing late, twice or out of order, and only the
\* wipe of the spool and a power loss take anything back.
THEOREM RecordsImplementLog == IngestSpec => ImplementsEvidenceLog
<1> DEFINE Inv == IngestBase /\ LogFacts /\ AuditFacts /\ RelayFacts /\ RecordFacts
<1>1. IngestInit => Evidence!Init
  BY DEF IngestInit, Evidence!Init, AlertsOf, AlertsOfEntries
<1>2. Inv /\ [IngestNext]_ingestVars => [Evidence!Next]_Evidence!records
  BY EvidenceStep
<1>3. IngestSpec => []Inv
  BY RecordsSafe, RelaySafe, RecordSafe, PTL
<1> HIDE DEF Inv
<1> QED BY <1>1, <1>2, <1>3, PTL DEF IngestSpec, ImplementsEvidenceLog, Evidence!Spec

------------------------------------------------------------------------------
(***************************************************************************)
(* The gaps of the audit file.                                             *)
(***************************************************************************)
Control(h) == h[3].event \in {"boot", "tamper_wipe"}

\* An entry linked to h may stand at place i.
Links(h, i) == (i > 1 /\ h = auditFile[i - 1].hash) \/ Control(h)

GapFacts ==
  /\ \A i \in 1..Len(auditFile) : Links(auditFile[i].prev_hash, i)
  /\ pc \notin {"down", "done"} =>
       IF pc \in Writing /\ entry # <<>>
         THEN /\ Links(entry[1].prev_hash, Len(auditFile) + 1)
              /\ prevHash = entry[1].hash
         ELSE Links(prevHash, Len(auditFile) + 1)

LEMMA GapStep == ASSUME IngestBase, GapFacts, [IngestNext]_ingestVars PROVE GapFacts'
<1> DEFINE n == Len(auditFile)
<1>1. pc \in PCs /\ n \in Nat
  BY InRange DEF IngestBase, IngestShape
<1>2. CASE WriteAudit
  <2>1. pc = "write_audit" /\ pc' = "set_hold" /\ UNCHANGED <<alert, prevHash>>
    BY <1>2, WrittenEntry
  <2>2. CASE Audited(alert)
    <3> DEFINE e == entry[1]
    <3>1. /\ entry # <<>> /\ Len(auditFile') = n + 1 /\ auditFile'[n + 1] = e
          /\ \A i \in 1..n : auditFile'[i] = auditFile[i]
      BY <1>2, <2>2, WrittenEntry
    <3>2. Links(e.prev_hash, n + 1) /\ prevHash = e.hash
      BY <2>1, <3>1 DEF GapFacts, Writing
    <3> HIDE DEF e
    <3>3. ASSUME NEW i \in 1..(n + 1) PROVE Links(auditFile[i].prev_hash, i)'
      <4>1. i > 1 => auditFile'[i - 1] = auditFile[i - 1]
        BY <1>1, <3>1
      <4>2. CASE i = n + 1
        BY <3>1, <3>2, <4>1, <4>2 DEF Links
      <4>3. CASE i \in 1..n
        BY <3>1, <4>1, <4>3 DEF GapFacts, Links
      <4> QED BY <1>1, <4>2, <4>3
    <3>4. Links(prevHash, Len(auditFile) + 1)'
      <4>1. Len(auditFile') + 1 > 1 /\ (Len(auditFile') + 1) - 1 = n + 1
        BY <1>1, <3>1
      <4> QED BY <2>1, <3>1, <3>2, <4>1 DEF Links
    <3> QED BY <2>1, <3>1, <3>3, <3>4 DEF GapFacts, Writing
  <2>3. CASE ~Audited(alert)
    <3>1. entry = <<>> /\ auditFile' = auditFile
      BY <1>2, <2>3, WrittenEntry
    <3>2. Links(prevHash, n + 1)
      BY <2>1, <3>1 DEF GapFacts, Writing
    <3> QED BY <2>1, <3>1, <3>2 DEF GapFacts, Links, Writing
  <2> QED BY <2>2, <2>3
<1>3. CASE UNCHANGED auditFile /\ ~WriteAudit
  <2>2. \A i \in 1..Len(auditFile') : Links(auditFile[i].prev_hash, i)'
    BY <1>3 DEF GapFacts, Links
  <2>3. CASE Boot
    <3>1. pc' = "sample" /\ prevHash'[3].event = "boot"
      BY <2>3 DEF Boot, Mac, BootContent
    <3> QED BY <2>2, <3>1 DEF GapFacts, Links, Control, Writing
  <2>4. CASE HandleTamper
    <3>1. pc' \notin Writing /\ prevHash'[3].event = "tamper_wipe"
      BY <2>4 DEF HandleTamper, Entry, Mac, WipeContent, Writing
    <3> QED BY <2>2, <3>1 DEF GapFacts, Links, Control
  <2>5. CASE AuditAlert
    <3>1. pc = "audit" /\ pc' = "write_alert" /\ pc \notin Writing /\ pc' \in Writing
          /\ entry = <<>>
      BY <2>5 DEF AuditAlert, Writing, IngestBase, EntryAtHand
    <3>2. Links(prevHash, n + 1)
      BY <3>1 DEF GapFacts
    <3>3. CASE Audited(alert)
      <4> DEFINE e == Entry(AlertContent(alert))
      <4>1. entry' = <<e>> /\ prevHash' = e.hash /\ e.prev_hash = prevHash
        BY <2>5, <3>3 DEF AuditAlert, AppendEntry, Entry
      <4> HIDE DEF e
      <4>2. entry' # <<>> /\ entry'[1] = e
        BY <4>1
      <4> QED BY <1>3, <2>2, <3>1, <3>2, <4>1, <4>2 DEF GapFacts, Links
    <3>4. CASE ~Audited(alert)
      <4>1. entry' = <<>> /\ prevHash' = prevHash
        BY <2>5, <3>1, <3>4 DEF AuditAlert, logger
      <4> QED BY <1>3, <2>2, <3>1, <3>2, <4>1 DEF GapFacts, Links
    <3> QED BY <3>3, <3>4
  <2>6. CASE ~Boot /\ ~HandleTamper /\ ~AuditAlert
    <3>1. UNCHANGED prevHash /\ (UNCHANGED entry \/ pc' \notin Writing)
      BY <2>6, FrameFacts DEF Sample, Writing
    <3>2. SUFFICES ASSUME pc' \notin {"down", "done"}
                   PROVE  IF pc' \in Writing /\ entry' # <<>>
                            THEN /\ Links(entry[1].prev_hash, Len(auditFile) + 1)'
                                 /\ prevHash' = entry'[1].hash
                            ELSE Links(prevHash, Len(auditFile) + 1)'
      BY <2>2 DEF GapFacts, Links
    <3>3. pc \notin {"down", "done"} /\ (pc' \in Writing <=> pc \in Writing)
      BY <1>1, <1>3, <2>6, <3>2, PcFacts
    <3>4. CASE pc \in Writing
      BY <1>3, <3>1, <3>3, <3>4 DEF GapFacts, Links
    <3>5. CASE pc \notin Writing
      BY <1>3, <3>1, <3>3, <3>5 DEF GapFacts, Links
    <3> QED BY <3>4, <3>5
  <2> QED BY <2>3, <2>4, <2>5, <2>6
<1>4. CASE PowerLoss
  <2>1. /\ pc' = "down" /\ Len(auditFile') \in 0..n
        /\ \A i \in 1..Len(auditFile') : auditFile'[i] = auditFile[i]
    BY <1>4, PowerLossFacts DEF IngestBase
  <2>2. ASSUME NEW i \in 1..Len(auditFile') PROVE Links(auditFile[i].prev_hash, i)'
    <3>1. i \in 1..n /\ auditFile'[i] = auditFile[i]
      BY <1>1, <2>1
    <3>2. i > 1 => auditFile'[i - 1] = auditFile[i - 1]
      <4>1. i > 1 => i - 1 \in 1..Len(auditFile')
        BY <1>1, <2>1
      <4> QED BY <2>1, <4>1
    <3> QED BY <3>1, <3>2 DEF GapFacts, Links
  <2> QED BY <2>1, <2>2 DEF GapFacts
<1> QED BY <1>2, <1>3, <1>4, FrameFacts DEF PowerLoss, WriteAudit

\* Where the audit file does not chain, the missing entry is that of a boot or of a
\* tamper wipe; no alert is skipped.
THEOREM GapsAreKnown == IngestSpec => []GapsAreControlEntries
<1>1. IngestInit => GapFacts
  <2>1. IngestInit => Len(auditFile) = 0 /\ pc = "down"
    BY EmptySeq DEF IngestInit
  <2> QED BY <2>1 DEF GapFacts
<1>2. IngestBase /\ GapFacts /\ [IngestNext]_ingestVars => GapFacts'
  BY GapStep
<1>3. GapFacts => GapsAreControlEntries
  BY DEF GapFacts, GapsAreControlEntries, Links, Control
<1> QED BY <1>1, <1>2, <1>3, BaseSafe, PTL DEF IngestSpec

------------------------------------------------------------------------------
(***************************************************************************)
(* Types. A frame adds at most two entries to the chain.                   *)
(***************************************************************************)
EntryCount ==
  /\ nextSeq \in Nat /\ nextSeq <= 2 * MaxFrames + 1
  /\ pc \in {"sample", "tamper"} => nextSeq <= 2 * frameSeq + 1
  /\ pc \in Unwiped \cup {"process"} => nextSeq <= 2 * frameSeq + 2
  /\ pc \in {"store", "validate", "audit"} => nextSeq <= 2 * frameSeq
  /\ pc \in Writing \cup {"set_hold", "send"} => nextSeq <= 2 * frameSeq + 1

LEMMA CountStep == ASSUME IngestBase, EntryCount, [IngestNext]_ingestVars PROVE EntryCount'
<1> USE DEF EntryCount, Unwiped, Writing, volatile, logger
<1>0. /\ frameSeq \in Nat /\ MaxFrames \in Nat /\ frameSeq <= MaxFrames
      /\ pc \in Uncounted => frameSeq < MaxFrames
  BY IngestBoundAssumption DEF IngestBase, IngestShape, Position
<1>1. CASE Boot
  BY <1>0, <1>1 DEF Boot
<1>2. CASE Crash
  BY <1>2 DEF Crash, Die
<1>3. CASE Finish
  BY <1>3 DEF Finish
<1>4. CASE Sample
  BY <1>0, <1>4 DEF Sample
<1>5. CASE HandleTamper
  <2>1. frameSeq < MaxFrames /\ pc = "tamper"
    BY <1>0, <1>5 DEF HandleTamper, Uncounted
  <2>2. /\ nextSeq' = nextSeq + 1 /\ pc' \in {"process", "wipe_spool"}
        /\ UNCHANGED frameSeq
    BY <1>5 DEF HandleTamper
  <2> QED BY <1>0, <2>1, <2>2
<1>6. CASE WipeSpool
  BY <1>6 DEF WipeSpool
<1>7. CASE ZeroEnvFile
  BY <1>7 DEF ZeroEnvFile
<1>8. CASE UnlinkEnvFile
  BY <1>8 DEF UnlinkEnvFile
<1>9. CASE GuardianProcess
  BY <1>0, <1>9 DEF GuardianProcess
<1>10. CASE Store
  BY <1>10 DEF Store
<1>11. CASE ValidateAlert
  BY <1>11 DEF ValidateAlert
<1>12. CASE AuditAlert
  <2>1. /\ nextSeq' \in {nextSeq, nextSeq + 1} /\ UNCHANGED frameSeq
        /\ pc = "audit" /\ pc' = "write_alert"
    BY <1>12 DEF AuditAlert, AppendEntry
  <2> QED BY <1>0, <2>1
<1>13. CASE WriteAlert
  BY <1>13 DEF WriteAlert
<1>14. CASE WriteAudit
  BY <1>14 DEF WriteAudit
<1>15. CASE SetHold
  BY <1>15 DEF SetHold
<1>16. CASE Send
  BY <1>16 DEF Send, Die
<1>17. CASE UNCHANGED ingestVars
  BY <1>17 DEF ingestVars
<1>18. CASE PowerLoss
  BY <1>18 DEF PowerLoss
<1> QED BY <1>1, <1>2, <1>3, <1>4, <1>5, <1>6, <1>7, <1>8, <1>9, <1>10, <1>11, <1>12,
           <1>13, <1>14, <1>15, <1>16, <1>17, <1>18 DEF IngestNext, Loop

\* The types of the live service, for every bound.
THEOREM IngestTypes == IngestSpec => []IngestTypeOK
<1>1. IngestInit => EntryCount
  BY IngestBoundAssumption DEF IngestInit, EntryCount, Unwiped, Writing
<1>2. IngestBase /\ EntryCount /\ [IngestNext]_ingestVars => EntryCount'
  BY CountStep
<1>3. IngestBase /\ LogFacts /\ AuditFacts /\ EntryCount => IngestTypeOK
  <2> SUFFICES ASSUME IngestBase, LogFacts, AuditFacts, EntryCount PROVE IngestTypeOK
    OBVIOUS
  <2>1. nextSeq \in 0..(2 * MaxFrames + 1)
    BY IngestBoundAssumption DEF EntryCount
  <2>2. Range(rows) \cup Range(alertsFile) \subseteq AlertRecords
    BY InRange DEF IngestBase, IngestShape
  <2>3. Len(entry) <= 1 /\ \A e \in Range(entry) : e.content = AlertContent(alert)
    <3>1. CASE entry = <<>>
      BY <3>1, EmptyRange, EmptySeq
    <3>2. CASE entry = <<entry[1]>> /\ entry[1].content = AlertContent(alert)
      <4> DEFINE e == entry[1]
      <4>1. Len(<<e>>) = 1 /\ Range(<<e>>) = {e}
        BY DEF Range
      <4> HIDE DEF e
      <4>2. entry = <<e>> /\ e.content = AlertContent(alert)
        BY <3>2 DEF e
      <4> QED BY <4>1, <4>2
    <3> QED BY <3>1, <3>2 DEF IngestBase, EntryAtHand
  <2>4. /\ disk.log \in 0..Len(alertsFile) /\ disk.audit \in 0..Len(auditFile)
        /\ disk.spool \in 0..Len(spool)
        /\ {envFile, disk.env} \subseteq {"intact", "zeroed", "gone"}
    BY DEF IngestBase, IngestShape
  <2>5. taken.log \cup taken.audit \subseteq AlertRecords
    BY DEF LogFacts, AuditFacts, EverLogged, EverAudited
  <2> QED BY <2>1, <2>2, <2>3, <2>4, <2>5 DEF IngestTypeOK, IngestBase, IngestShape
<1> QED BY <1>1, <1>2, <1>3, RecordsSafe, PTL DEF IngestSpec

------------------------------------------------------------------------------
(***************************************************************************)
(* A pass goes on: what of CriticalFrameIsAudited and ThreatIsHandedOver     *)
(* does not depend on fairness.                                            *)
(***************************************************************************)

\* The effects of the pass that are left, the next one included.
StepsLeft ==
  [tamper |-> 12, wipe_spool |-> 11, zero_env |-> 10, unlink_env |-> 9, process |-> 8,
   store |-> 7, validate |-> 6, audit |-> 5, write_alert |-> 4, write_audit |-> 3,
   set_hold |-> 2, send |-> 1]

\* What a critical or relayed alert leaves when its pass ends.
OnRecord ==
  /\ Audited(alert) => alert \in AuditedAlerts'
  /\ Relayed(alert) /\ ~SpoolMayFail => alert \in RelayedAlerts'

\* A step of a pass ends the process, brings the same alert nearer to the end, or
\* ends the pass with the alert on record.
PassGoesOn ==
  pc \in Unsent =>
    \/ pc' = "down"
    \/ pc' \in Unsent /\ StepsLeft[pc'] < StepsLeft[pc] /\ UNCHANGED <<alert, boot>>
    \/ pc' = "sample" /\ OnRecord

\* Hold mode is off when a threat is sent.
HoldIsOff == pc = "send" => ~hold

LEMMA HoldStep == ASSUME IngestBase, HoldIsOff, [IngestNext]_ingestVars PROVE HoldIsOff'
<1> SUFFICES ASSUME pc' = "send" PROVE ~hold'
  BY DEF HoldIsOff
<1>1. CASE SetHold
  <2>1. hold' = (alert.level = "HOLD") /\ Relayed(alert)
    BY <1>1 DEF SetHold, SetHoldMode
  <2> QED BY <2>1 DEF Relayed, Threat
<1>2. CASE UNCHANGED ingestVars
  BY <1>2 DEF ingestVars, handler, HoldIsOff
<1> QED BY <1>1, <1>2 DEF IngestNext, Boot, Crash, Die, PowerLoss, Finish, Loop, Sample, HandleTamper,
      WipeSpool, ZeroEnvFile, UnlinkEnvFile, GuardianProcess, Store, ValidateAlert,
      AuditAlert, WriteAlert, WriteAudit, Send

\* A threat that is sent is on the air or in the spool after it.
LEMMA SentIsRelayed ==
  ASSUME IngestBase, HoldIsOff, Send, ~CannotSign, ~SpoolMayFail
  PROVE  alert \in RelayedAlerts'
<1> DEFINE m == Message(alert)
<1>1. m \in Messages /\ m.alert = alert
  BY DEF Message, Messages, IngestBase, IngestShape
<1>2. ~hold /\ alert.level # "HOLD" /\ SendAlert(alert)
  BY DEF Send, HoldIsOff, IngestBase, Position, Relayed, Threat
<1>3. air' = Append(air, m) \/ spool' = Append(spool, m)
  BY <1>2 DEF SendAlert, SuppressSend, Transmit, SpoolSend, SpoolWrite
<1>4. /\ Range(Append(air, m)) = Range(air) \cup {m}
      /\ Range(Append(spool, m)) = Range(spool) \cup {m}
  BY <1>1, AppendRange DEF IngestBase, IngestShape
<1> HIDE DEF m
<1>5. m \in Range(air') \cup Range(spool')
  BY <1>3, <1>4
<1> QED BY <1>1, <1>5 DEF RelayedAlerts

LEMMA PassStep ==
  ASSUME IngestBase, AuditFacts, HoldIsOff, IngestNext
  PROVE  PassGoesOn
<1> SUFFICES ASSUME pc \in Unsent, pc' # "down"
             PROVE  \/ pc' \in Unsent /\ StepsLeft[pc'] < StepsLeft[pc] /\ UNCHANGED <<alert, boot>>
                    \/ pc' = "sample" /\ OnRecord
  BY DEF PassGoesOn
<1>1. UNCHANGED <<alert, boot>>
  <2>1. ~Boot /\ ~Sample
    BY DEF Boot, Sample, Unsent, Unlogged, Unstored, Uncounted, Unwiped, Stage, Logged
  <2>2. UNCHANGED boot
    BY <2>1 DEF IngestNext, Crash, Die, PowerLoss, Finish, Loop, HandleTamper, WipeSpool, ZeroEnvFile,
      UnlinkEnvFile, GuardianProcess, Store, ValidateAlert, AuditAlert, WriteAlert,
      WriteAudit, SetHold, Send
  <2> QED BY <2>1, <2>2, FrameFacts
<1> DEFINE Nearer == pc' \in Unsent /\ StepsLeft[pc'] < StepsLeft[pc]
<1>2. CASE HandleTamper \/ WipeSpool \/ ZeroEnvFile \/ UnlinkEnvFile
  <2>1. Nearer
    BY <1>2 DEF HandleTamper, WipeSpool, ZeroEnvFile, UnlinkEnvFile, StepsLeft, Unsent,
      Unlogged, Unstored, Uncounted, Unwiped
  <2> QED BY <1>1, <2>1
<1>3. CASE GuardianProcess \/ Store \/ ValidateAlert \/ AuditAlert \/ WriteAlert \/ WriteAudit
  <2>1. Nearer
    BY <1>3 DEF GuardianProcess, Store, ValidateAlert, AuditAlert, WriteAlert, WriteAudit,
      StepsLeft, Unsent, Unlogged, Unstored, Stage, Logged
  <2> QED BY <1>1, <2>1
<1>4. CASE SetHold
  <2>1. /\ pc = "set_hold" /\ pc' = IF Relayed(alert) THEN "send" ELSE "sample"
        /\ UNCHANGED auditFile
    BY <1>4 DEF SetHold, files
  <2>2. CASE Relayed(alert)
    <3>1. Nearer
      BY <2>1, <2>2 DEF StepsLeft, Unsent, Logged
    <3> QED BY <1>1, <3>1
  <2>3. CASE ~Relayed(alert)
    BY <2>1, <2>3 DEF OnRecord, AuditFacts, AuditedAlerts
  <2> QED BY <2>2, <2>3
<1>5. CASE Send
  <2>1. /\ pc = "send" /\ pc' = "sample" /\ ~CannotSign /\ UNCHANGED auditFile
    BY <1>5 DEF Send, Die, files
  <2>2. Audited(alert) => alert \in AuditedAlerts'
    BY <2>1 DEF AuditFacts, AuditedAlerts
  <2> QED BY <1>5, <2>1, <2>2, SentIsRelayed DEF OnRecord
<1>6. ~Boot /\ ~Crash /\ ~PowerLoss /\ ~Finish /\ ~Sample
  BY DEF Boot, Crash, Die, PowerLoss, Finish, Sample, Unsent, Unlogged, Unstored, Uncounted, Unwiped,
    Stage, Logged
<1> QED BY <1>2, <1>3, <1>4, <1>5, <1>6 DEF IngestNext, Loop

(***************************************************************************)
(* A pass that has taken its sample makes at most twelve steps more, all of  *)
(* them about its alert, and only the death of the process ends it before    *)
(* a critical alert is in the audit file and a threat with the radio or, if   *)
(* the spool can be written, in the spool (ingest.py, one pass of the loop). *)
(***************************************************************************)
THEOREM PassEndsOnRecord == IngestSpec => [][PassGoesOn]_ingestVars
<1>1. IngestInit => HoldIsOff
  BY DEF IngestInit, HoldIsOff
<1>2. IngestBase /\ HoldIsOff /\ [IngestNext]_ingestVars => HoldIsOff'
  BY HoldStep
<1>3. IngestBase /\ AuditFacts /\ HoldIsOff /\ [IngestNext]_ingestVars => [PassGoesOn]_ingestVars
  BY PassStep
<1> QED BY <1>1, <1>2, <1>3, RecordsSafe, PTL DEF IngestSpec

------------------------------------------------------------------------------
(***************************************************************************)
(* What the findings show on one instance, for every one: the counterexample *)
(* is not a corner case.                                                   *)
(***************************************************************************)

\* Every number a running process gives out follows that of its boot entry.
NumberFacts ==
  /\ pc \notin {"down", "done"} =>
       /\ nextSeq \in Nat \ {0}
       /\ entry # <<>> => entry[1].seq \in Nat \ {0}
  /\ \A i \in 1..Len(auditFile) : auditFile[i].seq # 0

LEMMA NumberStep == ASSUME IngestBase, NumberFacts, [IngestNext]_ingestVars PROVE NumberFacts'
<1>1. pc \in PCs
  BY DEF IngestBase, IngestShape
<1>2. CASE WriteAudit
  <2>1. /\ pc = "write_audit" /\ pc' = "set_hold"
        /\ UNCHANGED <<nextSeq, entry>>
    BY <1>2 DEF WriteAudit, logger, volatile
  <2>2. CASE Audited(alert)
    <3>1. /\ entry # <<>> /\ Len(auditFile') = Len(auditFile) + 1
          /\ auditFile'[Len(auditFile) + 1] = entry[1]
          /\ \A i \in 1..Len(auditFile) : auditFile'[i] = auditFile[i]
      BY <1>2, <2>2, WrittenEntry
    <3>2. Len(auditFile) \in Nat
      BY InRange DEF IngestBase, IngestShape
    <3>3. \A i \in 1..Len(auditFile') : i = Len(auditFile) + 1 \/ i \in 1..Len(auditFile)
      BY <3>1, <3>2
    <3> QED BY <2>1, <3>1, <3>3 DEF NumberFacts
  <2>3. CASE ~Audited(alert)
    <3>1. auditFile' = auditFile
      BY <1>2, <2>3, WrittenEntry
    <3> QED BY <2>1, <3>1 DEF NumberFacts
  <2> QED BY <2>2, <2>3
<1>3. CASE PowerLoss
  <2>1. /\ pc' = "down" /\ Len(auditFile') \in 0..Len(auditFile)
        /\ \A i \in 1..Len(auditFile') : auditFile'[i] = auditFile[i]
    BY <1>3, PowerLossFacts DEF IngestBase
  <2>2. 1..Len(auditFile') \subseteq 1..Len(auditFile)
    BY <2>1, InRange DEF IngestBase, IngestShape
  <2> QED BY <2>1, <2>2 DEF NumberFacts
<1>4. CASE ~WriteAudit /\ ~PowerLoss
  <2>1. UNCHANGED auditFile
    BY <1>4, FrameFacts
  <2>2. CASE Boot
    BY <2>1, <2>2 DEF Boot, NumberFacts
  <2>3. CASE HandleTamper
    BY <2>1, <2>3 DEF HandleTamper, NumberFacts
  <2>4. CASE AuditAlert
    <3>1. pc = "audit" /\ nextSeq \in Nat \ {0}
      BY <2>4 DEF AuditAlert, NumberFacts
    <3>2. CASE Audited(alert)
      <4>1. nextSeq' = nextSeq + 1 /\ entry' = <<Entry(AlertContent(alert))>>
        BY <2>4, <3>2 DEF AuditAlert, AppendEntry
      <4>2. entry'[1].seq = nextSeq
        BY <4>1 DEF Entry
      <4> QED BY <2>1, <3>1, <4>1, <4>2 DEF NumberFacts
    <3>3. CASE ~Audited(alert)
      BY <2>1, <2>4, <3>1, <3>3 DEF AuditAlert, logger, NumberFacts
    <3> QED BY <3>2, <3>3
  <2>5. CASE Sample
    BY <2>1, <2>5 DEF Sample, logger, NumberFacts
  <2>6. CASE ~Boot /\ ~HandleTamper /\ ~AuditAlert /\ ~Sample
    <3>1. UNCHANGED <<nextSeq, entry>>
      BY <2>6, FrameFacts
    <3>2. pc' \notin {"down", "done"} => pc \notin {"down", "done"}
      BY <1>1, <2>6, PcFacts
    <3> QED BY <2>1, <3>1, <3>2 DEF NumberFacts
  <2> QED BY <2>2, <2>3, <2>4, <2>5, <2>6
<1> QED BY <1>2, <1>3, <1>4

\* An audit file of the live service that is not empty.
NoAuditFileVerifies == auditFile # <<>> => \A k : ~VerifyChain(k, auditFile)

(***************************************************************************)
(* No audit file that the live service has written to verifies, under any    *)
(* key: its first entry is never number 0, which went to the boot entry that *)
(* run_live_ingest appends to the chain and does not write.                 *)
(***************************************************************************)
THEOREM NoLiveFileVerifies == IngestSpec => []NoAuditFileVerifies
<1>1. IngestInit => NumberFacts
  <2>1. IngestInit => Len(auditFile) = 0 /\ pc = "down"
    BY EmptySeq DEF IngestInit
  <2> QED BY <2>1 DEF NumberFacts
<1>2. IngestBase /\ NumberFacts /\ [IngestNext]_ingestVars => NumberFacts'
  BY NumberStep
<1>3. ASSUME IngestBase, NumberFacts PROVE NoAuditFileVerifies
  <2> SUFFICES ASSUME auditFile # <<>>, NEW k, VerifyChain(k, auditFile) PROVE FALSE
    BY DEF NoAuditFileVerifies
  <2>1. 1 \in 1..Len(auditFile)
    BY <1>3, EmptySeq, LenProperties DEF IngestBase, IngestShape
  <2>2. auditFile[1].seq = 0
    BY <2>1 DEF VerifyChain
  <2> QED BY <1>3, <2>1, <2>2 DEF NumberFacts
<1> QED BY <1>1, <1>2, <1>3, BaseSafe, PTL DEF IngestSpec

\* Nothing is on record but rows of the store, and every pass ends before the chain.
NothingLogged ==
  /\ pc \in {"down", "done", "sample", "validate"} \cup Unstored
  /\ alertsFile = <<>> /\ auditFile = <<>> /\ air = <<>> /\ spool = <<>>

(***************************************************************************)
(* With the deployment manager enabled the live service never logs, audits   *)
(* or relays anything, however often it is restarted: its first alert carries *)
(* a guardian_state that the schema does not know, and every pass dies there. *)
(***************************************************************************)
THEOREM ChainNodesRecordNothing == ASSUME ChainPhase PROVE IngestSpec => []NothingLogged
<1> USE DEF NothingLogged, Unstored, Uncounted, Unwiped, handler, meshFiles, volatile, files
<1>1. IngestInit => NothingLogged
  BY DEF IngestInit
<1>2. ASSUME IngestBase, NothingLogged, [IngestNext]_ingestVars PROVE NothingLogged'
  <2>1. CASE Boot \/ Crash \/ Finish
    BY <1>2, <2>1 DEF Boot, Crash, Die, Finish
  <2>2. CASE Sample \/ HandleTamper \/ WipeSpool \/ ZeroEnvFile \/ UnlinkEnvFile
    BY <1>2, <2>2 DEF Sample, HandleTamper, WipeSpool, ZeroEnvFile, UnlinkEnvFile
  <2>3. CASE GuardianProcess \/ Store \/ ValidateAlert
    BY <1>2, <2>3 DEF GuardianProcess, Store, ValidateAlert
  <2>4. ~AuditAlert /\ ~WriteAlert /\ ~WriteAudit /\ ~SetHold /\ ~Send
    BY <1>2 DEF AuditAlert, WriteAlert, WriteAudit, SetHold, Send
  <2>5. CASE UNCHANGED ingestVars
    BY <1>2, <2>5 DEF ingestVars
  <2>6. CASE PowerLoss
    <3>1. pc' = "down" /\ Len(auditFile') \in 0..0 /\ Len(spool') \in 0..0
          /\ Range(alertsFile') \subseteq {}
          /\ alertsFile' \in Seq(AlertRecords) /\ spool' \in Seq(Messages)
          /\ auditFile' \in Seq(Range(auditFile'))
      BY <1>2, <2>6, PowerLossFacts, EmptySeq, EmptyRange DEF IngestBase
    <3>2. alertsFile' = <<>> /\ auditFile' = <<>> /\ spool' = <<>>
      BY <3>1, EmptySeq, InRange
    <3> QED BY <1>2, <2>6, <3>1, <3>2 DEF PowerLoss
  <2> QED BY <1>2, <2>1, <2>2, <2>3, <2>4, <2>5, <2>6 DEF IngestNext, Loop
<1> QED BY <1>1, <1>2, BaseSafe, PTL DEF IngestSpec
=============================================================================
