---------------------------- MODULE FieldingProofs ----------------------------
(***************************************************************************)
(* Proofs about a node in the field: which code a running guardian has      *)
(* loaded and what an alarm does to its key, for any versions of the code    *)
(* and any number of keys, boots and changes.                               *)
(***************************************************************************)
EXTENDS Fielding, TLAPS

------------------------------------------------------------------------------
\* The check passed on the code that is there, unless that has changed since.
Vouched == security = "passed" => code = vouched \/ edited

\* The guardian is a record with these fields.
GuardianShape == DOMAIN guardian = {"up", "code", "key", "skipped", "outlived"}

\* A check that fails beside a guardian changes nothing about it but the history.
LEMMA OutlivedKeeps ==
  ASSUME GuardianShape, guardian' = [guardian EXCEPT !.outlived = TRUE]
  PROVE  /\ guardian'.up = guardian.up /\ guardian'.skipped = guardian.skipped
         /\ guardian'.key = guardian.key /\ guardian'.outlived = TRUE
         /\ GuardianShape'
BY DEF GuardianShape

\* Each step leaves the guardian alone, ends it, starts it or marks it.
LEMMA ShapeStep ==
  ASSUME GuardianShape, [FieldingNext]_fieldVars
  PROVE  GuardianShape'
<1>1. CASE SwitchOff \/ StopSecurity \/ GuardianFails
  BY <1>1 DEF SwitchOff, StopSecurity, GuardianFails, Down, GuardianShape
<1>2. CASE StartGuardian
  BY <1>2 DEF StartGuardian, GuardianShape
<1>3. CASE Check
  <2>1. guardian' = guardian \/ guardian' = [guardian EXCEPT !.outlived = TRUE]
    BY <1>3 DEF Check
  <2> QED BY <2>1, OutlivedKeeps DEF GuardianShape
<1>4. CASE Bootstrap \/ SwitchOn \/ WipeTarget \/ WipeEnds \/ GuardianWrites
  BY <1>4 DEF Bootstrap, SwitchOn, WipeTarget, WipeEnds, GuardianWrites, GuardianShape
<1>5. CASE Deploy \/ GenerateManifest \/ LoseChecker
  BY <1>5 DEF Deploy, GenerateManifest, LoseChecker, Change, GuardianShape
<1>6. CASE UNCHANGED fieldVars
  BY <1>6 DEF fieldVars, GuardianShape
<1> QED BY <1>1, <1>2, <1>3, <1>4, <1>5, <1>6 DEF FieldingNext

LEMMA ShapeSafe == FieldingSpec => []GuardianShape
<1>1. FieldingStart => GuardianShape
  BY DEF FieldingStart, Down, GuardianShape
<1> QED BY <1>1, ShapeStep, PTL DEF FieldingSpec

\* What a running guardian has loaded (the two units, firmware_integrity.py).
LEMMA VouchedStep ==
  ASSUME GuardianShape, Vouched, GuardianRunsVouchedCode, [FieldingNext]_fieldVars
  PROVE  Vouched' /\ GuardianRunsVouchedCode'
<1> USE DEF Vouched, GuardianRunsVouchedCode
<1>1. CASE Bootstrap BY <1>1 DEF Bootstrap
<1>2. CASE Deploy BY <1>2 DEF Deploy, Change
<1>3. CASE GenerateManifest BY <1>3 DEF GenerateManifest, Change
<1>4. CASE LoseChecker BY <1>4 DEF LoseChecker, Change
<1>5. CASE SwitchOn BY <1>5 DEF SwitchOn
<1>6. CASE SwitchOff BY <1>6 DEF SwitchOff, Down
<1>7. CASE Check
  <2>1. guardian.up => guardian.skipped
    BY <1>7 DEF Check
  <2>2. guardian'.up = guardian.up /\ guardian'.skipped = guardian.skipped
    <3>1. guardian' = guardian \/ guardian' = [guardian EXCEPT !.outlived = TRUE]
      BY <1>7 DEF Check
    <3> QED BY <3>1, OutlivedKeeps
  <2>3. security' = "passed" => code' = vouched'
    BY <1>7 DEF Check
  <2> QED BY <2>1, <2>2, <2>3
<1>8. CASE WipeTarget BY <1>8 DEF WipeTarget
<1>9. CASE WipeEnds BY <1>9 DEF WipeEnds
<1>10. CASE StopSecurity BY <1>10 DEF StopSecurity, Down
<1>11. CASE StartGuardian BY <1>11 DEF StartGuardian, Cleared
<1>12. CASE GuardianWrites BY <1>12 DEF GuardianWrites
<1>13. CASE GuardianFails BY <1>13 DEF GuardianFails, Down
<1>14. CASE UNCHANGED fieldVars BY <1>14 DEF fieldVars
<1> QED
  BY <1>1, <1>2, <1>3, <1>4, <1>5, <1>6, <1>7, <1>8, <1>9, <1>10, <1>11, <1>12, <1>13, <1>14
  DEF FieldingNext

(***************************************************************************)
(* GuardianRunsVouchedCode, for any versions and any number of changes: no   *)
(* order of updates, boots, checks, failures and restarts lets a guardian    *)
(* run code the check did not see, unless the code was changed after the     *)
(* check or the checker was not there when the guardian was started.        *)
(***************************************************************************)
THEOREM RunningCodeIsVouched == FieldingSpec => []GuardianRunsVouchedCode
<1>1. FieldingStart => Vouched /\ GuardianRunsVouchedCode
  BY DEF FieldingStart, Down, Vouched, GuardianRunsVouchedCode
<1> QED BY <1>1, VouchedStep, ShapeSafe, PTL DEF FieldingSpec

------------------------------------------------------------------------------
(***************************************************************************)
(* The key.                                                                *)
(***************************************************************************)

\* The wipe has the environment file still before it.
KeyPending == wiping = WipeTargets

\* What the wipe list can look like in the middle of a wipe.
Remaining == {WipeTargets, Tail(WipeTargets), Tail(Tail(WipeTargets)), <<>>}

\* Keys are numbered; alarmed ones are among those generated so far.
KeysNumbered ==
  /\ keys \in Nat
  /\ env \in {Gone, Zeros} \cup {Key(n) : n \in 1..keys}
  /\ DOMAIN back = Targets
  /\ back[EnvTarget] \subseteq {Gone, Zeros} \cup {Key(n) : n \in 1..keys}
  /\ alarmed \subseteq 1..keys

\* A key that was in the file when a check failed is still in it only if the wipe
\* spared it or has not come to it yet; one that power failure brings back was
\* spared, for its sync failed.
AlarmedIsSpared ==
  /\ HasKey(env) /\ env.key \in alarmed
       => env.key \in spared \/ (security = "wiping" /\ KeyPending)
  /\ \A file \in back[EnvTarget] : HasKey(file) => file.key \in spared

\* Zeros come from a wipe, and a wipe from an alarm about a key.
ZerosFromAlarm ==
  Zeros \in {env} \cup back[EnvTarget] \/ security = "wiping" => alarmed # {}

\* While the guardian runs the file is the one it has loaded, unless it was started
\* without a check and a check has failed since.
LoadedIsThere ==
  guardian.up =>
    /\ guardian.skipped \/ security = "passed"
    /\ IF guardian.outlived
         THEN guardian.skipped /\ alarmed # {}
         ELSE security \notin {"off", "wiping"} /\ env # Gone /\ guardian.key = env.key

KeyInvariant ==
  KeysNumbered /\ wiping \in Remaining /\ AlarmedIsSpared /\ ZerosFromAlarm /\ LoadedIsThere

\* The list gets shorter from the front, and only its front is the key.
LEMMA WipeOrder ==
  /\ \A w \in Remaining : w # <<>> => Tail(w) \in Remaining /\ Tail(w) # WipeTargets
  /\ \A w \in Remaining : w # <<>> => (Head(w) = EnvTarget <=> w = WipeTargets)
  /\ \A w \in Remaining : w # <<>> => Head(w) \in Targets
  /\ \A w \in Remaining : EnvTarget \in {w[i] : i \in DOMAIN w} => w = WipeTargets
<1>1. /\ WipeTargets = <<"environment", "audit_log.db", "meshtastic_spool.jsonl">>
      /\ Tail(WipeTargets) = <<"audit_log.db", "meshtastic_spool.jsonl">>
      /\ Tail(Tail(WipeTargets)) = <<"meshtastic_spool.jsonl">>
      /\ Tail(Tail(Tail(WipeTargets))) = <<>>
  BY DEF WipeTargets, EnvTarget
<1> QED BY <1>1 DEF Remaining, EnvTarget, Targets, DataTargets

\* A file has a numbered key, or it is one of the two others.
LEMMA FileCases ==
  ASSUME NEW n \in Nat, NEW file \in {Gone, Zeros} \cup {Key(k) : k \in 1..n}
  PROVE  /\ HasKey(file) => file.key \in 1..n
         /\ ~HasKey(file) => file \in {Gone, Zeros}
         /\ ~HasKey(Gone) /\ ~HasKey(Zeros) /\ Gone # Zeros
         /\ Gone.key = DevKey /\ Zeros.key = DevKey
BY DEF HasKey, Gone, Zeros, Key

\* A function with one value exchanged.
LEMMA BackExcept ==
  ASSUME DOMAIN back = Targets, NEW t \in Targets, NEW v, back' = [back EXCEPT ![t] = v]
  PROVE  DOMAIN back' = Targets /\ back'[t] = v /\ (t # EnvTarget => back'[EnvTarget] = back[EnvTarget])
BY DEF Targets

\* What the wipe of the environment file may leave, now and after a power failure.
LEMMA WipedEnv ==
  ASSUME NEW to \in Wiped(env, back[EnvTarget], Zeros, Gone)
  PROVE  /\ to.file \in {env, Zeros, Gone}
         /\ to.back \subseteq back[EnvTarget] \cup {env, Zeros}
         /\ env = Gone => to.file = Gone /\ to.back = back[EnvTarget]
BY DEF Wiped

\* The wipe of one target (trigger_emergency_wipe), whether it works or not.
LEMMA WipeTargetStep ==
  ASSUME KeyInvariant, WipeTarget
  PROVE  KeyInvariant'
<1> USE DEF KeyInvariant
<1>1. /\ security = "wiping" /\ security' = security /\ wiping # <<>>
      /\ wiping' = Tail(wiping) /\ guardian' = guardian /\ keys' = keys /\ alarmed' = alarmed
  BY DEF WipeTarget
<1>2. wiping' \in Remaining /\ wiping' # WipeTargets
  BY <1>1, WipeOrder
<1>3. ~HasKey(Gone) /\ ~HasKey(Zeros) /\ Gone # Zeros /\ EnvTarget \in Targets
  BY DEF HasKey, Gone, Zeros, Targets
<1>4. alarmed # {}
  BY <1>1 DEF ZerosFromAlarm
<1>5. LoadedIsThere'
  BY <1>1 DEF LoadedIsThere
<1>6. CASE wiping = WipeTargets
  <2>1. Head(wiping) = EnvTarget
    BY <1>1, <1>6, WipeOrder
  <2>2. PICK to \in Wiped(env, back[EnvTarget], Zeros, Gone) :
          /\ env' = to.file
          /\ back' = [back EXCEPT ![EnvTarget] = to.back]
          /\ spared' = IF HasKey(env) /\ env \in {to.file} \cup to.back
                       THEN spared \cup {env.key} ELSE spared
    BY <2>1 DEF WipeTarget
  <2>3. DOMAIN back' = Targets /\ back'[EnvTarget] = to.back
    BY <1>3, <2>2, BackExcept DEF KeysNumbered
  <2>4. /\ env' \in {env, Zeros, Gone} /\ spared \subseteq spared'
        /\ back'[EnvTarget] \subseteq back[EnvTarget] \cup {env, Zeros}
    BY <2>2, <2>3, WipedEnv
  <2>5. KeysNumbered'
    BY <1>1, <2>3, <2>4 DEF KeysNumbered
  <2>6. AlarmedIsSpared'
    <3>1. HasKey(env') => env'.key \in spared'
      BY <1>3, <2>2, <2>4
    <3>2. ASSUME NEW file \in back'[EnvTarget], HasKey(file) PROVE file.key \in spared'
      <4>1. CASE file \in back[EnvTarget]
        BY <2>4, <3>2, <4>1 DEF AlarmedIsSpared
      <4>2. CASE file = env
        BY <2>2, <2>3, <3>2, <4>2
      <4> QED BY <1>3, <2>4, <3>2, <4>1, <4>2
    <3> QED BY <3>1, <3>2 DEF AlarmedIsSpared
  <2> QED BY <1>1, <1>2, <1>4, <1>5, <2>5, <2>6 DEF ZerosFromAlarm
<1>7. CASE wiping # WipeTargets
  <2>1. Head(wiping) # EnvTarget /\ Head(wiping) \in Targets
    BY <1>1, <1>7, WipeOrder
  <2>2. PICK v : back' = [back EXCEPT ![Head(wiping)] = v]
    BY <2>1 DEF WipeTarget
  <2>3. UNCHANGED <<env, spared>>
    BY <2>1 DEF WipeTarget
  <2>4. DOMAIN back' = Targets /\ back'[EnvTarget] = back[EnvTarget]
    BY <2>1, <2>2, BackExcept DEF KeysNumbered
  <2>5. KeysNumbered'
    BY <1>1, <2>3, <2>4 DEF KeysNumbered
  <2>6. AlarmedIsSpared'
    BY <1>1, <1>7, <2>3, <2>4 DEF AlarmedIsSpared, KeyPending
  <2> QED BY <1>1, <1>2, <1>4, <1>5, <2>5, <2>6 DEF ZerosFromAlarm
<1> QED BY <1>6, <1>7

\* A check, at boot or started again (verify_codebase_integrity).
LEMMA CheckStep ==
  ASSUME GuardianShape, KeyInvariant, Check
  PROVE  KeyInvariant'
<1> USE DEF KeyInvariant
<1>1. /\ security \in {"inactive", "failed"}
      /\ env' = env /\ back' = back /\ keys' = keys /\ spared' = spared
      /\ security' \in {"failed", "passed", "wiping"}
      /\ wiping' = (IF security' = "wiping" THEN WipeTargets ELSE <<>>)
      /\ alarmed' = (IF security' = "wiping" /\ HasKey(env) THEN alarmed \cup {env.key}
                     ELSE alarmed)
  BY DEF Check
<1>2. security' = "wiping" => env # Gone
  BY DEF Check
<1>3. HasKey(env) => env.key \in 1..keys
  BY FileCases DEF KeysNumbered
<1>4. wiping' \in Remaining /\ (security' = "wiping" => wiping' = WipeTargets)
  BY <1>1 DEF Remaining
<1>5. KeysNumbered'
  BY <1>1, <1>3 DEF KeysNumbered
<1>6. AlarmedIsSpared'
  <2>1. CASE security' = "wiping"
    BY <1>1, <1>4, <2>1 DEF AlarmedIsSpared, KeyPending
  <2>2. CASE security' # "wiping"
    BY <1>1, <2>2 DEF AlarmedIsSpared
  <2> QED BY <2>1, <2>2
<1>7. ZerosFromAlarm'
  <2>1. CASE security' = "wiping" /\ HasKey(env)
    BY <1>1, <2>1 DEF ZerosFromAlarm
  <2>2. CASE security' = "wiping" /\ ~HasKey(env)
    <3>1. env = Zeros
      BY <1>2, <2>2, FileCases DEF KeysNumbered
    <3> QED BY <1>1, <3>1 DEF ZerosFromAlarm
  <2>3. CASE security' # "wiping"
    BY <1>1, <2>3 DEF ZerosFromAlarm
  <2> QED BY <2>1, <2>2, <2>3
<1>8. LoadedIsThere'
  <2>1. alarmed \subseteq alarmed' /\ (security' = "wiping" => alarmed' # {})
    BY <1>1, <1>7 DEF ZerosFromAlarm
  <2>2. CASE guardian.up /\ security' = "wiping"
    <3>1. guardian' = [guardian EXCEPT !.outlived = TRUE]
      BY <2>2 DEF Check
    <3>2. guardian.skipped
      BY <1>1, <2>2 DEF LoadedIsThere
    <3> QED BY <2>1, <2>2, <3>1, <3>2, OutlivedKeeps DEF LoadedIsThere
  <2>3. CASE ~(guardian.up /\ security' = "wiping")
    <3>1. guardian' = guardian
      BY <2>3 DEF Check
    <3> QED BY <1>1, <2>1, <2>3, <3>1 DEF LoadedIsThere
  <2> QED BY <2>2, <2>3
<1> QED BY <1>4, <1>5, <1>6, <1>7, <1>8

\* Power fails: what was not synced may come back.
LEMMA SwitchOffStep ==
  ASSUME KeyInvariant, SwitchOff
  PROVE  KeyInvariant'
<1> USE DEF KeyInvariant
<1>1. /\ security' = "off" /\ wiping' = <<>> /\ guardian' = Down /\ back' = Settled
      /\ env' \in {env} \cup back[EnvTarget]
      /\ keys' = keys /\ alarmed' = alarmed /\ spared \subseteq spared'
  BY DEF SwitchOff
<1>2. DOMAIN back' = Targets /\ back'[EnvTarget] = {}
  BY <1>1 DEF Settled, Targets
<1>3. KeyPending /\ HasKey(env) => env.key \in spared'
  <2>1. KeyPending => EnvTarget \in {wiping[i] : i \in DOMAIN wiping}
    BY DEF KeyPending, WipeTargets
  <2> QED BY <2>1 DEF SwitchOff
<1>4. KeysNumbered'
  BY <1>1, <1>2 DEF KeysNumbered
<1>5. AlarmedIsSpared'
  <2>1. CASE env' = env
    BY <1>1, <1>2, <1>3, <2>1 DEF AlarmedIsSpared
  <2>2. CASE env' \in back[EnvTarget]
    BY <1>1, <1>2, <2>2 DEF AlarmedIsSpared
  <2> QED BY <1>1, <2>1, <2>2
<1>6. ZerosFromAlarm'
  BY <1>1, <1>2 DEF ZerosFromAlarm
<1>7. LoadedIsThere' /\ wiping' \in Remaining
  BY <1>1 DEF LoadedIsThere, Down, Remaining
<1> QED BY <1>4, <1>5, <1>6, <1>7

\* Every other step: a new key has a new number, and the file of a running
\* guardian stays (bootstrap_pi_zero.sh, the two units).
LEMMA KeyStep ==
  ASSUME GuardianShape, KeyInvariant, [FieldingNext]_fieldVars
  PROVE  KeyInvariant'
<1> USE DEF KeyInvariant
<1>1. CASE Bootstrap
  <2>1. /\ env = Gone /\ keys' = keys + 1 /\ env' = Key(keys')
        /\ back' = [back EXCEPT ![EnvTarget] = {}]
        /\ wiping' = wiping /\ security' = security /\ guardian' = guardian
        /\ alarmed' = alarmed /\ spared' = spared
    BY <1>1 DEF Bootstrap
  <2>2. keys' \in Nat /\ 1..keys \subseteq 1..keys' /\ keys' \in 1..keys' /\ keys' \notin 1..keys
    BY <2>1 DEF KeysNumbered
  <2>3. env'.key = keys' /\ env'.key \notin alarmed' /\ env' # Zeros
    BY <2>1, <2>2 DEF KeysNumbered, Key, Zeros
  <2>4. DOMAIN back' = Targets /\ back'[EnvTarget] = {}
    BY <2>1, BackExcept DEF KeysNumbered, Targets
  <2>5. KeysNumbered'
    BY <2>1, <2>2, <2>4 DEF KeysNumbered
  <2>6. LoadedIsThere'
    BY <2>1 DEF LoadedIsThere
  <2> QED BY <2>1, <2>3, <2>4, <2>5, <2>6 DEF AlarmedIsSpared, ZerosFromAlarm
<1>2. CASE Deploy \/ GenerateManifest \/ LoseChecker
  BY <1>2 DEF Deploy, GenerateManifest, LoseChecker, Change, KeysNumbered, AlarmedIsSpared,
              KeyPending, ZerosFromAlarm, LoadedIsThere
<1>3. CASE SwitchOn
  BY <1>3 DEF SwitchOn, KeysNumbered, AlarmedIsSpared, KeyPending, ZerosFromAlarm, LoadedIsThere
<1>4. CASE SwitchOff BY <1>4, SwitchOffStep
<1>5. CASE Check BY <1>5, CheckStep
<1>6. CASE WipeTarget BY <1>6, WipeTargetStep
<1>7. CASE WipeEnds
  <2>1. ~KeyPending
    BY <1>7 DEF WipeEnds, KeyPending, WipeTargets
  <2> QED BY <1>7, <2>1 DEF WipeEnds, KeysNumbered, AlarmedIsSpared, ZerosFromAlarm, LoadedIsThere
<1>8. CASE StopSecurity
  BY <1>8 DEF StopSecurity, Down, KeysNumbered, AlarmedIsSpared, KeyPending, ZerosFromAlarm,
              LoadedIsThere
<1>9. CASE StartGuardian
  BY <1>9 DEF StartGuardian, Cleared, KeysNumbered, AlarmedIsSpared, KeyPending, ZerosFromAlarm,
              LoadedIsThere
<1>10. CASE GuardianWrites
  BY <1>10 DEF GuardianWrites, KeysNumbered, AlarmedIsSpared, KeyPending, ZerosFromAlarm,
               LoadedIsThere
<1>11. CASE GuardianFails
  BY <1>11 DEF GuardianFails, Down, KeysNumbered, AlarmedIsSpared, KeyPending, ZerosFromAlarm,
               LoadedIsThere
<1>12. CASE UNCHANGED fieldVars
  BY <1>12 DEF fieldVars, KeysNumbered, AlarmedIsSpared, KeyPending, ZerosFromAlarm,
               LoadedIsThere
<1> QED
  BY <1>1, <1>2, <1>3, <1>4, <1>5, <1>6, <1>7, <1>8, <1>9, <1>10, <1>11, <1>12 DEF FieldingNext

(***************************************************************************)
(* AlarmEndsTheKey, for any number of keys, boots and alarms: with a wipe    *)
(* that works and is not interrupted, no order of installations, checks,    *)
(* power failures and restarts starts a guardian on a key after its alarm,  *)
(* and only one that was started without a check is running at the alarm.   *)
(***************************************************************************)
THEOREM AlarmedKeyIsGone == FieldingSpec => []AlarmEndsTheKey
<1>1. FieldingStart => KeyInvariant
  BY DEF FieldingStart, Down, Settled, Targets, KeyInvariant, KeysNumbered, Remaining,
         AlarmedIsSpared, HasKey, Gone, Zeros, ZerosFromAlarm, LoadedIsThere
<1>2. KeyInvariant => AlarmEndsTheKey
  <2> SUFFICES ASSUME KeyInvariant, guardian.up
               PROVE  /\ guardian.outlived => guardian.skipped
                      /\ guardian.key \in alarmed => guardian.key \in spared \/ guardian.outlived
                      /\ guardian.key = DevKey => alarmed # {} /\ (env = Zeros \/ guardian.outlived)
    BY DEF AlarmEndsTheKey
  <2>1. /\ keys \in Nat /\ env \in {Gone, Zeros} \cup {Key(k) : k \in 1..keys}
        /\ alarmed \subseteq 1..keys
    BY DEF KeyInvariant, KeysNumbered
  <2>2. DevKey \notin 1..keys
    BY <2>1 DEF DevKey
  <2>3. CASE guardian.outlived
    BY <2>3 DEF KeyInvariant, LoadedIsThere
  <2>4. CASE ~guardian.outlived
    <3>1. security # "wiping" /\ env # Gone /\ guardian.key = env.key
      BY <2>4 DEF KeyInvariant, LoadedIsThere
    <3>2. CASE HasKey(env)
      <4>1. env.key \in 1..keys
        BY <2>1, <3>2, FileCases
      <4> QED BY <2>1, <2>2, <2>4, <3>1, <3>2, <4>1 DEF KeyInvariant, AlarmedIsSpared
    <3>3. CASE ~HasKey(env)
      <4>1. env = Zeros /\ env.key = DevKey
        BY <2>1, <3>1, <3>3, FileCases
      <4> QED BY <2>1, <2>2, <2>4, <3>1, <4>1 DEF KeyInvariant, ZerosFromAlarm
    <3> QED BY <3>2, <3>3
  <2> QED BY <2>3, <2>4
<1> QED BY <1>1, <1>2, KeyStep, ShapeSafe, PTL DEF FieldingSpec
==============================================================================
