------------------------------ MODULE Fielding ------------------------------
(***************************************************************************)
(* A node in the field: the code and its golden manifest                    *)
(* (deploy/firmware_integrity.py, scripts/generate_manifest.py), the key in *)
(* the environment file (deploy/bootstrap_pi_zero.sh) and the two systemd   *)
(* units that tie them to the guardian. The covered code is one version; the *)
(* manifest is part of the checker's own file and names a version. systemd   *)
(* and the file system are external: the units' own lines say what they do. *)
(***************************************************************************)
EXTENDS Naturals, FiniteSets, Sequences

CONSTANTS
  Versions,    \* of the covered code files
  Committed,   \* the version the committed manifest was generated from
  Cloned,      \* the version a node receives first
  MaxKeys,     \* bound: keys generated
  MaxSwitchOns, \* bound: the machine is switched on
  MaxChanges   \* bound: changes of the code, the checker and the manifest

ASSUME FieldingAssumption ==
  /\ {Committed, Cloned} \subseteq Versions
  /\ {MaxKeys, MaxSwitchOns, MaxChanges} \subseteq Nat

VARIABLES
  code,      \* the version of the covered files on the node
  checker,   \* the version its manifest names; Absent without the checker
  env,       \* /etc/sentry/environment: a Key, Zeros or Gone
  data,      \* of the other wipe targets: "there", "zeros" or "gone"
  back,      \* of each target: what a power failure may bring back in its place
  security,  \* sentry-security.service in this boot
  wiping,    \* the wipe targets still to come, in a wipe
  guardian,  \* sentry-guardian.service: what it has loaded, and two histories: it
             \* was started while the checker was missing; a check has since failed
  keys, boots, changed, \* how many so far
  vouched,   \* history: the version the manifest named at the latest check
  edited,    \* history: the code has changed since that check
  alarmed,   \* history: keys that were in the file when a check failed
  spared     \* history: of these, the ones the wipe did not get to or failed on

fieldVars == <<code, checker, env, data, back, security, wiping, guardian, keys, boots,
               changed, vouched, edited, alarmed, spared>>

Absent == "absent"
DevKey == 0
Key(n) == [is |-> "key", key |-> n]
Zeros == [is |-> "zeros", key |-> DevKey]
Gone == [is |-> "gone", key |-> DevKey]

EnvTarget == "environment"
DataTargets == {"audit_log.db", "meshtastic_spool.jsonl"}
Targets == {EnvTarget} \cup DataTargets
Settled == [target \in Targets |-> {}]

\* Mutant of WipeTargets: the key is left out of the list.
WipeTargetsOfData == <<"audit_log.db", "meshtastic_spool.jsonl">>

WipeTargets == <<EnvTarget, "audit_log.db", "meshtastic_spool.jsonl">>

Down == [up |-> FALSE, code |-> Cloned, key |-> DevKey, skipped |-> FALSE, outlived |-> FALSE]
HasKey(file) == file.is = "key"

------------------------------------------------------------------------------
FieldingStart ==
  /\ code = Cloned /\ checker = Committed
  /\ env = Gone
  /\ data = [target \in DataTargets |-> "gone"]
  /\ back = Settled
  /\ security = "off" /\ wiping = <<>> /\ guardian = Down
  /\ keys = 0 /\ boots = 0 /\ changed = 0
  /\ vouched = Cloned /\ edited = FALSE
  /\ alarmed = {} /\ spared = {}

\* The bootstrap script makes a key unless there is a file; a file of zeros is one.
\* The new file is on the disk before power can fail again.
Bootstrap ==
  /\ env = Gone /\ keys < MaxKeys
  /\ keys' = keys + 1
  /\ env' = Key(keys')
  /\ back' = [back EXCEPT ![EnvTarget] = {}]
  /\ UNCHANGED <<code, checker, data, security, wiping, guardian, boots, changed,
                 vouched, edited, alarmed, spared>>

Change ==
  /\ changed < MaxChanges
  /\ changed' = changed + 1
  /\ UNCHANGED <<env, data, back, security, wiping, guardian, keys, boots, vouched, alarmed,
                 spared>>

\* Files of the repository are replaced, with or without the committed checker.
Deploy ==
  /\ Change
  /\ code' \in Versions
  /\ checker' \in {checker, Committed}
  /\ edited' = (edited \/ code' # code)

\* generate_manifest.py writes what is there into the checker.
GenerateManifest ==
  /\ Change
  /\ checker # Absent
  /\ checker' = code
  /\ UNCHANGED <<code, edited>>

LoseChecker ==
  /\ Change
  /\ checker' = Absent
  /\ UNCHANGED <<code, edited>>

------------------------------------------------------------------------------
SwitchOn ==
  /\ security = "off" /\ boots < MaxSwitchOns
  /\ boots' = boots + 1
  /\ security' = "inactive"
  /\ UNCHANGED <<code, checker, env, data, back, wiping, guardian, keys, changed,
                 vouched, edited, alarmed, spared>>

\* Power fails, also in the middle of a wipe. What was not synced may come back:
\* an unlinked file as zeros, a file whose sync failed as it was.
SwitchOff ==
  /\ security # "off"
  /\ security' = "off"
  /\ wiping' = <<>>
  /\ guardian' = Down
  /\ env' \in {env} \cup back[EnvTarget]
  /\ data' \in {f \in [DataTargets -> {"there", "zeros", "gone"}] :
                \A target \in DataTargets : f[target] \in {data[target]} \cup back[target]}
  /\ back' = Settled
  /\ spared' = IF EnvTarget \in {wiping[i] : i \in DOMAIN wiping} /\ HasKey(env)
               THEN spared \cup {env.key} ELSE spared
  /\ UNCHANGED <<code, checker, keys, boots, changed, vouched, edited, alarmed>>

\* The one-shot check: at boot, when the guardian is started or started again, or
\* when an operator starts it. The unit has not passed, so it runs again if the
\* checker is there, also beside a guardian that started while it was not, which
\* Requires= does not stop. It fails without the environment file.
Check ==
  /\ checker # Absent
  /\ security \in {"inactive", "failed"}
  /\ security' = IF env = Gone THEN "failed" ELSE IF code = checker THEN "passed" ELSE "wiping"
  /\ wiping' = IF security' = "wiping" THEN WipeTargets ELSE <<>>
  /\ alarmed' = IF security' = "wiping" /\ HasKey(env) THEN alarmed \cup {env.key} ELSE alarmed
  /\ guardian' = IF guardian.up /\ security' = "wiping"
                 THEN [guardian EXCEPT !.outlived = TRUE] ELSE guardian
  /\ vouched' = checker
  /\ edited' = FALSE
  /\ UNCHANGED <<code, checker, env, data, back, keys, boots, changed, spared>>

\* One file is filled with zeros and synced, then unlinked: it may be spared, have
\* zeros that are not on the disk, or ones that are; or be gone, once that is.
Wiped(file, old, zeros, gone) ==
  IF file = gone THEN {[file |-> gone, back |-> old]}
  ELSE {[file |-> file, back |-> old], [file |-> zeros, back |-> old \cup {file}],
        [file |-> zeros, back |-> {}], [file |-> gone, back |-> {zeros}]}

\* One target: an error is reported and the next target follows.
WipeTarget ==
  /\ security = "wiping" /\ wiping # <<>>
  /\ LET target == Head(wiping) IN
       IF target = EnvTarget
       THEN /\ \E to \in Wiped(env, back[target], Zeros, Gone) :
                 /\ env' = to.file
                 /\ back' = [back EXCEPT ![target] = to.back]
                 /\ spared' = IF HasKey(env) /\ env \in {to.file} \cup to.back
                              THEN spared \cup {env.key} ELSE spared
            /\ UNCHANGED data
       ELSE /\ \E to \in Wiped(data[target], back[target], "zeros", "gone") :
                 /\ data' = [data EXCEPT ![target] = to.file]
                 /\ back' = [back EXCEPT ![target] = to.back]
            /\ UNCHANGED <<env, spared>>
  /\ wiping' = Tail(wiping)
  /\ UNCHANGED <<code, checker, security, guardian, keys, boots, changed, vouched, edited, alarmed>>

\* After the last target the check exits 1.
WipeEnds ==
  /\ security = "wiping" /\ wiping = <<>>
  /\ security' = "failed"
  /\ UNCHANGED <<code, checker, env, data, back, wiping, guardian, keys, boots, changed,
                 vouched, edited, alarmed, spared>>

\* systemctl stop, or restart, of a check that passed stops the guardian as well.
StopSecurity ==
  /\ security = "passed"
  /\ security' = "inactive"
  /\ guardian' = Down
  /\ UNCHANGED <<code, checker, env, data, back, wiping, keys, boots, changed,
                 vouched, edited, alarmed, spared>>

\* Mutant of Cleared: wanted by the guardian instead of required.
ClearedUnlessRunning == security \notin {"off", "wiping"}

\* RequiredBy=, Before= and ConditionPathExists= in the check's unit: a start of
\* the guardian starts the check too unless it has passed, and goes on when that
\* is skipped.
Cleared == security = "passed" \/ (checker = Absent /\ security \in {"inactive", "failed"})

Writes(written) ==
  data' = [target \in DataTargets |-> IF target \in written THEN "there" ELSE data[target]]

\* The guardian starts, or systemd starts it again after a failure: it loads the
\* code and the environment as they are, and opens its database.
StartGuardian ==
  /\ ~guardian.up
  /\ Cleared /\ env # Gone
  /\ guardian' = [up |-> TRUE, code |-> code, key |-> env.key,
                  skipped |-> security # "passed" /\ checker = Absent, outlived |-> FALSE]
  /\ Writes({"audit_log.db"})
  /\ UNCHANGED <<code, checker, env, back, security, wiping, keys, boots, changed,
                 vouched, edited, alarmed, spared>>

\* It keeps a spool, and makes the files anew that a wipe has taken from under it.
GuardianWrites ==
  /\ guardian.up
  /\ \E target \in DataTargets : Writes({target})
  /\ UNCHANGED <<code, checker, env, back, security, wiping, guardian, keys, boots, changed,
                 vouched, edited, alarmed, spared>>

GuardianFails ==
  /\ guardian.up
  /\ guardian' = Down
  /\ UNCHANGED <<code, checker, env, data, back, security, wiping, keys, boots, changed,
                 vouched, edited, alarmed, spared>>

FieldingNext ==
  \/ Bootstrap \/ Deploy \/ GenerateManifest \/ LoseChecker \/ SwitchOn \/ SwitchOff
  \/ Check \/ WipeTarget \/ WipeEnds \/ StopSecurity
  \/ StartGuardian \/ GuardianWrites \/ GuardianFails

FieldingSpec == FieldingStart /\ [][FieldingNext]_fieldVars

------------------------------------------------------------------------------
(***************************************************************************)
(* Properties.                                                             *)
(***************************************************************************)

(***************************************************************************)
(* What the check vouches for: a running guardian was started while the      *)
(* checker was not there, or the check has passed and the guardian has       *)
(* loaded the code that matched the manifest then, unless the code has       *)
(* changed since. The check is not made again for a guardian that systemd    *)
(* starts again while the check's unit is active.                           *)
(***************************************************************************)
GuardianRunsVouchedCode ==
  guardian.up =>
    guardian.skipped \/ (security = "passed" /\ (guardian.code = vouched \/ edited))

(***************************************************************************)
(* An alarm is the end of the key: a guardian with a key that was in the     *)
(* file when a check failed runs only if the wipe failed on that file or     *)
(* power failed before it was reached, or if it is the process that started  *)
(* while the checker was missing and was running when the check failed; a    *)
(* guardian with no key of its own, only if the wipe left the zeroed file    *)
(* behind when it started.                                                 *)
(***************************************************************************)
AlarmEndsTheKey ==
  guardian.up =>
    /\ guardian.outlived => guardian.skipped
    /\ guardian.key \in alarmed => guardian.key \in spared \/ guardian.outlived
    /\ guardian.key = DevKey => alarmed # {} /\ (env = Zeros \/ guardian.outlived)
==============================================================================
