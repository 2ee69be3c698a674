------------------------------ MODULE AuditChain ------------------------------
(***************************************************************************)
(* The HMAC audit chain (sentry/audit/hmac_chain.py): a logger that numbers *)
(* its entries and chains each to the one before by a keyed hash, and the   *)
(* verification of a list of entries read back from a file.                 *)
(*                                                                         *)
(* The keyed hash is symbolic: Mac(k, ...) is the tuple of its arguments,   *)
(* so two hashes are equal exactly when the key and all the hashed fields   *)
(* are. The event name, the timestamp and the payload hash of an entry are  *)
(* always hashed together and are one value here, its content. The second  *)
(* hash of an entry, entry_integrity_hash, covers the same fields with the  *)
(* same key, and is left out.                                              *)
(***************************************************************************)
EXTENDS Naturals, Sequences

CONSTANTS
  Keys,      \* the keys an operator may configure
  ZeroKey    \* the key buffer after a wipe: as long as the key was, all zero

ASSUME KeyAssumption == ZeroKey \notin Keys

VARIABLES
  key,       \* _secret_buffer
  nextSeq,   \* _seq
  prevHash   \* _prev_hash

logger == <<key, nextSeq, prevHash>>

------------------------------------------------------------------------------
GENESIS_HASH == <<>>

Mac(k, n, content, prev) == <<k, n, content, prev>>

\* The entry the logger would append for a content.
Entry(content) ==
  [seq       |-> nextSeq,
   content   |-> content,
   prev_hash |-> prevHash,
   hash      |-> Mac(key, nextSeq, content, prevHash)]

\* append(event, payload): the caller gets Entry(content), the logger moves on.
AppendEntry(content) ==
  /\ nextSeq' = nextSeq + 1
  /\ prevHash' = Entry(content).hash
  /\ UNCHANGED key

\* Mutant of StartLogger: the new chain is linked to the old one.
StartLoggerLinked(k) ==
  /\ key' = k
  /\ nextSeq' = 0
  /\ UNCHANGED prevHash

\* AuditLogger(): a new logger starts a new chain with the configured key.
StartLogger(k) ==
  /\ key' = k
  /\ nextSeq' = 0
  /\ prevHash' = GENESIS_HASH

\* rotate_secret(k), refused in production: the old buffer is wiped, and the
\* chain starts again under the new key.
RotateSecret(production, k) ==
  /\ ~production
  /\ StartLogger(k)

\* Mutants of WipeSecret: the buffer is emptied, or left as it is.
EmptySecret ==
  /\ key' = <<>>
  /\ UNCHANGED <<nextSeq, prevHash>>

WipeNothing == UNCHANGED logger

\* wipe_secret(): the buffer is zeroed and stays the key of later entries.
WipeSecret ==
  /\ key' = ZeroKey
  /\ UNCHANGED <<nextSeq, prevHash>>

\* Mutant of VerifyChain: the link to the entry before is not compared.
VerifyUnlinked(k, entries) ==
  \A i \in 1..Len(entries) :
    LET e == entries[i]
    IN e.seq = i - 1 /\ e.hash = Mac(k, e.seq, e.content, e.prev_hash)

\* verify_chain(entries) under key k.
VerifyChain(k, entries) ==
  \A i \in 1..Len(entries) :
    LET e == entries[i]
        prev == IF i = 1 THEN GENESIS_HASH ELSE entries[i - 1].hash
    IN /\ e.seq = i - 1
       /\ e.prev_hash = prev
       /\ e.hash = Mac(k, e.seq, e.content, e.prev_hash)
==============================================================================
