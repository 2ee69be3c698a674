------------------------------ MODULE AuditTrail ------------------------------
(***************************************************************************)
(* An audit logger and the caller that keeps its entries in a file. The     *)
(* caller may write an entry, or drop it: run_live_ingest writes the entry  *)
(* of an alert and drops those of the boot and of a tamper wipe. The       *)
(* process may be restarted, which starts a new chain and keeps the file.  *)
(***************************************************************************)
EXTENDS AuditChain, Integers, SequencesExt

CONSTANTS
  Contents,     \* event, timestamp and payload of an entry
  Production,   \* does SENTRY_ENV name a production environment?
  MaxIssued,    \* bound: entries the loggers issue in one behaviour
  MaxChains     \* bound: chains started in one behaviour

ASSUME ProductionAssumption == Production \in BOOLEAN
ASSUME TrailBounds == MaxIssued \in Nat /\ MaxChains \in Nat \ {0}

VARIABLES
  pending,   \* the entry append() returned last, not yet written (<<>> if none)
  file,      \* the audit file
  chains,    \* history: every chain started so far, with all its entries
  issued,    \* history: how many entries these are
  wipedAt    \* history: entries the present chain had when its key was wiped,
             \* NotWiped if it was not

trailVars == <<logger, pending, file, chains, issued, wipedAt>>

NotWiped == -1

------------------------------------------------------------------------------
current == Last(chains)

TrailTypeOK ==
  /\ key \in Keys \cup {ZeroKey}
  /\ issued \in 0..MaxIssued /\ nextSeq \in 0..issued
  /\ Len(pending) <= 1
  /\ Range(file \o pending) \subseteq UNION {Range(c) : c \in Range(chains)}
  /\ Len(chains) \in 1..MaxChains
  /\ wipedAt \in {NotWiped} \cup 0..nextSeq

TrailInit ==
  /\ key \in Keys
  /\ nextSeq = 0
  /\ prevHash = GENESIS_HASH
  /\ pending = <<>>
  /\ file = <<>>
  /\ chains = << <<>> >>
  /\ issued = 0
  /\ wipedAt = NotWiped

Issue ==
  /\ issued < MaxIssued
  /\ issued' = issued + 1
  /\ pending = <<>>
  /\ \E content \in Contents :
       /\ AppendEntry(content)
       /\ pending' = <<Entry(content)>>
       /\ chains' = [chains EXCEPT ![Len(chains)] = Append(@, Entry(content))]
  /\ UNCHANGED <<file, wipedAt>>

Write ==
  /\ pending # <<>>
  /\ file' = file \o pending
  /\ pending' = <<>>
  /\ UNCHANGED <<logger, chains, issued, wipedAt>>

Drop ==
  /\ pending # <<>>
  /\ pending' = <<>>
  /\ UNCHANGED <<logger, file, chains, issued, wipedAt>>

Wipe ==
  /\ WipeSecret
  /\ wipedAt' = IF wipedAt = NotWiped THEN Len(current) ELSE wipedAt
  /\ UNCHANGED <<pending, file, chains, issued>>

NewChain ==
  /\ Len(chains) < MaxChains
  /\ chains' = Append(chains, <<>>)
  /\ wipedAt' = NotWiped
  /\ UNCHANGED issued

Rotate ==
  /\ NewChain
  /\ \E k \in Keys : RotateSecret(Production, k)
  /\ UNCHANGED <<pending, file>>

\* A restart loses the entry that was not yet written.
RestartProcess ==
  /\ NewChain
  /\ \E k \in Keys : StartLogger(k)
  /\ pending' = <<>>
  /\ UNCHANGED file

TrailNext == Issue \/ Write \/ Drop \/ Wipe \/ Rotate \/ RestartProcess

TrailSpec == TrailInit /\ [][TrailNext]_trailVars

------------------------------------------------------------------------------
(***************************************************************************)
(* A file that verifies is what it claims to be: if verify_chain accepts   *)
(* the file under some key, the file is the beginning of one chain that    *)
(* one logger issued, with no entry missing, moved, or taken over from      *)
(* another chain.                                                          *)
(***************************************************************************)
VerifiedMeansComplete ==
  \A k \in Keys \cup {ZeroKey} :
    VerifyChain(k, file) => \E i \in 1..Len(chains) : IsPrefix(file, chains[i])

(***************************************************************************)
(* The chain a logger has issued verifies under its own key, whatever      *)
(* rotations and restarts came before it, until the key is wiped.          *)
(***************************************************************************)
IssuedChainVerifies == wipedAt = NotWiped => VerifyChain(key, current)

(***************************************************************************)
(* A wipe cuts the chain in two: what was issued before it never verifies  *)
(* together with what was issued after it, under any key, while the part   *)
(* before the wipe still verifies under the key the operator holds.        *)
(***************************************************************************)
WipeCutsTheChain ==
  wipedAt # NotWiped =>
    /\ \E k \in Keys : VerifyChain(k, SubSeq(current, 1, wipedAt))
    /\ wipedAt \in 1..(Len(current) - 1) =>
         ~\E k \in Keys \cup {ZeroKey} : VerifyChain(k, current)
==============================================================================
