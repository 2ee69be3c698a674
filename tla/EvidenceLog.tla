----------------------------- MODULE EvidenceLog -----------------------------
(***************************************************************************)
(* What the records of a node promise whoever reads them later, without the *)
(* process that writes them: four sequences of alerts, and at most one      *)
(* alert that is being handled. An alert is logged when it comes after all  *)
(* that is on record, and entered in the audit file and relayed, each once, *)
(* only while it is being handled, and the entry first. Once the handling   *)
(* of an alert is over nothing is made up for, however it ended. The        *)
(* sequences only grow, with two exceptions: a tamper wipe empties the      *)
(* spool, and a power loss cuts off the ends of log, audit file and spool,  *)
(* each on its own, but never twice at the same place: what it left is kept *)
(* for good.                                                               *)
(***************************************************************************)
EXTENDS Integers, Sequences, Functions

CONSTANTS
  Alerts,   \* [boot, seq, ...]
  Evident,  \* those that belong in the audit file
  Urgent    \* those that are relayed

VARIABLES
  log,      \* the alert log
  audit,    \* the audit file
  heard,    \* what has been transmitted
  waiting,  \* the spool
  current,  \* the alert being handled, a sequence of length one or none
  kept      \* how much of log, audit and waiting no power loss can take

records == <<log, audit, heard, waiting, current, kept>>

Earlier(a, b) == a.boot < b.boot \/ (a.boot = b.boot /\ a.seq < b.seq)
OnRecord == UNION {Range(log), Range(audit), Range(heard), Range(waiting)}

Init ==
  /\ log = <<>> /\ audit = <<>> /\ heard = <<>> /\ waiting = <<>> /\ current = <<>>
  /\ kept = [log |-> 0, audit |-> 0, waiting |-> 0]

Record(a) ==
  /\ a \in Alerts /\ \A b \in OnRecord : Earlier(b, a)
  /\ log' = Append(log, a)
  /\ current' = <<a>>
  /\ UNCHANGED <<audit, heard, waiting, kept>>

Attest(a) ==
  /\ current = <<a>> /\ a \in Evident /\ a \notin Range(audit)
  /\ audit' = Append(audit, a)
  /\ UNCHANGED <<log, heard, waiting, current, kept>>

Relay(a) ==
  /\ current = <<a>> /\ a \in Urgent /\ a \in Range(audit)
  /\ a \notin Range(heard) \cup Range(waiting)
  /\ \/ heard' = Append(heard, a) /\ UNCHANGED waiting
     \/ waiting' = Append(waiting, a) /\ UNCHANGED heard
  /\ current' = <<>>
  /\ UNCHANGED <<log, audit, kept>>

\* The handling of the alert is over, or the process is dead.
Close ==
  /\ current' = <<>>
  /\ UNCHANGED <<log, audit, heard, waiting, kept>>

Forget ==
  /\ waiting' = <<>>
  /\ kept' = [kept EXCEPT !.waiting = 0]
  /\ UNCHANGED <<log, audit, heard, current>>

Lose ==
  /\ kept' \in [log     : kept.log..Len(log),
               audit   : kept.audit..Len(audit),
               waiting : kept.waiting..Len(waiting)]
  /\ log' = SubSeq(log, 1, kept'.log)
  /\ audit' = SubSeq(audit, 1, kept'.audit)
  /\ waiting' = SubSeq(waiting, 1, kept'.waiting)
  /\ current' = <<>>
  /\ UNCHANGED heard

Next ==
  \/ \E a \in Range(log') : Record(a)
  \/ \E a \in Range(current) : Attest(a) \/ Relay(a)
  \/ Close \/ Forget \/ Lose

Spec == Init /\ [][Next]_records
==============================================================================
