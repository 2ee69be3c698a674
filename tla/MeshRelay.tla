------------------------------ MODULE MeshRelay ------------------------------
(***************************************************************************)
(* The mesh handler under any caller: hold mode is switched at will, alerts *)
(* of every level are handed in, the radio may refuse a message, and the    *)
(* chain's peers are registered when a deployed line joins the mesh. The    *)
(* live loop of LiveIngest is one such caller; it sets hold mode before it  *)
(* sends and never hands in a HOLD alert.                                  *)
(***************************************************************************)
EXTENDS AlertLevels, MeshHandler, Functions

CONSTANTS
  Peers,      \* ids of the other nodes
  MaxHanded,  \* bound: alerts handed in
  MaxJoins    \* bound: registrations of the chain's peers

ASSUME RelayBoundAssumption == {MaxHanded, MaxJoins} \subseteq Nat

VARIABLES
  peers,    \* config.peers
  joins,    \* registrations so far, for the bound
  handed    \* history: the alerts handed in, with the hold mode at that time

relayVars == <<handler, meshFiles, peers, joins, handed>>

------------------------------------------------------------------------------
\* chain_auto_join: the new list replaces the old one; without a radio the
\* registration goes to the spool, among the messages.
JoinLine(ps) == [join |-> ps]

ChainAutoJoin(ps) ==
  /\ peers' = ps
  /\ IF radio THEN UNCHANGED spool ELSE SpoolWrite(JoinLine(ps))
  /\ UNCHANGED <<handler, inbox>>

RelayInit ==
  /\ radio \in BOOLEAN
  /\ hold = FALSE
  /\ air = <<>> /\ spool = <<>> /\ inbox = <<>>
  /\ peers \in SUBSET Peers
  /\ joins = 0
  /\ handed = <<>>

Hand ==
  /\ Len(handed) < MaxHanded
  /\ \E level \in Levels :
       LET alert == [id |-> Len(handed) + 1, level |-> level] IN
       /\ SendAlert(alert)
       /\ handed' = Append(handed, [alert |-> alert, hold |-> hold])
  /\ UNCHANGED <<peers, joins>>

SwitchHold ==
  /\ \E enabled \in BOOLEAN : SetHoldMode(enabled)
  /\ UNCHANGED <<peers, joins, handed>>

Join ==
  /\ joins < MaxJoins
  /\ joins' = joins + 1
  /\ \E ps \in SUBSET Peers : ChainAutoJoin(ps)
  /\ UNCHANGED handed

RelayNext == Hand \/ SwitchHold \/ Join

RelaySpec == RelayInit /\ [][RelayNext]_relayVars

------------------------------------------------------------------------------
SpooledAlerts == {m.alert : m \in {l \in Range(spool) : "alert" \in DOMAIN l}}
SentAlerts == {m.alert : m \in Range(air)}

RelayTypeOK ==
  /\ {radio, hold} \subseteq BOOLEAN
  /\ peers \subseteq Peers
  /\ \A a \in SentAlerts \cup SpooledAlerts \cup Range(inbox) :
       a \in [id : 1..MaxHanded, level : Levels]

(***************************************************************************)
(* No alert vanishes and none is doubled, while the files can be written:   *)
(* each alert handed in is on the air, in the spool, or noted as suppressed *)
(* - in exactly one of the three, whatever the radio and the hold mode did  *)
(* in between.                                                             *)
(***************************************************************************)
EveryAlertAccountedFor ==
  LET places == <<SentAlerts, SpooledAlerts, Range(inbox)>> IN
  /\ {h.alert : h \in Range(handed)} = UNION Range(places)
  /\ \A i, j \in 1..3 : i # j => places[i] \cap places[j] = {}

(***************************************************************************)
(* What was suppressed stays suppressed: an alert handed in during hold     *)
(* mode, and a HOLD alert at any time, is neither on the air nor in the      *)
(* spool, not even after hold mode has ended.                              *)
(***************************************************************************)
SuppressedForGood ==
  \A h \in Range(handed) :
    h.hold \/ h.alert.level = "HOLD" => h.alert \notin SentAlerts \cup SpooledAlerts
==============================================================================
