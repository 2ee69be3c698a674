----------------------------- MODULE RelayProofs -----------------------------
(***************************************************************************)
(* Proofs about the mesh handler under any caller: where an alert ends, for *)
(* any number of alerts, peers and registrations.                          *)
(***************************************************************************)
EXTENDS MeshRelay, SequenceTheorems, TLAPS

Alerts == [id : 1..MaxHanded, level : Levels]
Messages == [alert : Alerts]
JoinLines == [join : SUBSET Peers]
HandedRecords == [alert : Alerts, hold : BOOLEAN]

HandedAlerts == {h.alert : h \in Range(handed)}
Places == SentAlerts \cup SpooledAlerts \cup Range(inbox)

\* The shape of the handler's state and of its three places.
RelayShape ==
  /\ radio \in BOOLEAN /\ hold \in BOOLEAN /\ peers \subseteq Peers
  /\ air \in Seq(Messages)
  /\ spool \in Seq(Messages \cup JoinLines)
  /\ inbox \in Seq(Alerts)
  /\ handed \in Seq(HandedRecords)

\* Alerts are numbered in the order in which they were handed in.
Numbered ==
  /\ Len(handed) <= MaxHanded
  /\ \A i \in 1..Len(handed) : handed[i].alert.id = i

\* An alert in a place was handed in, and it is in no other place.
PlacesApart ==
  /\ Places \subseteq HandedAlerts
  /\ SentAlerts \cap SpooledAlerts = {}
  /\ SentAlerts \cap Range(inbox) = {}
  /\ SpooledAlerts \cap Range(inbox) = {}

RelayInvariant == RelayShape /\ Numbered /\ PlacesApart /\ SuppressedForGood

------------------------------------------------------------------------------
\* What an append adds to a sequence.
LEMMA AppendRange ==
  ASSUME NEW S, NEW s \in Seq(S), NEW e \in S
  PROVE  /\ Append(s, e) \in Seq(S)
         /\ Len(Append(s, e)) = Len(s) + 1
         /\ Range(Append(s, e)) = Range(s) \cup {e}
<1>1. /\ Append(s, e) \in Seq(S) /\ Len(Append(s, e)) = Len(s) + 1
      /\ \A i \in 1..Len(s) : Append(s, e)[i] = s[i]
      /\ Append(s, e)[Len(s) + 1] = e
      /\ Len(s) \in Nat /\ DOMAIN s = 1..Len(s)
      /\ DOMAIN Append(s, e) = 1..(Len(s) + 1)
  OBVIOUS
<1>2. ASSUME NEW x \in Range(Append(s, e)) PROVE x \in Range(s) \cup {e}
  <2>1. PICK i \in 1..(Len(s) + 1) : x = Append(s, e)[i]
    BY <1>1 DEF Range
  <2>2. CASE i = Len(s) + 1
    BY <1>1, <2>1, <2>2
  <2>3. CASE i \in 1..Len(s)
    BY <1>1, <2>1, <2>3 DEF Range
  <2> QED BY <1>1, <2>2, <2>3
<1>3. ASSUME NEW x \in Range(s) PROVE x \in Range(Append(s, e))
  <2>1. PICK i \in 1..Len(s) : x = s[i]
    BY <1>1 DEF Range
  <2>2. i \in 1..(Len(s) + 1) /\ x = Append(s, e)[i]
    BY <1>1, <2>1
  <2> QED BY <1>1, <2>2 DEF Range
<1>4. e \in Range(Append(s, e))
  <2>1. Len(s) + 1 \in 1..(Len(s) + 1)
    BY <1>1
  <2> QED BY <1>1, <2>1 DEF Range
<1> QED BY <1>1, <1>2, <1>3, <1>4

\* The alerts of a place after a message, or a registration, has been added.
LEMMA AirGrows ==
  ASSUME RelayShape, NEW a \in Alerts, air' = Append(air, Message(a))
  PROVE  air' \in Seq(Messages) /\ SentAlerts' = SentAlerts \cup {a}
<1>1. Message(a) \in Messages /\ Message(a).alert = a
  BY DEF Messages, Message
<1>2. air' \in Seq(Messages) /\ Range(air') = Range(air) \cup {Message(a)}
  BY <1>1, AppendRange DEF RelayShape
<1> QED BY <1>1, <1>2 DEF SentAlerts

LEMMA SpoolGrows ==
  ASSUME RelayShape, NEW a \in Alerts, spool' = Append(spool, Message(a))
  PROVE  spool' \in Seq(Messages \cup JoinLines) /\ SpooledAlerts' = SpooledAlerts \cup {a}
<1>1. Message(a) \in Messages /\ Message(a).alert = a /\ "alert" \in DOMAIN Message(a)
  BY DEF Messages, Message
<1>2. spool' \in Seq(Messages \cup JoinLines) /\ Range(spool') = Range(spool) \cup {Message(a)}
  BY <1>1, AppendRange DEF RelayShape
<1> QED BY <1>1, <1>2 DEF SpooledAlerts

LEMMA JoinIsNoAlert ==
  ASSUME RelayShape, NEW ps \in SUBSET Peers, spool' = Append(spool, JoinLine(ps))
  PROVE  spool' \in Seq(Messages \cup JoinLines) /\ SpooledAlerts' = SpooledAlerts
<1>1. JoinLine(ps) \in JoinLines /\ "alert" \notin DOMAIN JoinLine(ps)
  BY DEF JoinLines, JoinLine
<1>2. spool' \in Seq(Messages \cup JoinLines) /\ Range(spool') = Range(spool) \cup {JoinLine(ps)}
  BY <1>1, AppendRange DEF RelayShape
<1> QED BY <1>1, <1>2 DEF SpooledAlerts

------------------------------------------------------------------------------
\* SendAlert puts a new alert in one of the three places, or loses it when the
\* file cannot be written; a suppressed one comes neither on the air nor in the
\* spool.
Placed(a) ==
  /\ SentAlerts' \subseteq SentAlerts \cup {a}
  /\ SpooledAlerts' \subseteq SpooledAlerts \cup {a}
  /\ Range(inbox)' \subseteq Range(inbox) \cup {a}
  /\ \/ SpooledAlerts' = SpooledAlerts /\ Range(inbox)' = Range(inbox)
     \/ SentAlerts' = SentAlerts /\ Range(inbox)' = Range(inbox)
     \/ SentAlerts' = SentAlerts /\ SpooledAlerts' = SpooledAlerts
  /\ hold \/ a.level = "HOLD" => SentAlerts' = SentAlerts /\ SpooledAlerts' = SpooledAlerts
  /\ ~SpoolMayFail => Places' = Places \cup {a}

LEMMA SendPlaces ==
  ASSUME RelayShape, NEW a \in Alerts, SendAlert(a)
  PROVE  /\ Placed(a)
         /\ air' \in Seq(Messages) /\ spool' \in Seq(Messages \cup JoinLines)
         /\ inbox' \in Seq(Alerts)
         /\ UNCHANGED <<radio, hold>>
<1>1. CASE SuppressSend(a)
  <2>1. UNCHANGED <<radio, hold, air, spool>>
    BY <1>1 DEF SuppressSend, handler
  <2>2. SentAlerts' = SentAlerts /\ SpooledAlerts' = SpooledAlerts
    BY <2>1 DEF SentAlerts, SpooledAlerts
  <2>3. CASE inbox' = Append(inbox, a)
    <3>1. inbox' \in Seq(Alerts) /\ Range(inbox)' = Range(inbox) \cup {a}
      BY <2>3, AppendRange DEF RelayShape
    <3> QED BY <2>1, <2>2, <3>1 DEF Placed, Places, RelayShape
  <2>4. CASE SpoolMayFail /\ UNCHANGED inbox
    BY <2>1, <2>2, <2>4 DEF Placed, Places, RelayShape
  <2> QED BY <1>1, <2>3, <2>4 DEF SuppressSend
<1>2. CASE Transmit(a)
  <2>1. /\ UNCHANGED <<radio, hold, inbox, spool>> /\ ~hold /\ a.level # "HOLD"
        /\ air' = Append(air, Message(a))
    BY <1>2 DEF Transmit, meshFiles
  <2>2. SpooledAlerts' = SpooledAlerts /\ Range(inbox)' = Range(inbox)
    BY <2>1 DEF SpooledAlerts
  <2>3. air' \in Seq(Messages) /\ SentAlerts' = SentAlerts \cup {a}
    BY <2>1, AirGrows
  <2> QED BY <2>1, <2>2, <2>3 DEF Placed, Places, RelayShape
<1>3. CASE SpoolSend(a)
  <2>1. /\ UNCHANGED <<radio, hold, inbox, air>> /\ ~hold /\ a.level # "HOLD"
        /\ SpoolWrite(Message(a))
    BY <1>3 DEF SpoolSend, handler
  <2>2. SentAlerts' = SentAlerts /\ Range(inbox)' = Range(inbox)
    BY <2>1 DEF SentAlerts
  <2>3. CASE spool' = Append(spool, Message(a))
    <3>1. /\ spool' \in Seq(Messages \cup JoinLines)
          /\ SpooledAlerts' = SpooledAlerts \cup {a}
      BY <2>3, SpoolGrows
    <3> QED BY <2>1, <2>2, <3>1 DEF Placed, Places, RelayShape
  <2>4. CASE SpoolMayFail /\ UNCHANGED spool
    <3>1. SpooledAlerts' = SpooledAlerts
      BY <2>4 DEF SpooledAlerts
    <3> QED BY <2>1, <2>2, <2>4, <3>1 DEF Placed, Places, RelayShape
  <2> QED BY <2>1, <2>3, <2>4 DEF SpoolWrite
<1> QED BY <1>1, <1>2, <1>3 DEF SendAlert

\* The number of the next alert is new.
LEMMA NextIsFresh ==
  ASSUME RelayInvariant, NEW a, a.id = Len(handed) + 1
  PROVE  a \notin HandedAlerts
<1>1. SUFFICES ASSUME NEW i \in 1..Len(handed), a = handed[i].alert PROVE FALSE
  BY DEF HandedAlerts, Range, RelayInvariant, RelayShape
<1> QED BY <1>1 DEF RelayInvariant, RelayShape, Numbered

\* A step that hands nothing in and leaves the three places as they are.
LEMMA QuietStep ==
  ASSUME RelayInvariant, RelayShape', UNCHANGED handed,
         SentAlerts' = SentAlerts, SpooledAlerts' = SpooledAlerts, inbox' = inbox
  PROVE  RelayInvariant'
<1>1. Numbered' /\ HandedAlerts' = HandedAlerts /\ Range(inbox)' = Range(inbox)
  BY DEF RelayInvariant, Numbered, HandedAlerts
<1>2. PlacesApart'
  BY <1>1 DEF RelayInvariant, PlacesApart, Places
<1>3. SuppressedForGood'
  BY DEF RelayInvariant, SuppressedForGood
<1> QED BY <1>1, <1>2, <1>3 DEF RelayInvariant

------------------------------------------------------------------------------
\* What a step of Hand does to the history and to the places.
LEMMA HandFacts ==
  ASSUME RelayInvariant, Hand
  PROVE  \E a \in Alerts :
           /\ a.id = Len(handed) + 1 /\ Placed(a)
           /\ RelayShape' /\ Numbered'
           /\ Range(handed)' = Range(handed) \cup {[alert |-> a, hold |-> hold]}
<1>1. PICK level \in Levels :
        LET alert == [id |-> Len(handed) + 1, level |-> level] IN
        /\ SendAlert(alert)
        /\ handed' = Append(handed, [alert |-> alert, hold |-> hold])
  BY DEF Hand
<1> DEFINE a == [id |-> Len(handed) + 1, level |-> level]
           h == [alert |-> a, hold |-> hold]
<1>2. Len(handed) \in Nat /\ Len(handed) < MaxHanded /\ MaxHanded \in Nat
  BY RelayBoundAssumption DEF Hand, RelayInvariant, RelayShape
<1>3. a \in Alerts /\ a.id = Len(handed) + 1 /\ h \in HandedRecords
  BY <1>2 DEF Alerts, HandedRecords, RelayInvariant, RelayShape
<1>4. /\ Placed(a) /\ UNCHANGED <<radio, hold, peers>>
      /\ air' \in Seq(Messages) /\ spool' \in Seq(Messages \cup JoinLines)
      /\ inbox' \in Seq(Alerts)
  BY <1>1, <1>3, SendPlaces DEF Hand, RelayInvariant
<1>5. /\ handed' \in Seq(HandedRecords) /\ Len(handed') = Len(handed) + 1
      /\ Range(handed') = Range(handed) \cup {h}
  BY <1>1, <1>3, AppendRange DEF RelayInvariant, RelayShape
<1>6. RelayShape'
  BY <1>4, <1>5 DEF RelayInvariant, RelayShape
<1>7. ASSUME NEW i \in 1..Len(handed') PROVE handed'[i].alert.id = i
  <2>1. CASE i = Len(handed) + 1
    BY <1>1, <1>2, <2>1 DEF RelayInvariant, RelayShape
  <2>2. CASE i \in 1..Len(handed)
    <3>1. handed'[i] = handed[i]
      BY <1>1, <2>2 DEF RelayInvariant, RelayShape
    <3> QED BY <2>2, <3>1 DEF RelayInvariant, Numbered
  <2> QED BY <1>2, <1>5, <2>1, <2>2
<1>8. Numbered'
  BY <1>2, <1>5, <1>7 DEF Numbered
<1>9. Range(handed)' = Range(handed) \cup {h}
  BY <1>5
<1> QED BY <1>3, <1>4, <1>6, <1>8, <1>9

LEMMA HandedGrows ==
  ASSUME NEW a, Range(handed)' = Range(handed) \cup {[alert |-> a, hold |-> hold]}
  PROVE  HandedAlerts' = HandedAlerts \cup {a}
<1> DEFINE h == [alert |-> a, hold |-> hold]
<1>1. h.alert = a /\ Range(handed)' = Range(handed) \cup {h}
  OBVIOUS
<1> HIDE DEF h
<1> QED BY <1>1 DEF HandedAlerts

LEMMA HandStep == ASSUME RelayInvariant, Hand PROVE RelayInvariant'
<1>1. PICK a \in Alerts :
        /\ a.id = Len(handed) + 1 /\ Placed(a)
        /\ RelayShape' /\ Numbered'
        /\ Range(handed)' = Range(handed) \cup {[alert |-> a, hold |-> hold]}
  BY HandFacts
<1>2. a \notin HandedAlerts
  BY <1>1, NextIsFresh
<1>3. HandedAlerts' = HandedAlerts \cup {a}
  BY <1>1, HandedGrows
<1>4. a \notin Places
  BY <1>2 DEF RelayInvariant, PlacesApart
<1>5. PlacesApart'
  BY <1>1, <1>3, <1>4 DEF RelayInvariant, PlacesApart, Placed, Places
<1>6. SuppressedForGood'
  <2> SUFFICES ASSUME NEW h \in Range(handed)', h.hold \/ h.alert.level = "HOLD"
               PROVE  h.alert \notin (SentAlerts \cup SpooledAlerts)'
    BY DEF SuppressedForGood
  <2>1. CASE h \in Range(handed)
    <3>1. h.alert \notin SentAlerts \cup SpooledAlerts /\ h.alert \in HandedAlerts
      BY <2>1 DEF RelayInvariant, SuppressedForGood, HandedAlerts
    <3> QED BY <1>1, <1>2, <3>1 DEF Placed
  <2>2. CASE h = [alert |-> a, hold |-> hold]
    <3>1. SentAlerts' = SentAlerts /\ SpooledAlerts' = SpooledAlerts /\ h.alert = a
      BY <1>1, <2>2 DEF Placed
    <3> QED BY <1>4, <3>1 DEF Places
  <2> QED BY <1>1, <2>1, <2>2
<1> QED BY <1>1, <1>5, <1>6 DEF RelayInvariant

LEMMA SwitchStep == ASSUME RelayInvariant, SwitchHold PROVE RelayInvariant'
<1>1. UNCHANGED <<radio, air, spool, inbox, peers, handed>> /\ hold' \in BOOLEAN
  BY DEF SwitchHold, SetHoldMode, meshFiles
<1>2. RelayShape' /\ SentAlerts' = SentAlerts /\ SpooledAlerts' = SpooledAlerts
  BY <1>1 DEF RelayInvariant, RelayShape, SentAlerts, SpooledAlerts
<1> QED BY <1>1, <1>2, QuietStep

\* A registration is no alert, on the air or in the spool.
LEMMA JoinStep == ASSUME RelayInvariant, Join PROVE RelayInvariant'
<1>1. PICK ps \in SUBSET Peers : ChainAutoJoin(ps)
  BY DEF Join
<1>2. /\ UNCHANGED <<radio, hold, air, inbox, handed>> /\ peers' = ps
      /\ spool' = spool \/ spool' = Append(spool, JoinLine(ps))
  BY <1>1 DEF Join, ChainAutoJoin, SpoolWrite, handler
<1>3. spool' \in Seq(Messages \cup JoinLines) /\ SpooledAlerts' = SpooledAlerts
  BY <1>2, JoinIsNoAlert DEF RelayInvariant, RelayShape, SpooledAlerts
<1>4. RelayShape' /\ SentAlerts' = SentAlerts
  BY <1>2, <1>3 DEF RelayInvariant, RelayShape, SentAlerts
<1> QED BY <1>2, <1>3, <1>4, QuietStep

LEMMA RelayStart == ASSUME RelayInit PROVE RelayInvariant /\ Places = HandedAlerts
<1>1. /\ air = <<>> /\ spool = <<>> /\ inbox = <<>> /\ handed = <<>>
      /\ radio \in BOOLEAN /\ hold \in BOOLEAN /\ peers \subseteq Peers
  BY DEF RelayInit
<1>2. Range(<<>>) = {}
  BY DEF Range
<1>3. SentAlerts = {} /\ SpooledAlerts = {} /\ Range(inbox) = {} /\ HandedAlerts = {}
  BY <1>1, <1>2 DEF SentAlerts, SpooledAlerts, HandedAlerts
<1>4. RelayShape /\ Numbered
  BY <1>1, RelayBoundAssumption DEF RelayShape, Numbered
<1> QED BY <1>1, <1>2, <1>3, <1>4
       DEF RelayInvariant, PlacesApart, Places, SuppressedForGood

LEMMA RelayStep == RelayInvariant /\ [RelayNext]_relayVars => RelayInvariant'
<1> SUFFICES ASSUME RelayInvariant, [RelayNext]_relayVars PROVE RelayInvariant'
  OBVIOUS
<1>1. CASE Hand
  BY <1>1, HandStep
<1>2. CASE SwitchHold
  BY <1>2, SwitchStep
<1>3. CASE Join
  BY <1>3, JoinStep
<1>4. CASE UNCHANGED relayVars
  <2>1. UNCHANGED <<radio, hold, air, spool, inbox, peers, handed>>
    BY <1>4 DEF relayVars, handler, meshFiles
  <2>2. RelayShape' /\ SentAlerts' = SentAlerts /\ SpooledAlerts' = SpooledAlerts
    BY <2>1 DEF RelayInvariant, RelayShape, SentAlerts, SpooledAlerts
  <2> QED BY <2>1, <2>2, QuietStep
<1> QED BY <1>1, <1>2, <1>3, <1>4 DEF RelayNext

LEMMA RelaySafe == RelaySpec => []RelayInvariant
<1>1. RelayInit => RelayInvariant
  BY RelayStart
<1> QED BY <1>1, RelayStep, PTL DEF RelaySpec

------------------------------------------------------------------------------
\* What is in a place is an alert that was handed in, by any caller.
THEOREM RelayTypes == RelaySpec => []RelayTypeOK
<1>1. RelayInvariant => RelayTypeOK
  <2> SUFFICES ASSUME RelayInvariant PROVE RelayTypeOK
    OBVIOUS
  <2>1. HandedAlerts \subseteq Alerts
    <3>1. ASSUME NEW i \in DOMAIN handed PROVE handed[i].alert \in Alerts
      <4>1. handed[i] \in HandedRecords
        BY ElementOfSeq, LenProperties DEF RelayInvariant, RelayShape
      <4> QED BY <4>1 DEF HandedRecords
    <3> QED BY <3>1 DEF HandedAlerts, Range
  <2>2. Places \subseteq Alerts
    BY <2>1 DEF RelayInvariant, PlacesApart
  <2> QED BY <2>2 DEF RelayTypeOK, Places, Alerts, RelayInvariant, RelayShape
<1> QED BY <1>1, RelaySafe, PTL

\* Hold mode is final for the alerts it met (send_alert, set_hold_mode), for any
\* number of alerts and whether or not the files can be written.
THEOREM SuppressionIsFinal == RelaySpec => []SuppressedForGood
<1>1. RelayInvariant => SuppressedForGood
  BY DEF RelayInvariant
<1> QED BY <1>1, RelaySafe, PTL

\* While the files can be written, each alert handed to send_alert is on the air,
\* in the spool or noted as suppressed, and in one of them only.
THEOREM AlertsAreAccountedFor ==
  ASSUME SpoolMayFail = FALSE
  PROVE  RelaySpec => []EveryAlertAccountedFor
<1> DEFINE Kept == RelayInvariant /\ Places = HandedAlerts
<1>1. RelayInit => Kept
  BY RelayStart
<1>2. Kept /\ [RelayNext]_relayVars => Kept'
  <2> SUFFICES ASSUME Kept, [RelayNext]_relayVars PROVE Kept'
    OBVIOUS
  <2>1. RelayInvariant'
    BY RelayStep
  <2>2. CASE Hand
    <3>1. PICK a \in Alerts :
            /\ Placed(a)
            /\ Range(handed)' = Range(handed) \cup {[alert |-> a, hold |-> hold]}
      BY <2>2, HandFacts
    <3>2. HandedAlerts' = HandedAlerts \cup {a}
      BY <3>1, HandedGrows
    <3> QED BY <2>1, <3>1, <3>2 DEF Placed
  <2>3. CASE SwitchHold \/ UNCHANGED relayVars
    <3>1. UNCHANGED <<air, spool, inbox, handed>>
      BY <2>3 DEF SwitchHold, SetHoldMode, relayVars, handler, meshFiles
    <3> QED BY <2>1, <3>1 DEF Places, HandedAlerts, SentAlerts, SpooledAlerts
  <2>4. CASE Join
    <3>1. PICK ps \in SUBSET Peers : ChainAutoJoin(ps)
      BY <2>4 DEF Join
    <3>2. /\ UNCHANGED <<air, inbox, handed>>
          /\ spool' = spool \/ spool' = Append(spool, JoinLine(ps))
      BY <2>4, <3>1 DEF Join, ChainAutoJoin, SpoolWrite, handler
    <3>3. SpooledAlerts' = SpooledAlerts
      BY <3>2, JoinIsNoAlert DEF RelayInvariant, SpooledAlerts
    <3> QED BY <2>1, <3>2, <3>3 DEF Places, HandedAlerts, SentAlerts
  <2> QED BY <2>2, <2>3, <2>4 DEF RelayNext
<1>3. Kept => EveryAlertAccountedFor
  <2> SUFFICES ASSUME Kept PROVE EveryAlertAccountedFor
    OBVIOUS
  <2> DEFINE places == <<SentAlerts, SpooledAlerts, Range(inbox)>>
  <2>1. UNION Range(places) = Places
    BY DEF Range, Places
  <2>2. \A i, j \in 1..3 : i # j => places[i] \cap places[j] = {}
    <3>1. /\ places[1] = SentAlerts /\ places[2] = SpooledAlerts
          /\ places[3] = Range(inbox)
      OBVIOUS
    <3> HIDE DEF places
    <3> QED BY <3>1 DEF RelayInvariant, PlacesApart
  <2> QED BY <2>1, <2>2 DEF EveryAlertAccountedFor, HandedAlerts
<1> QED BY <1>1, <1>2, <1>3, PTL DEF RelaySpec
==============================================================================
