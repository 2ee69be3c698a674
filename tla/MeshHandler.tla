----------------------------- MODULE MeshHandler -----------------------------
(***************************************************************************)
(* The Meshtastic relay (sentry/networking/meshtastic_handler.py). An alert *)
(* is suppressed in hold mode, otherwise transmitted, otherwise spooled.    *)
(* Files and the radio may fail: an OSError of the spool is logged and the  *)
(* message is lost, an exception of the radio falls through to the spool.   *)
(* poll_inbox() only reads, and is modelled by the variable it reads.      *)
(***************************************************************************)
EXTENDS Integers, Sequences

CONSTANT SpoolMayFail   \* can an append to a spool file raise OSError?

ASSUME SpoolAssumption == SpoolMayFail \in BOOLEAN

VARIABLES
  radio,   \* _available: did _connect() find the radio?
  hold,    \* _hold_mode
  air,     \* the messages sendText() accepted, in order
  spool,   \* lines of spool_path
  inbox    \* lines of receive_spool

meshFiles == <<spool, inbox>>
handler == <<radio, hold, air>>

\* The message of an alert: its payload as text, cut to the maximum size.
Message(alert) == [alert |-> alert]

\* _spool_write: append a line, or lose it.
SpoolWrite(line) ==
  \/ spool' = Append(spool, line)
  \/ SpoolMayFail /\ UNCHANGED spool

SetHoldMode(enabled) ==
  /\ hold' = enabled
  /\ UNCHANGED <<radio, air, meshFiles>>

\* Mutants of SuppressSend: the radio message is noted in place of the alert; the
\* early return is missing, and the message is spooled as well.
NoteMessage(alert) ==
  /\ hold \/ alert.level = "HOLD"
  /\ inbox' = Append(inbox, Message(alert))
  /\ UNCHANGED <<handler, spool>>

SuppressAndSpool(alert) ==
  /\ hold \/ alert.level = "HOLD"
  /\ inbox' = Append(inbox, alert)
  /\ SpoolWrite(Message(alert))
  /\ UNCHANGED handler

\* send_alert: in hold mode the suppression is noted in the receive spool.
SuppressSend(alert) ==
  /\ hold \/ alert.level = "HOLD"
  /\ \/ inbox' = Append(inbox, alert)
     \/ SpoolMayFail /\ UNCHANGED inbox
  /\ UNCHANGED <<handler, spool>>

\* Mutants of Transmit: the return after sendText() is missing; hold mode is not
\* looked at.
TransmitAndSpool(alert) ==
  /\ ~hold /\ alert.level # "HOLD"
  /\ radio
  /\ air' = Append(air, Message(alert))
  /\ SpoolWrite(Message(alert))
  /\ UNCHANGED <<radio, hold, inbox>>

TransmitInHold(alert) ==
  /\ alert.level # "HOLD"
  /\ radio
  /\ air' = Append(air, Message(alert))
  /\ UNCHANGED <<radio, hold, meshFiles>>

Transmit(alert) ==
  /\ ~hold /\ alert.level # "HOLD"
  /\ radio
  /\ air' = Append(air, Message(alert))
  /\ UNCHANGED <<radio, hold, meshFiles>>

\* Mutant of SpoolSend: hold mode is not looked at.
SpoolInHold(alert) ==
  /\ alert.level # "HOLD"
  /\ SpoolWrite(Message(alert))
  /\ UNCHANGED <<handler, inbox>>

\* No radio, or sendText() raised.
SpoolSend(alert) ==
  /\ ~hold /\ alert.level # "HOLD"
  /\ SpoolWrite(Message(alert))
  /\ UNCHANGED <<handler, inbox>>

SendAlert(alert) == SuppressSend(alert) \/ Transmit(alert) \/ SpoolSend(alert)
==============================================================================
