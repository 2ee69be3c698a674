---------------------------- MODULE MCLiveIngest ----------------------------
(***************************************************************************)
(* Constants for model checking the live service: the two keys the audit    *)
(* logger may start with, and the levels of an untampered frame.           *)
(***************************************************************************)
EXTENDS IngestProperties

IngestKeys == {OperatorKey, DevKey}

\* One level the loop only logs, one it relays, one that is hold-safe.
OneOfEach == {"CLEAR", "RED", "HOLD"}
==============================================================================
