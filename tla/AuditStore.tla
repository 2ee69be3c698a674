------------------------------ MODULE AuditStore ------------------------------
(***************************************************************************)
(* The bounded SQLite event log (sentry/audit/sqlite_store.py). One append  *)
(* inserts a row and deletes all but the newest max_rows rows in a single   *)
(* transaction. SQLite (external) makes the transaction atomic. It is also  *)
(* durable when append() returns: the connection goes with the call, and    *)
(* closing the only connection checkpoints the log into the database and    *)
(* syncs it, under synchronous=NORMAL too.                                 *)
(***************************************************************************)
EXTENDS Integers, Sequences

CONSTANT MaxRows   \* config.max_rows; SQLite takes a negative LIMIT for none

ASSUME MaxRowsAssumption == MaxRows \in Int

VARIABLE rows      \* the table events, in the order of its row ids

\* The newest n elements of a sequence, all of them if n is negative.
Newest(s, n) ==
  IF n < 0 \/ Len(s) <= n THEN s ELSE SubSeq(s, Len(s) - n + 1, Len(s))

\* append(event_type, payload): INSERT, then DELETE ... NOT IN (newest rows).
StoreAppend(payload) == rows' = Newest(Append(rows, payload), MaxRows)
==============================================================================
