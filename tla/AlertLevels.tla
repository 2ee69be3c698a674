----------------------------- MODULE AlertLevels -----------------------------
(***************************************************************************)
(* The vocabulary every module of the node shares: the alert levels of    *)
(* alert_frame.v1, their rank, and the sets of levels the code tests.      *)
(***************************************************************************)
EXTENDS Naturals

Levels == {"CLEAR", "YELLOW", "ORANGE", "RED", "HOLD"}

\* The levels the guardian calls low-tier and may suppress in a cooldown.
LowTier == {"YELLOW", "ORANGE"}

\* The levels that need the dwell confirmation and that go on the mesh.
Threat == {"ORANGE", "RED"}

\* The levels written to the HMAC chain: a threat, or hold-safe.
Critical == Threat \cup {"HOLD"}

\* The order of the levels (`rank` in run_live_ingest).
Rank(l) == CASE l = "CLEAR"  -> 0
             [] l = "YELLOW" -> 1
             [] l = "ORANGE" -> 2
             [] l = "RED"    -> 3
             [] l = "HOLD"   -> 4

==============================================================================
