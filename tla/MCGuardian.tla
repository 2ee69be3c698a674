----------------------------- MODULE MCGuardian -----------------------------
(***************************************************************************)
(* Constants for model checking the guardian: one time unit stands for     *)
(* 1.5 s, so that a dwell of 2 is the default 3 s.                         *)
(***************************************************************************)
EXTENDS GuardianMonitor

\* The node samples at 0.5 Hz or slower: the next event is one or more units on.
ForwardSteps == {1, 2}
==============================================================================
