----------------------------- MODULE MCEvidence -----------------------------
(***************************************************************************)
(* Model checking of the tools around the node: the report pipeline, the    *)
(* GPU sweep, the acceptance gates and the integrity check. They share no    *)
(* file, so a behaviour is one of one of them, chosen at the start, while    *)
(* the others stay in their first state.                                    *)
(***************************************************************************)
EXTENDS Reports, GpuSweep, Acceptance, Fielding

VARIABLE tool

evidenceVars == <<reportVars, sweepVars, acceptanceVars, fieldVars>>

\* One defect at a time is enough: an edit exchanges it for another.
ModelCheckouts ==
  {{}} \cup {{d} : d \in {"test", "conftest", "import", "scenario", "modes", "files"}}

\* A finished node, nodes with one part missing, and a desktop.
ModelBuilds ==
  {Parts} \cup {Parts \ {part} : part \in Parts} \cup {{"pyaudio", "microphone"}}

EvidenceInit ==
  /\ tool \in {"reports", "sweep", "gates", "field"}
  /\ IF tool = "reports" THEN ReportsInit ELSE ReportsStart /\ defects = {}
  /\ SweepInit
  /\ IF tool = "gates" THEN AcceptanceInit ELSE AcceptanceStart /\ build = {}
  /\ FieldingStart

EvidenceNext ==
  /\ UNCHANGED tool
  /\ \/ tool = "reports" /\ ReportsNext /\ UNCHANGED <<sweepVars, acceptanceVars, fieldVars>>
     \/ tool = "sweep" /\ SweepNext /\ UNCHANGED <<reportVars, acceptanceVars, fieldVars>>
     \/ tool = "gates" /\ AcceptanceNext /\ UNCHANGED <<reportVars, sweepVars, fieldVars>>
     \/ tool = "field" /\ FieldingNext /\ UNCHANGED <<reportVars, sweepVars, acceptanceVars>>

EvidenceSpec == EvidenceInit /\ [][EvidenceNext]_<<tool, evidenceVars>>
==============================================================================
