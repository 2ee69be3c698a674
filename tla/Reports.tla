------------------------------- MODULE Reports -------------------------------
(***************************************************************************)
(* How the software gates become published evidence: the five gates, the    *)
(* local collection of their outcomes (scripts/collect_ci_reports.py), the  *)
(* summary the CI job rebuilds from the files they leave                    *)
(* (scripts/build_ci_summary.py) and the published results                  *)
(* (scripts/publish_results.py). A checkout is the set of its defects, and  *)
(* a file is the collection that wrote it with the defects it was made from. *)
(* The files of a run stay until a later one writes them again: a gate that *)
(* crashes leaves the previous file where it was.                           *)
(***************************************************************************)
EXTENDS Naturals, Sequences, FiniteSets

CONSTANTS
  Checkouts,   \* the sets of defects a checkout may have
  MaxRuns,     \* bound: collections started
  MaxEdits     \* bound: changes of the checkout

Gates == {"pytest", "mypy", "simulation", "build", "audit"}

Defects ==
  {"test", "coverage", "conftest", "types", "import", "chain", "scenario",
   "modes", "files", "config"}

ASSUME ReportsAssumption ==
  Checkouts \subseteq SUBSET Defects /\ {MaxRuns, MaxEdits} \subseteq Nat

VARIABLES
  defects,    \* what is wrong with the present checkout
  edits, runs, \* how many so far
  step,       \* gates the running collection has finished, Idle between two
  exits,      \* exit status 0 of each gate in the running collection
  ci,         \* validation/reports/ci: the file each gate leaves
  report,     \* validation/reports/defense-readiness-sentry.json
  summary,    \* validation/reports/ci/summary.json
  published,  \* validation/published
  job         \* the latest CI job and the summary it uploads

reportFiles == <<ci, report, summary, published, job>>
reportVars == <<defects, edits, runs, step, exits, reportFiles>>

GateOrder == <<"pytest", "mypy", "simulation", "build", "audit">>
Idle == Len(GateOrder)

------------------------------------------------------------------------------
(***************************************************************************)
(* What breaks each gate, and what its file shows of it.                    *)
(***************************************************************************)
\* pytest under coverage; an unloadable conftest stops it before any report.
TestsBreak == {"test", "coverage", "conftest", "import", "chain"}

\* The smoke runs one scenario and fails when its audit chain does not verify.
SmokeBreaks == {"import", "chain"}

\* Required files, the import check and the tests again, without coverage.
BuildBreaks == {"files", "test", "conftest", "import", "chain"}

\* The audit's scenarios; then the failure modes, the tamper probe, the live
\* smoke and the deployment; a missing import or configuration ends it early.
ScenarioBreaks == {"chain", "scenario"}
AuditCrashes == {"import", "config"}
AuditBreaks == ScenarioBreaks \cup {"modes"} \cup AuditCrashes

Breaks ==
  [pytest |-> TestsBreak, mypy |-> {"types"}, simulation |-> SmokeBreaks,
   build |-> BuildBreaks, audit |-> AuditBreaks]

Passes(gate, found) == found \cap Breaks[gate] = {}

\* Logs are always written; the JUnit file and the audit report are not.
Leaves(gate, found) ==
  found \cap (CASE gate = "pytest" -> {"conftest"}
                [] gate = "audit" -> AuditCrashes
                [] OTHER -> {}) = {}

Missing == [run |-> 0, seen |-> {}]
Exists(file) == file.run > 0
File(run, found) == [run |-> run, seen |-> found]

\* What build_ci_summary.py reads in a file: counts, statuses and tracebacks.
Shown ==
  [pytest |-> TestsBreak \ {"conftest"}, mypy |-> {"types"},
   simulation |-> {"import"}, build |-> {"import"}, audit |-> ScenarioBreaks]

Reads(gate, file) == Exists(file) /\ file.seen \cap Shown[gate] = {}

Summary(source, run, passed) == [source |-> source, run |-> run, passed |-> passed]
AllPassed(s) == \A gate \in Gates : s.passed[gate]
NoSummary == Summary("none", 0, [gate \in Gates |-> FALSE])

------------------------------------------------------------------------------
NoJob == [ran |-> FALSE, green |-> FALSE, seen |-> {}, summary |-> NoSummary]

ReportsStart ==
  /\ edits = 0
  /\ runs = 0
  /\ step = Idle
  /\ exits = [gate \in Gates |-> FALSE]
  /\ ci = [gate \in Gates |-> Missing]
  /\ report = Missing
  /\ summary = NoSummary
  /\ published = [summary |-> NoSummary, files |-> ci]
  /\ job = NoJob

ReportsInit == ReportsStart /\ defects \in Checkouts

\* Someone changes the checkout, also while a collection runs; a job runs anew.
EditCheckout ==
  /\ edits < MaxEdits
  /\ edits' = edits + 1
  /\ defects' \in Checkouts \ {defects}
  /\ job' = NoJob
  /\ UNCHANGED <<runs, step, exits, ci, report, summary, published>>

StartCollection ==
  /\ step = Idle /\ runs < MaxRuns
  /\ runs' = runs + 1
  /\ step' = 0
  /\ exits' = [gate \in Gates |-> FALSE]
  /\ UNCHANGED <<defects, edits, reportFiles>>

\* The audit's report is copied if there is one, whoever wrote it.
Collected(gate, file) == IF gate = "audit" /\ Exists(file) THEN file.seen ELSE {}

\* Mutant of Verdict: the audit is judged by the report that was copied.
VerdictOfReport(gate, passes, file) ==
  IF gate = "audit" THEN Reads(gate, file) ELSE passes

\* The verdict of a collection is the exit status.
Verdict(gate, passes, file) == passes

\* One gate of the collection: its file is replaced if it leaves one.
CollectGate ==
  /\ step < Idle
  /\ LET gate == GateOrder[step + 1]
         new == File(runs, defects)
         leaves == Leaves(gate, defects)
         audited == IF leaves THEN new ELSE report
         file == CASE gate = "audit" -> IF Exists(audited) THEN audited ELSE ci[gate]
                   [] OTHER -> IF leaves THEN new ELSE ci[gate]
         passed == [exits EXCEPT ![gate] = Verdict(gate, Passes(gate, defects), file)]
     IN /\ report' = IF gate = "audit" THEN audited ELSE report
        /\ ci' = [ci EXCEPT ![gate] = file]
        /\ exits' = passed
        /\ summary' = IF step + 1 = Idle THEN Summary("collect", runs, passed) ELSE summary
  /\ step' = step + 1
  /\ UNCHANGED <<defects, edits, runs, published, job>>

\* The collection is interrupted: no summary is written.
StopCollection ==
  /\ step < Idle
  /\ step' = Idle
  /\ UNCHANGED <<defects, edits, runs, exits, reportFiles>>

\* build_ci_summary.py takes the audit's report if the job copied none.
WithReport(files, audited) ==
  IF Exists(files.audit) THEN files ELSE [files EXCEPT !.audit = audited]

\* Mutant of Rebuilt: the audit passes if any scenario did.
RebuiltAny(run, files) ==
  Summary("files", run, [gate \in Gates |->
    IF gate = "audit" THEN Exists(files[gate]) /\ "chain" \notin files[gate].seen
    ELSE Reads(gate, files[gate])])

Rebuilt(run, files) == Summary("files", run, [gate \in Gates |-> Reads(gate, files[gate])])

\* Run by hand, the same script judges the files of the last collections.
RebuildSummary ==
  /\ step = Idle
  /\ ci' = WithReport(ci, report)
  /\ summary' = Rebuilt(runs, ci')
  /\ UNCHANGED <<defects, edits, runs, step, exits, report, published, job>>

\* The CI job: a fresh checkout, the gates up to the first that fails, and the
\* summary in every case.
RunJob ==
  /\ step = Idle
  /\ LET failed == {i \in 1..Idle : ~Passes(GateOrder[i], defects)}
         last == IF failed = {} THEN Idle ELSE CHOOSE i \in failed : \A j \in failed : i <= j
         ran == {GateOrder[i] : i \in 1..last}
         files == [gate \in Gates |->
                     IF gate \in ran /\ Leaves(gate, defects) THEN File(1, defects) ELSE Missing]
     IN job' = [ran |-> TRUE, green |-> failed = {}, seen |-> defects,
                summary |-> Rebuilt(1, files)]
  /\ UNCHANGED <<defects, edits, runs, step, exits, ci, report, summary, published>>

\* Mutant of Row: a gate passes in the table when the summary has an entry.
RowByEntry(s, gate) == s.run > 0

\* A row of the results table reads "ok", which a collection writes for the
\* tests only ("passed" counts for the types): the other rows say FAIL.
Row(s, gate) ==
  s.passed[gate] /\ (s.source = "collect" => gate \in {"pytest", "mypy"})

\* Mutant of Copied: a file that was published before is kept.
CopiedOnce(gate) == IF Exists(published.files[gate]) THEN published.files[gate] ELSE ci[gate]

\* publish_results.py overwrites what there is a source for, and keeps the rest.
Copied(gate) ==
  LET source == IF gate = "audit" /\ ~Exists(ci[gate]) THEN report ELSE ci[gate]
  IN IF Exists(source) \/ gate = "audit" THEN source ELSE published.files[gate]

Publish ==
  /\ step = Idle /\ summary # NoSummary
  /\ published' = [summary |-> summary, files |-> [gate \in Gates |-> Copied(gate)]]
  /\ UNCHANGED <<defects, edits, runs, step, exits, ci, report, summary, job>>

ReportsNext ==
  \/ EditCheckout \/ StartCollection \/ CollectGate \/ StopCollection
  \/ RebuildSummary \/ RunJob \/ Publish

ReportsSpec == ReportsInit /\ [][ReportsNext]_reportVars

------------------------------------------------------------------------------
(***************************************************************************)
(* Properties.                                                             *)
(***************************************************************************)

\* A file bears out a verdict of collection n: it is that collection's and the
\* gate passed, or a later collection has written it since.
BearsOut(file, n, gate) ==
  file.run > n \/ (file.run = n /\ Passes(gate, file.seen))

(***************************************************************************)
(* No published PASS without its evidence: when the summary of a collection *)
(* is published, every gate it passed and every row the table passes is     *)
(* borne out by the file published with it, never by one an earlier         *)
(* collection left behind.                                                  *)
(***************************************************************************)
PublishedPassIsEvidenced ==
  published.summary.source = "collect" =>
    \A gate \in Gates :
      published.summary.passed[gate] \/ Row(published.summary, gate)
        => BearsOut(published.files[gate], published.summary.run, gate)

(***************************************************************************)
(* What the uploaded summary says of the job: all gates passed in a green   *)
(* job, and in a red one only if nothing but the audit failed, in a part    *)
(* the summary does not look at (tamper, failure modes, live, deployment).  *)
(***************************************************************************)
SummaryAgreesWithJob ==
  job.ran =>
    /\ job.green => AllPassed(job.summary)
    /\ AllPassed(job.summary) =>
         \A gate \in Gates : \/ Passes(gate, job.seen)
                             \/ gate = "audit" /\ job.seen \cap AuditBreaks \subseteq {"modes"}
==============================================================================
