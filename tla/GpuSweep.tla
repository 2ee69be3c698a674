------------------------------ MODULE GpuSweep ------------------------------
(***************************************************************************)
(* The GPU validation sweep (scripts/runpod_validation_sweep.py): a chain of *)
(* gates in one workspace, each of which may raise, that ends in a signed    *)
(* manifest. The workspace outlives a run, so a run meets the results, rows  *)
(* and manifest of the runs before it. The test harness, the mirror and the  *)
(* tools the gates call are not part of the repository: any outcome of       *)
(* theirs that the script can read is a choice.                             *)
(***************************************************************************)
EXTENDS Naturals, FiniteSets

CONSTANTS
  Samples,    \* NEURAL_SAMPLES, the rows the mirror must insert
  MaxSweeps   \* bound: runs of the sweep

ASSUME SweepAssumption == Samples \in Nat \ {0} /\ MaxSweeps \in Nat

VARIABLES
  sweep,     \* the number of the latest run
  options,   \* [quality, remove, secret]: what the run was started with
  stage,     \* the gate it is in, or Done
  results,   \* test_results.json: who wrote it and what it says
  rows,      \* rows of mirror_results in the database
  before,    \* table_count when the mirror starts
  metrics,   \* the harness metrics of the run
  manifest,  \* the master report
  status,    \* of the run: exit code 0, 1, or killed
  faults,    \* history: what went wrong outside the gates in the latest run: its
             \* "start", or a write of the report that was to say "PASS" or "FAIL"
  added,     \* history: rows the latest run inserted
  left       \* history: runs that did not remove their results

sweepVars == <<sweep, options, stage, results, rows, before, metrics, manifest,
               status, faults, added, left>>

Stages == {"prelude", "setup", "hardware", "quality", "harness", "mirror", "baseline",
           "sqlite", "sign", "handler", "sanitize"}
Done == "done"

\* test_results.json: absent, overwritten with zeros, or the metrics of a run.
NoResults == [run |-> 0, says |-> "absent"]
Readings == {"pass", "fail"}
Written(reading) == [run |-> sweep, says |-> reading]
NoManifest == [run |-> 0, says |-> "none", metrics |-> NoResults, rows |-> 0]

Goto(next) == stage' = next
Raise == Goto("handler")

------------------------------------------------------------------------------
SweepInit ==
  /\ sweep = 0
  /\ options = [quality |-> TRUE, remove |-> FALSE, secret |-> TRUE]
  /\ stage = Done
  /\ results = NoResults
  /\ rows = 0 /\ before = 0 /\ added = 0
  /\ metrics = NoResults
  /\ manifest = NoManifest
  /\ status = "none" /\ faults = {}
  /\ left = {}

StartSweep ==
  /\ stage = Done /\ sweep < MaxSweeps
  /\ sweep' = sweep + 1
  /\ options' \in [quality : BOOLEAN, remove : BOOLEAN, secret : BOOLEAN]
  /\ Goto("prelude")
  /\ status' = "running" /\ faults' = {}
  /\ added' = 0
  /\ metrics' = NoResults
  /\ UNCHANGED <<results, rows, before, manifest, left>>

\* The log file, the temporary directory and the GPU profile come before the try:
\* an exception there is not handled, and nothing is reported or removed.
Prelude ==
  /\ stage = "prelude"
  /\ \/ Goto("setup") /\ UNCHANGED <<status, faults>>
     \/ Goto(Done) /\ status' = "exit 1" /\ faults' = {"start"}
  /\ UNCHANGED <<sweep, options, results, rows, before, metrics, manifest, added, left>>

\* A gate that keeps no state: the next one, or an exception.
Gate(this, next) ==
  /\ stage = this
  /\ Goto(next) \/ Raise
  /\ UNCHANGED <<sweep, options, results, rows, before, metrics, manifest, status, faults, added,
                 left>>

\* The pod's setup script, and a CUDA device with the memory of the profile.
SetupPod == Gate("setup", "hardware")
CollectHardware == Gate("hardware", "quality")

\* Tests and types, unless they are skipped.
Quality == Gate("quality", "harness") /\ (~options.quality => stage' = "harness")

\* The peak of the GPU memory, if nvidia-smi ever answered while the command
\* ran, against the gate of the profile.
WithinMemory(peak) == peak \in {"unseen", "within"}

\* Metrics come from the results file, whoever wrote it, else from the output.
Parsed(file, output) == IF file = NoResults THEN output ELSE file

\* The accuracy and the false negatives of what was parsed.
Accepts(parsed) == parsed.says = "pass"

\* The harness may write its results or print them only, or crash.
Harness ==
  /\ stage = "harness"
  /\ \E file \in {results} \cup {Written(r) : r \in Readings},
        output \in {Written(r) : r \in Readings \cup {"unreadable"}},
        peak \in {"unseen", "within", "above"}, exit \in {0, 1} :
       LET parsed == Parsed(file, output)
           ok == exit = 0 /\ WithinMemory(peak) /\ Accepts(parsed)
       IN /\ results' = file
          /\ metrics' = IF ok THEN parsed ELSE metrics
          /\ IF ok THEN Goto("mirror") ELSE Raise
  /\ before' = rows
  /\ UNCHANGED <<sweep, options, rows, manifest, status, faults, added, left>>

\* Mutant of Inserted: the rows of every run count.
InsertedEver(count, start) == count

Inserted(count, start) == count - start

\* The mirror inserts a row at a time, and ends or crashes at any of them.
MirrorRow ==
  /\ stage = "mirror" /\ added < Samples
  /\ rows' = rows + 1
  /\ added' = added + 1
  /\ UNCHANGED <<sweep, options, stage, results, before, metrics, manifest, status, faults,
                 left>>

MirrorEnds ==
  /\ stage = "mirror"
  /\ \E peak \in {"unseen", "within", "above"}, exit \in {0, 1} :
       IF exit = 0 /\ WithinMemory(peak) /\ Inserted(rows, before) >= Samples
       THEN Goto("baseline") ELSE Raise
  /\ UNCHANGED <<sweep, options, results, rows, before, metrics, manifest, status, faults, added,
                 left>>

\* Exported if there are approved prompts; only a missing numpy or disk fails.
Baseline == Gate("baseline", "sqlite")

\* The database is intact and holds the rows of an extended run.
Integrity == Gate("sqlite", "sign") /\ (rows < Samples => stage' = "handler")

Signed(says) ==
  [run |-> sweep, says |-> says, rows |-> added,
   metrics |-> IF says = "PASS" THEN metrics ELSE NoResults]

\* A report that was opened, which empties it, and not written to its end.
Torn == [NoManifest EXCEPT !.run = sweep, !.says = "torn"]

\* write_text() raises: before it opens the report, while it writes, or at the end.
WriteFails(says) ==
  /\ manifest' \in {manifest, Torn, Signed(says)}
  /\ faults' = faults \cup {says}

\* Without the secret there is no signature, and the report is not opened.
Sign ==
  /\ stage = "sign"
  /\ \/ /\ options.secret
        /\ manifest' = Signed("PASS") /\ status' = "exit 0" /\ Goto("sanitize")
        /\ UNCHANGED faults
     \/ /\ IF options.secret THEN WriteFails("PASS") ELSE UNCHANGED <<manifest, faults>>
        /\ Raise /\ UNCHANGED status
  /\ UNCHANGED <<sweep, options, results, rows, before, metrics, added, left>>

\* Mutant of FailureManifest: the report of an earlier run is not replaced.
FailureManifestIfNone == IF options.secret /\ manifest = NoManifest THEN Signed("FAIL") ELSE manifest

FailureManifest == IF options.secret THEN Signed("FAIL") ELSE manifest

\* Any exception ends in a failure manifest, if that can be signed and written; if
\* not, that is logged.
HandleFailure ==
  /\ stage = "handler"
  /\ \/ manifest' = FailureManifest /\ UNCHANGED faults
     \/ options.secret /\ WriteFails("FAIL")
  /\ status' = "exit 1"
  /\ Goto("sanitize")
  /\ UNCHANGED <<sweep, options, results, rows, before, metrics, added, left>>

\* Mutant of Removes: only a run that passed cleans up.
RemovesAfterPass == options.remove /\ status = "exit 0"

Removes == options.remove

\* Zeros, then unlink; an error in between is logged and the file stays.
Sanitize ==
  /\ stage = "sanitize"
  /\ IF Removes /\ results # NoResults
     THEN results' \in {NoResults, results, [results EXCEPT !.says = "zeros"]}
     ELSE UNCHANGED results
  /\ left' = IF options.remove /\ (Removes => results' = NoResults) THEN left ELSE left \cup {sweep}
  /\ Goto(Done)
  /\ UNCHANGED <<sweep, options, rows, before, metrics, manifest, status, faults, added>>

\* What a run that is stopped in the middle of a step may leave in its files.
CutShort ==
  /\ results' \in {results} \cup
       CASE stage = "harness" -> {Written(r) : r \in Readings}
         [] stage = "sanitize" /\ Removes /\ results # NoResults ->
              {NoResults, [results EXCEPT !.says = "zeros"]}
         [] OTHER -> {}
  /\ manifest' \in {manifest} \cup
       CASE stage = "sign" /\ options.secret -> {Torn, Signed("PASS")}
         [] stage = "handler" /\ options.secret -> {Torn, Signed("FAIL")}
         [] OTHER -> {}

\* Ctrl-C is no Exception: it passes the handler, but not the clean-up.
Interrupt ==
  /\ stage \notin {"prelude", "sanitize", Done}
  /\ CutShort
  /\ Goto("sanitize")
  /\ status' = "killed"
  /\ UNCHANGED <<sweep, options, rows, before, metrics, faults, added, left>>

\* The pod is taken away: nothing is handled and nothing removed.
KillSweep ==
  /\ stage # Done
  /\ CutShort
  /\ Goto(Done)
  /\ status' = "killed"
  /\ left' = left \cup {sweep}
  /\ UNCHANGED <<sweep, options, rows, before, metrics, faults, added>>

SweepNext ==
  \/ StartSweep \/ Prelude \/ SetupPod \/ CollectHardware \/ Quality \/ Harness
  \/ MirrorRow \/ MirrorEnds \/ Baseline \/ Integrity \/ Sign \/ HandleFailure
  \/ Sanitize \/ Interrupt \/ KillSweep

SweepSpec == SweepInit /\ [][SweepNext]_sweepVars

------------------------------------------------------------------------------
(***************************************************************************)
(* Properties.                                                             *)
(***************************************************************************)

(***************************************************************************)
(* The master report after a run that was not stopped. An exit code of 0     *)
(* comes with this run's PASS; a PASS of this run comes with another exit     *)
(* code only if the write of the PASS failed at its end, and that of the      *)
(* failure manifest then failed too. With the secret, the report is this      *)
(* run's and whole, unless the run failed before its try or could not write   *)
(* the failure manifest; then an earlier run's PASS may still be there.      *)
(***************************************************************************)
MasterReportTellsTheLatest ==
  LET own(says) == manifest.run = sweep /\ manifest.says = says IN
  stage = Done /\ sweep > 0 /\ status # "killed" =>
    /\ status = "exit 0" => own("PASS")
    /\ own("PASS") => status = "exit 0" \/ {"PASS", "FAIL"} \subseteq faults
    /\ options.secret => own("PASS") \/ own("FAIL") \/ faults \cap {"start", "FAIL"} # {}

(***************************************************************************)
(* A PASS is its own: the run inserted all the rows of the mirror itself,    *)
(* whatever earlier runs left in the database, and its harness metrics are   *)
(* those of an earlier run only if that run left its results behind.        *)
(***************************************************************************)
PassIsItsOwn ==
  manifest.says = "PASS" =>
    /\ manifest.rows >= Samples
    /\ manifest.metrics.run \in left \cup {manifest.run}
==============================================================================
