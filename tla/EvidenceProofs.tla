---------------------------- MODULE EvidenceProofs ----------------------------
(***************************************************************************)
(* Proofs about the tools around the node: the acceptance gates, the         *)
(* published results and the GPU sweep, for every build, soak and checkout    *)
(* and any number of runs and rows.                                         *)
(***************************************************************************)
EXTENDS Acceptance, Reports, GpuSweep, TLAPS

------------------------------------------------------------------------------
(***************************************************************************)
(* The acceptance gates.                                                   *)
(***************************************************************************)

\* The radio is unavailable on every build, so G1 passes none (rf_sensor.py).
LEMMA RadioNeverAvailable == \A on : "rf_sensor" \in Required \ Available(on)
BY DEF Required, Available, RfProbe, RfFlag

\* What the probes answer depends on the parts that are not blind.
LEMMA ProbesAreBlind ==
  ASSUME NEW a, NEW b, a \ Blind = b \ Blind
  PROVE  Required \ Available(a) = Required \ Available(b)
<1>1. \A part \in {"pi", "gpio", "pyaudio", "meshtastic", "board"} : part \notin Blind
  BY DEF Blind
<1>2. \A part \in {"pi", "gpio", "pyaudio", "meshtastic", "board"} : part \in a <=> part \in b
  BY <1>1
<1>3. /\ GpioProbe(a) <=> GpioProbe(b)
      /\ AcousticProbe(a) <=> AcousticProbe(b)
      /\ MeshProbe(a) <=> MeshProbe(b)
      /\ ~RfProbe(RfFlag(a), a) /\ ~RfProbe(RfFlag(b), b)
  BY <1>2 DEF GpioProbe, AcousticProbe, MeshProbe, RfProbe, RfFlag
<1>4. \A adapter \in Required : adapter \in Available(a) <=> adapter \in Available(b)
  BY <1>3 DEF Required, Available
<1> QED BY <1>4

\* The power estimate of a sample never exceeds the target (power_metrics.py), so
\* all that can fail a soak is a throttling in the minutes that are sampled.
LEMMA PowerNeverFails ==
  ASSUME NEW soak \in Nat, soak > 0, NEW on,
         NEW awake \in {0, (2 * Frames(soak)) \div 5, Frames(soak)}
  PROVE  UnderTarget(awake, Frames(soak) - awake, on) = TRUE /\ Frames(soak) # 0
<1>1. ~RfFlag(on)
  BY DEF RfFlag, RfProbe
<1>2. FrameWatts(TRUE, on) = 275 /\ FrameWatts(FALSE, on) = 100
  BY <1>1 DEF FrameWatts, Watts
<1>3. Frames(soak) \in {30, 60}
  BY DEF Frames, SampleMinutes
<1>4. awake \in 0..Frames(soak)
  BY <1>3
<1> DEFINE asleep == Frames(soak) - awake
<1>5. awake \in Nat /\ asleep \in Nat /\ awake + asleep > 0
  BY <1>3, <1>4
<1> HIDE DEF asleep
<1>6. awake * 275 + asleep * 100 <= 500 * (awake + asleep)
  BY <1>5
<1>7. UnderTarget(awake, asleep, on)
  BY <1>2, <1>5, <1>6 DEF UnderTarget, Target
<1>8. UnderTarget(awake, asleep, on) \in BOOLEAN
  BY DEF UnderTarget
<1> QED BY <1>3, <1>7, <1>8 DEF asleep

\* What a report of G5, and of G1, is.
SoakReport(r) ==
  r.gate = "G5" /\ r.tool = "run_gate" =>
    /\ r.soak \in Nat /\ r.throttle \in Nat
    /\ r.manual = Unsampled(r.soak)
    /\ r.pass = (r.soak > 0 /\ r.throttle >= SampleMinutes(r.soak))

BuildReport(r) ==
  r.gate = "G1" => r.failures = Required \ Available(r.build) /\ r.pass = FALSE

GateInvariant == \A r \in reports : SoakReport(r) /\ BuildReport(r)

\* Every gate files a report of this kind.
LEMMA FiledReports ==
  ASSUME GateInvariant, [AcceptanceNext]_acceptanceVars
  PROVE  GateInvariant'
<1>1. ASSUME NEW r, Filed(r), SoakReport(r), BuildReport(r)
      PROVE  GateInvariant'
  BY <1>1 DEF Filed, GateInvariant
<1>2. CASE RunG1
  <2>1. MissingByHarness(build) # {} /\ MissingByHarness(build) = Required \ Available(build)
    BY RadioNeverAvailable DEF MissingByHarness
  <2> DEFINE r == Report("run_gate", "G1", FALSE, MissingByHarness(build), FALSE, 0, 0)
  <2>2. Filed(r)
    BY <1>2, <2>1 DEF RunG1
  <2>3. SoakReport(r) /\ BuildReport(r)
    BY <2>1 DEF SoakReport, BuildReport, Report
  <2> QED BY <1>1, <2>2, <2>3
<1>3. CASE RunProbe
  <2>1. MissingByProbe(build) # {} /\ MissingByProbe(build) = Required \ Available(build)
    BY RadioNeverAvailable DEF MissingByProbe
  <2> DEFINE r == Report("guard", "G1", FALSE, MissingByProbe(build), FALSE, 0, 0)
  <2>2. Filed(r)
    BY <1>3, <2>1 DEF RunProbe
  <2>3. SoakReport(r) /\ BuildReport(r)
    BY <2>1 DEF SoakReport, BuildReport, Report
  <2> QED BY <1>1, <2>2, <2>3
<1>4. CASE RunG2 \/ RunG3 \/ RunG4 \/ \E gate \in {"G2", "G3", "G4", "G5"} : RunStub(gate)
  <2>1. PICK tool \in {"run_gate", "guard"}, gate \in {"G2", "G3", "G4", "G5"} :
          \E pass : /\ Filed(Report(tool, gate, pass, {}, TRUE, 0, 0))
                    /\ tool = "run_gate" => gate # "G5"
    BY <1>4 DEF RunG2, RunG3, RunG4, RunStub
  <2>2. PICK pass : Filed(Report(tool, gate, pass, {}, TRUE, 0, 0))
    BY <2>1
  <2>3. SoakReport(Report(tool, gate, pass, {}, TRUE, 0, 0))
        /\ BuildReport(Report(tool, gate, pass, {}, TRUE, 0, 0))
    BY <2>1 DEF SoakReport, BuildReport, Report
  <2> QED BY <1>1, <2>2, <2>3
<1>5. CASE RunG5
  <2>1. PICK soak \in Soaks :
          \E throttle \in 0..soak, awake \in {0, (2 * Frames(soak)) \div 5, Frames(soak)} :
            LET hot == Frames(soak) = 0 \/ throttle < SampleMinutes(soak)
                pass == UnderTarget(awake, Frames(soak) - awake, build) /\ ~hot
            IN Filed(Report("run_gate", "G5", pass, {}, Unsampled(soak), soak, throttle))
    BY <1>5 DEF RunG5
  <2>2. soak \in Nat
    BY AcceptanceAssumption
  <2>3. PICK throttle \in 0..soak, awake \in {0, (2 * Frames(soak)) \div 5, Frames(soak)} :
          LET hot == Frames(soak) = 0 \/ throttle < SampleMinutes(soak)
              pass == UnderTarget(awake, Frames(soak) - awake, build) /\ ~hot
          IN Filed(Report("run_gate", "G5", pass, {}, Unsampled(soak), soak, throttle))
    BY <2>1
  <2> DEFINE hot == Frames(soak) = 0 \/ throttle < SampleMinutes(soak)
             pass == UnderTarget(awake, Frames(soak) - awake, build) /\ ~hot
             r == Report("run_gate", "G5", pass, {}, Unsampled(soak), soak, throttle)
  <2>4. pass = (soak > 0 /\ throttle >= SampleMinutes(soak))
    <3>1. SampleMinutes(soak) \in Nat
      BY <2>2 DEF SampleMinutes
    <3>2. CASE soak = 0
      BY <3>2 DEF Frames, SampleMinutes
    <3>3. CASE soak > 0
      <4>1. UnderTarget(awake, Frames(soak) - awake, build) = TRUE /\ Frames(soak) # 0
        BY <2>2, <3>3, PowerNeverFails
      <4> QED BY <2>2, <3>1, <3>3, <4>1
    <3> QED BY <2>2, <3>2, <3>3
  <2>5. Filed(r)
    BY <2>3
  <2> HIDE DEF pass
  <2>6. SoakReport(r) /\ BuildReport(r)
    BY <2>2, <2>4 DEF SoakReport, BuildReport, Report
  <2> HIDE DEF r
  <2> QED BY <1>1, <2>5, <2>6
<1>6. CASE Refit
  BY <1>6 DEF Refit, GateInvariant
<1>7. CASE UNCHANGED acceptanceVars
  BY <1>7 DEF acceptanceVars, GateInvariant
<1> QED BY <1>2, <1>3, <1>4, <1>5, <1>6, <1>7 DEF AcceptanceNext

(***************************************************************************)
(* UnconfirmedSoakIsWhole, for every soak and throttling.                  *)
(***************************************************************************)
THEOREM SoakIsWhole == AcceptanceSpec => []UnconfirmedSoakIsWhole
<1>1. AcceptanceInit => GateInvariant
  BY DEF AcceptanceInit, AcceptanceStart, GateInvariant
<1>2. GateInvariant => UnconfirmedSoakIsWhole
  <2> SUFFICES ASSUME GateInvariant, NEW r \in reports, r.gate = "G5", r.tool = "run_gate"
               PROVE  /\ r.pass /\ ~r.manual => r.soak > 0 /\ r.throttle >= r.soak
                      /\ r.soak > 0 /\ r.throttle >= SampleMinutes(r.soak) => r.pass
    BY DEF UnconfirmedSoakIsWhole
  <2>1. /\ r.soak \in Nat /\ r.throttle \in Nat /\ r.manual = Unsampled(r.soak)
        /\ r.pass = (r.soak > 0 /\ r.throttle >= SampleMinutes(r.soak))
    BY DEF GateInvariant, SoakReport
  <2>2. ~Unsampled(r.soak) => SampleMinutes(r.soak) = r.soak
    BY <2>1 DEF Unsampled, SampleMinutes
  <2> QED BY <2>1, <2>2
<1> QED BY <1>1, <1>2, FiledReports, PTL DEF AcceptanceSpec

(***************************************************************************)
(* ReportsTellOnlyVisibleParts, for every build: what G1 says of a node is   *)
(* the same with and without its motion sensor, tamper switch, microphone,  *)
(* radio and camera, in both implementations.                               *)
(***************************************************************************)
THEOREM ReportsAreBlind == AcceptanceSpec => []ReportsTellOnlyVisibleParts
<1>1. AcceptanceInit => GateInvariant
  BY DEF AcceptanceInit, AcceptanceStart, GateInvariant
<1>2. GateInvariant => ReportsTellOnlyVisibleParts
  <2> SUFFICES ASSUME GateInvariant, NEW r \in reports, NEW s \in reports,
                      r.gate = "G1", s.gate = "G1", r.build \ Blind = s.build \ Blind
               PROVE  r.failures = s.failures /\ r.pass = s.pass
    BY DEF ReportsTellOnlyVisibleParts
  <2>1. BuildReport(r) /\ BuildReport(s)
    BY DEF GateInvariant
  <2> QED BY <2>1, ProbesAreBlind DEF BuildReport
<1> QED BY <1>1, <1>2, FiledReports, PTL DEF AcceptanceSpec

\* What every G1 report says, of either implementation.
G1BlamesTheRadio ==
  \A r \in reports : r.gate = "G1" => ~r.pass /\ "rf_sensor" \in r.failures

(***************************************************************************)
(* No node passes G1, whatever is built or refitted, and the radio is always *)
(* among what is missing: RfSensor asks its probe before the flag that the    *)
(* probe tests is set (rf_sensor.py), and no default band is in its range.   *)
(***************************************************************************)
THEOREM NoNodePassesG1 == AcceptanceSpec => []G1BlamesTheRadio
<1>1. AcceptanceInit => GateInvariant
  BY DEF AcceptanceInit, AcceptanceStart, GateInvariant
<1>2. GateInvariant => G1BlamesTheRadio
  BY RadioNeverAvailable DEF GateInvariant, BuildReport, G1BlamesTheRadio
<1> QED BY <1>1, <1>2, FiledReports, PTL DEF AcceptanceSpec

------------------------------------------------------------------------------
(***************************************************************************)
(* The published results.                                                  *)
(***************************************************************************)

\* Every gate has one place in the order of a collection.
LEMMA GateOrderFacts ==
  /\ Idle = 5
  /\ \A i \in 1..Idle : GateOrder[i] \in Gates
  /\ \A gate \in Gates : \E i \in 1..Idle : GateOrder[i] = gate
  /\ \A i, j \in 1..Idle : GateOrder[i] = GateOrder[j] => i = j
<1>1. GateOrder = <<"pytest", "mypy", "simulation", "build", "audit">> /\ Idle = 5
  BY DEF GateOrder, Idle
<1>2. 1..5 = {1, 2, 3, 4, 5}
  OBVIOUS
<1> QED BY <1>1, <1>2 DEF Gates

\* A gate that passes has not been stopped before it left its file.
LEMMA PassingLeavesFile ==
  ASSUME NEW gate \in Gates, NEW found, Passes(gate, found)
  PROVE  Leaves(gate, found)
BY DEF Gates, Passes, Leaves, Breaks, TestsBreak, AuditBreaks, AuditCrashes

\* Collections are numbered, and a file is of one of those so far.
CollectionsNumbered ==
  /\ runs \in Nat /\ step \in 0..Idle /\ (step < Idle => runs >= 1)
  /\ DOMAIN ci = Gates /\ DOMAIN exits = Gates
  /\ \A gate \in Gates : ci[gate].run \in 0..runs
  /\ report.run \in 0..runs /\ summary.run \in 0..runs
  /\ step < Idle => summary.run < runs
  /\ summary.source = "collect" => summary.run >= 1

\* The collected audit report is the audit's own, or there is none.
AuditCopied == ci["audit"] \in {Missing, report}

\* In a collection, a gate that passed has left its file of this collection.
SoFar ==
  step < Idle =>
    \A i \in 1..Idle : exits[GateOrder[i]] =>
      /\ i <= step
      /\ ci[GateOrder[i]].run = runs /\ Passes(GateOrder[i], ci[GateOrder[i]].seen)

\* A summary of a collection is borne out by the files that are there.
SummaryBacked ==
  summary.source = "collect" =>
    \A gate \in Gates : summary.passed[gate] => BearsOut(ci[gate], summary.run, gate)

ReportsInvariant ==
  CollectionsNumbered /\ AuditCopied /\ SoFar /\ SummaryBacked /\ PublishedPassIsEvidenced

\* What one gate of a collection makes of its file and its verdict: a gate that
\* passes has a new file, another one may have an old one.
CollectedAs(gate, file) ==
  /\ gate = GateOrder[step + 1]
  /\ ci' = [ci EXCEPT ![gate] = file]
  /\ exits' = [exits EXCEPT ![gate] = Passes(gate, defects)]
  /\ Passes(gate, defects) => file.run = runs /\ file.seen = defects
  /\ file.run = runs \/ file = ci[gate] \/ (gate = "audit" /\ file = report)
  /\ report'.run \in 0..runs
  /\ gate = "audit" => file \in {Missing, report'}
  /\ gate # "audit" => report' = report

\* The step of a collection does that (collect_ci_reports.py).
LEMMA CollectedFile ==
  ASSUME ReportsInvariant, CollectGate
  PROVE  \E gate \in Gates : \E file : CollectedAs(gate, file)
<1> DEFINE gate == GateOrder[step + 1]
           new == File(runs, defects)
           leaves == Leaves(gate, defects)
           audited == IF leaves THEN new ELSE report
           file == CASE gate = "audit" -> IF Exists(audited) THEN audited ELSE ci[gate]
                     [] OTHER -> IF leaves THEN new ELSE ci[gate]
<1>1. step < Idle /\ step + 1 \in 1..Idle /\ runs \in Nat /\ runs >= 1
  BY GateOrderFacts DEF CollectGate, ReportsInvariant, CollectionsNumbered
<1>2. gate \in Gates
  BY <1>1, GateOrderFacts
<1>3. /\ report' = (IF gate = "audit" THEN audited ELSE report)
      /\ ci' = [ci EXCEPT ![gate] = file]
      /\ exits' = [exits EXCEPT ![gate] = Verdict(gate, Passes(gate, defects), file)]
  BY DEF CollectGate
<1>4. Verdict(gate, Passes(gate, defects), file) = Passes(gate, defects)
  BY DEF Verdict
<1>5. new.run = runs /\ new.seen = defects /\ Exists(new)
  BY <1>1 DEF File, Exists
<1>6. Passes(gate, defects) => leaves
  BY <1>2, PassingLeavesFile
<1> HIDE DEF gate, new, leaves
<1>7. Passes(gate, defects) => file = new
  BY <1>5, <1>6
<1>8. file = new \/ file = ci[gate] \/ (gate = "audit" /\ file = report)
  OBVIOUS
<1>9. report.run \in 0..runs /\ ci["audit"] \in {Missing, report}
  BY DEF ReportsInvariant, CollectionsNumbered, AuditCopied
<1>10. report'.run \in 0..runs
  BY <1>1, <1>3, <1>5, <1>9
<1>11. gate = "audit" => file \in {Missing, report'}
  <2> SUFFICES ASSUME gate = "audit" PROVE file \in {Missing, audited}
    BY <1>3
  <2>1. CASE Exists(audited)
    BY <2>1
  <2>2. CASE ~Exists(audited)
    <3>1. file = ci["audit"] /\ audited = report
      BY <1>5, <2>2
    <3> QED BY <1>9, <3>1
  <2> QED BY <2>1, <2>2
<1>12. gate # "audit" => report' = report
  BY <1>3
<1> HIDE DEF file, audited
<1>13. /\ ci' = [ci EXCEPT ![gate] = file]
       /\ exits' = [exits EXCEPT ![gate] = Passes(gate, defects)]
  BY <1>3, <1>4
<1>14. Passes(gate, defects) => file.run = runs /\ file.seen = defects
  BY <1>5, <1>7
<1>15. file.run = runs \/ file = ci[gate] \/ (gate = "audit" /\ file = report)
  BY <1>5, <1>8
<1>16. gate = GateOrder[step + 1]
  BY DEF gate
<1> QED BY <1>2, <1>10, <1>11, <1>12, <1>13, <1>14, <1>15, <1>16 DEF CollectedAs

\* A gate of a collection keeps the files and the verdicts in step, and the last
\* one turns them into a summary.
LEMMA CollectStep == ASSUME ReportsInvariant, CollectGate PROVE ReportsInvariant'
<1> USE DEF ReportsInvariant
<1>0. PICK gate \in Gates : \E file : CollectedAs(gate, file)
  BY CollectedFile
<1>a. PICK file : CollectedAs(gate, file)
  BY <1>0
<1>1. /\ gate = GateOrder[step + 1]
      /\ ci' = [ci EXCEPT ![gate] = file]
      /\ exits' = [exits EXCEPT ![gate] = Passes(gate, defects)]
      /\ Passes(gate, defects) => file.run = runs /\ file.seen = defects
      /\ file.run = runs \/ file = ci[gate] \/ (gate = "audit" /\ file = report)
      /\ report'.run \in 0..runs
      /\ gate = "audit" => file \in {Missing, report'}
      /\ gate # "audit" => report' = report
  BY <1>a DEF CollectedAs
<1>2. /\ step < Idle /\ step' = step + 1 /\ step + 1 \in 1..Idle /\ step \in Nat
      /\ runs' = runs /\ runs \in Nat /\ runs >= 1 /\ published' = published
      /\ summary' = (IF step + 1 = Idle THEN Summary("collect", runs, exits') ELSE summary)
      /\ summary.run < runs
  BY GateOrderFacts DEF CollectGate, CollectionsNumbered
<1>3. /\ DOMAIN ci' = Gates /\ DOMAIN exits' = Gates
      /\ ci'[gate] = file /\ exits'[gate] = Passes(gate, defects)
      /\ \A other \in Gates \ {gate} : ci'[other] = ci[other] /\ exits'[other] = exits[other]
  BY <1>1 DEF CollectionsNumbered
<1>4. file.run \in 0..runs
  BY <1>1, <1>2 DEF CollectionsNumbered
<1>5. \A i \in 1..Idle : exits'[GateOrder[i]] =>
        /\ i <= step + 1
        /\ ci'[GateOrder[i]].run = runs /\ Passes(GateOrder[i], ci'[GateOrder[i]].seen)
  <2> SUFFICES ASSUME NEW i \in 1..Idle, exits'[GateOrder[i]]
               PROVE  /\ i <= step + 1
                      /\ ci'[GateOrder[i]].run = runs
                      /\ Passes(GateOrder[i], ci'[GateOrder[i]].seen)
    OBVIOUS
  <2>1. CASE i = step + 1
    <3>1. GateOrder[i] = gate /\ Passes(gate, defects)
      BY <1>1, <1>3, <2>1
    <3>2. ci'[gate].run = runs /\ ci'[gate].seen = defects
      BY <1>1, <1>3, <3>1
    <3> QED BY <1>2, <2>1, <3>1, <3>2
  <2>2. CASE i # step + 1
    <3>1. GateOrder[i] \in Gates \ {gate}
      BY <1>1, <1>2, <2>2, GateOrderFacts
    <3>2. exits[GateOrder[i]] /\ ci'[GateOrder[i]] = ci[GateOrder[i]]
      BY <1>3, <3>1
    <3>3. i <= step /\ ci[GateOrder[i]].run = runs
          /\ Passes(GateOrder[i], ci[GateOrder[i]].seen)
      BY <1>2, <3>2 DEF SoFar
    <3> QED BY <1>2, <3>2, <3>3, GateOrderFacts
  <2> QED BY <2>1, <2>2
<1>6. CollectionsNumbered'
  <2>1. \A g \in Gates : ci'[g].run \in 0..runs
    BY <1>3, <1>4 DEF CollectionsNumbered
  <2>2. step' \in 0..Idle
    BY <1>2, GateOrderFacts
  <2>3. /\ summary'.run \in 0..runs
        /\ step' < Idle => summary'.run < runs
        /\ summary'.source = "collect" => summary'.run >= 1
    <3>1. CASE step + 1 = Idle
      <4>1. summary'.run = runs
        BY <1>2, <3>1 DEF Summary
      <4> QED BY <1>2, <3>1, <4>1, GateOrderFacts
    <3>2. CASE step + 1 # Idle
      BY <1>2, <3>2 DEF CollectionsNumbered
    <3> QED BY <3>1, <3>2
  <2> QED BY <1>1, <1>2, <1>3, <2>1, <2>2, <2>3 DEF CollectionsNumbered
<1>7. AuditCopied'
  <2>1. CASE gate = "audit"
    BY <1>1, <1>3, <2>1 DEF AuditCopied
  <2>2. CASE gate # "audit"
    <3>1. "audit" \in Gates \ {gate}
      BY <2>2 DEF Gates
    <3> QED BY <1>1, <1>3, <2>2, <3>1 DEF AuditCopied
  <2> QED BY <2>1, <2>2
<1>8. SoFar'
  BY <1>2, <1>5 DEF SoFar
<1>9. SummaryBacked'
  <2>1. CASE step + 1 = Idle
    <3> SUFFICES ASSUME NEW g \in Gates, summary'.passed[g]
                 PROVE  BearsOut(ci'[g], summary'.run, g)
      BY DEF SummaryBacked
    <3>1. summary'.passed[g] = exits'[g] /\ summary'.run = runs
      BY <1>2, <2>1 DEF Summary
    <3>2. PICK i \in 1..Idle : GateOrder[i] = g
      BY GateOrderFacts
    <3>3. ci'[g].run = runs /\ Passes(g, ci'[g].seen)
      BY <1>5, <3>1, <3>2
    <3> QED BY <3>1, <3>3 DEF BearsOut
  <2>2. CASE step + 1 # Idle
    <3>1. summary' = summary
      BY <1>2, <2>2
    <3> SUFFICES ASSUME summary.source = "collect", NEW g \in Gates, summary.passed[g]
                 PROVE  BearsOut(ci'[g], summary.run, g)
      BY <3>1 DEF SummaryBacked
    <3>2. BearsOut(ci[g], summary.run, g) /\ summary.run >= 1
      BY DEF SummaryBacked, CollectionsNumbered
    <3>3. CASE g # gate
      BY <1>3, <3>2, <3>3
    <3>4. CASE g = gate /\ file.run = runs
      BY <1>2, <1>3, <3>4 DEF BearsOut
    <3>5. CASE g = gate /\ file = ci[gate]
      BY <1>3, <3>2, <3>5
    <3>6. CASE g = gate /\ gate = "audit" /\ file = report
      <4>1. ci["audit"] # Missing
        BY <1>2, <3>2, <3>6 DEF BearsOut, Missing, CollectionsNumbered
      <4>2. ci["audit"] = report
        BY <4>1 DEF AuditCopied
      <4> QED BY <1>3, <3>2, <3>6, <4>2
    <3> QED BY <1>1, <3>3, <3>4, <3>5, <3>6
  <2> QED BY <2>1, <2>2
<1>10. PublishedPassIsEvidenced'
  BY <1>2 DEF PublishedPassIsEvidenced
<1> QED BY <1>6, <1>7, <1>8, <1>9, <1>10

\* Publishing takes along the file of every gate the summary passes.
LEMMA PublishStep == ASSUME ReportsInvariant, Publish PROVE ReportsInvariant'
<1> USE DEF ReportsInvariant
<1>1. /\ UNCHANGED <<runs, step, exits, ci, report, summary>>
      /\ published' = [summary |-> summary, files |-> [gate \in Gates |-> Copied(gate)]]
  BY DEF Publish
<1>2. CollectionsNumbered' /\ AuditCopied'
  BY <1>1 DEF CollectionsNumbered, AuditCopied
<1>3. SoFar' /\ SummaryBacked'
  BY <1>1 DEF SoFar, SummaryBacked
<1>4. PublishedPassIsEvidenced'
  <2> SUFFICES ASSUME summary.source = "collect", NEW gate \in Gates,
                      summary.passed[gate] \/ Row(summary, gate)
               PROVE  BearsOut(Copied(gate), summary.run, gate)
    BY <1>1 DEF PublishedPassIsEvidenced
  <2>1. summary.passed[gate]
    BY DEF Row
  <2>2. BearsOut(ci[gate], summary.run, gate) /\ summary.run >= 1
        /\ ci[gate].run \in Nat /\ summary.run \in Nat
    BY <2>1 DEF SummaryBacked, CollectionsNumbered
  <2>3. Exists(ci[gate])
    BY <2>2 DEF BearsOut, Exists
  <2>4. Copied(gate) = ci[gate]
    BY <2>3 DEF Copied
  <2> QED BY <2>2, <2>4
<1> QED BY <1>2, <1>3, <1>4

LEMMA ReportsStep == ASSUME ReportsInvariant, [ReportsNext]_reportVars PROVE ReportsInvariant'
<1> USE DEF ReportsInvariant
<1>1. CASE CollectGate
  BY <1>1, CollectStep
<1>2. CASE Publish
  BY <1>2, PublishStep
<1>3. CASE EditCheckout \/ RunJob \/ UNCHANGED reportVars
  <2>1. UNCHANGED <<runs, step, exits, ci, report, summary, published>>
    BY <1>3 DEF EditCheckout, RunJob, reportVars, reportFiles
  <2> QED BY <2>1 DEF CollectionsNumbered, AuditCopied, SoFar, SummaryBacked,
                      PublishedPassIsEvidenced
<1>4. CASE StartCollection
  <2>1. /\ runs' = runs + 1 /\ step' = 0 /\ exits' = [gate \in Gates |-> FALSE]
        /\ UNCHANGED <<ci, report, summary, published>>
    BY <1>4 DEF StartCollection, reportFiles
  <2>2. CollectionsNumbered'
    BY <2>1, GateOrderFacts DEF CollectionsNumbered
  <2>3. \A i \in 1..Idle : exits'[GateOrder[i]] = FALSE
    BY <2>1, GateOrderFacts
  <2> QED BY <2>1, <2>2, <2>3 DEF AuditCopied, SoFar, SummaryBacked, PublishedPassIsEvidenced
<1>5. CASE StopCollection
  <2>1. step' = Idle /\ UNCHANGED <<runs, exits, ci, report, summary, published>>
    BY <1>5 DEF StopCollection, reportFiles
  <2> QED BY <2>1, GateOrderFacts DEF CollectionsNumbered, AuditCopied, SoFar, SummaryBacked,
                                      PublishedPassIsEvidenced
<1>6. CASE RebuildSummary
  <2>1. /\ step = Idle /\ ci' = WithReport(ci, report) /\ summary' = Rebuilt(runs, ci')
        /\ UNCHANGED <<runs, step, exits, report, published>>
    BY <1>6 DEF RebuildSummary
  <2>2. summary'.source = "files" /\ summary'.run = runs
    BY <2>1 DEF Rebuilt, Summary
  <2>3. ci' = ci \/ ci' = [ci EXCEPT !.audit = report]
    BY <2>1 DEF WithReport
  <2>4. "audit" \in Gates
    BY DEF Gates
  <2>5. CollectionsNumbered'
    BY <2>1, <2>2, <2>3, GateOrderFacts DEF CollectionsNumbered
  <2>6. AuditCopied'
    BY <2>1, <2>3, <2>4 DEF AuditCopied, CollectionsNumbered
  <2> QED BY <2>1, <2>2, <2>5, <2>6, GateOrderFacts DEF SoFar, SummaryBacked,
                                                       PublishedPassIsEvidenced
<1> QED BY <1>1, <1>2, <1>3, <1>4, <1>5, <1>6 DEF ReportsNext

(***************************************************************************)
(* PublishedPassIsEvidenced, for any checkouts, edits and number of          *)
(* collections, complete, interrupted or crashed: a collected PASS is        *)
(* published with a file that bears it out.                                 *)
(***************************************************************************)
THEOREM PublishedIsEvidenced == ReportsSpec => []PublishedPassIsEvidenced
<1>1. ReportsInit => ReportsInvariant
  <2> SUFFICES ASSUME ReportsInit PROVE ReportsInvariant
    OBVIOUS
  <2>1. "audit" \in Gates /\ 0 \in 0..Idle /\ Idle \in 0..Idle
    BY GateOrderFacts DEF Gates
  <2> QED BY <2>1, GateOrderFacts
          DEF ReportsInit, ReportsStart, ReportsInvariant, CollectionsNumbered, AuditCopied, SoFar,
              SummaryBacked, PublishedPassIsEvidenced, NoSummary, Summary, Missing
<1>2. ReportsInvariant => PublishedPassIsEvidenced
  BY DEF ReportsInvariant
<1> QED BY <1>1, <1>2, ReportsStep, PTL DEF ReportsSpec

\* A job stops at the first gate that fails: there is one if any fails.
LEMMA FirstFailure ==
  ASSUME NEW failed \in SUBSET (1..Idle), failed # {}
  PROVE  \E i \in failed : \A j \in failed : i <= j
<1>1. failed \subseteq {1, 2, 3, 4, 5}
  BY GateOrderFacts
<1>2. CASE 1 \in failed
  BY <1>1, <1>2
<1>3. CASE 1 \notin failed /\ 2 \in failed
  BY <1>1, <1>3
<1>4. CASE 1 \notin failed /\ 2 \notin failed /\ 3 \in failed
  BY <1>1, <1>4
<1>5. CASE failed \subseteq {4, 5}
  <2>1. CASE 4 \in failed
    BY <1>5, <2>1
  <2>2. CASE failed = {5}
    BY <2>2
  <2> QED BY <1>5, <2>1, <2>2
<1> QED BY <1>1, <1>2, <1>3, <1>4, <1>5

\* The summary looks at no defect that does not break the gate, and of the
\* audit it looks at all but a part and what ends it early.
LEMMA ShownBreaks ==
  ASSUME NEW gate \in Gates, NEW found
  PROVE  /\ Passes(gate, found) => found \cap Shown[gate] = {}
         /\ gate = "audit" /\ found \cap Shown[gate] = {} /\ Leaves(gate, found)
              => found \cap AuditBreaks \subseteq {"modes"}
<1>1. Shown[gate] \subseteq Breaks[gate]
  BY DEF Gates, Shown, Breaks, TestsBreak, SmokeBreaks, BuildBreaks, AuditBreaks, ScenarioBreaks
<1>2. ASSUME gate = "audit" PROVE Shown[gate] = ScenarioBreaks
  BY <1>2 DEF Shown
<1>3. ASSUME gate = "audit", Leaves(gate, found) PROVE found \cap AuditCrashes = {}
  BY <1>3 DEF Leaves
<1> QED BY <1>1, <1>2, <1>3 DEF Passes, AuditBreaks

\* The job and its summary agree whatever the checkout is (ci.yml, with
\* build_ci_summary.py run in every case).
LEMMA JobStep == ASSUME RunJob PROVE SummaryAgreesWithJob'
<1> DEFINE failed == {i \in 1..Idle : ~Passes(GateOrder[i], defects)}
           last == IF failed = {} THEN Idle
                   ELSE CHOOSE i \in failed : \A j \in failed : i <= j
           ran == {GateOrder[i] : i \in 1..last}
           files == [gate \in Gates |->
                       IF gate \in ran /\ Leaves(gate, defects) THEN File(1, defects) ELSE Missing]
<1>1. job' = [ran |-> TRUE, green |-> failed = {}, seen |-> defects, summary |-> Rebuilt(1, files)]
  BY DEF RunJob
<1>2. last \in 1..Idle /\ \A j \in failed : last <= j
  <2>1. CASE failed = {}
    BY <2>1, GateOrderFacts
  <2>2. CASE failed # {}
    <3>1. \E i \in failed : \A j \in failed : i <= j
      BY <2>2, FirstFailure
    <3> QED BY <2>2, <3>1
  <2> QED BY <2>1, <2>2
<1>3. failed = {} => last = Idle
  OBVIOUS
<1>4. \A i \in 1..Idle : i \notin failed => Passes(GateOrder[i], defects)
  OBVIOUS
<1> HIDE DEF last, failed
<1>5. \A gate \in Gates :
        job'.summary.passed[gate] <=>
          gate \in ran /\ Leaves(gate, defects) /\ defects \cap Shown[gate] = {}
  <2> SUFFICES ASSUME NEW gate \in Gates
               PROVE  job'.summary.passed[gate] <=>
                        gate \in ran /\ Leaves(gate, defects) /\ defects \cap Shown[gate] = {}
    OBVIOUS
  <2>1. job'.summary.passed[gate] = Reads(gate, files[gate])
    BY <1>1 DEF Rebuilt, Summary
  <2>2. CASE gate \in ran /\ Leaves(gate, defects)
    <3>1. files[gate] = File(1, defects)
      BY <2>2
    <3>2. Reads(gate, files[gate]) <=> defects \cap Shown[gate] = {}
      BY <3>1 DEF Reads, Exists, File
    <3> HIDE DEF files, ran
    <3> QED BY <2>1, <2>2, <3>2, Zenon
  <2>3. CASE ~(gate \in ran /\ Leaves(gate, defects))
    <3>1. files[gate] = Missing
      BY <2>3
    <3>2. ~Reads(gate, files[gate])
      BY <3>1 DEF Reads, Exists, Missing
    <3> HIDE DEF files, ran
    <3> QED BY <2>1, <2>3, <3>2, Zenon
  <2> QED BY <2>2, <2>3
<1>6. ASSUME failed = {} PROVE AllPassed(job'.summary)
  <2> SUFFICES ASSUME NEW gate \in Gates PROVE job'.summary.passed[gate]
    BY DEF AllPassed
  <2>1. PICK i \in 1..Idle : GateOrder[i] = gate
    BY GateOrderFacts
  <2>2. gate \in ran /\ Passes(gate, defects)
    BY <1>3, <1>4, <1>6, <2>1
  <2> QED BY <1>5, <2>2, PassingLeavesFile, ShownBreaks
<1>7. ASSUME AllPassed(job'.summary), NEW gate \in Gates, ~Passes(gate, defects)
      PROVE  gate = "audit" /\ defects \cap AuditBreaks \subseteq {"modes"}
  <2>1. PICK i \in 1..Idle : GateOrder[i] = gate
    BY GateOrderFacts
  <2>2. i \in failed
    BY <1>4, <1>7, <2>1
  <2>3. GateOrder[5] = "audit" /\ "audit" \in Gates /\ Idle = 5
    BY GateOrderFacts DEF GateOrder, Gates
  <2>4. "audit" \in ran /\ Leaves("audit", defects) /\ defects \cap Shown["audit"] = {}
    BY <1>5, <1>7, <2>3 DEF AllPassed
  <2>5. PICK k \in 1..last : GateOrder[k] = "audit"
    BY <2>4
  <2>6. k = 5
    BY <1>2, <2>3, <2>5, GateOrderFacts
  <2>7. i = 5
    BY <1>2, <2>1, <2>2, <2>3, <2>5, <2>6
  <2> QED BY <2>1, <2>3, <2>4, <2>7, ShownBreaks
<1>8. job'.green = (failed = {}) /\ job'.seen = defects
  BY <1>1
<1> QED BY <1>6, <1>7, <1>8 DEF SummaryAgreesWithJob

(***************************************************************************)
(* SummaryAgreesWithJob, for any checkouts and edits: a green CI job uploads *)
(* a summary that passes every gate, and a red one uploads such a summary    *)
(* only when the audit alone failed, in a part the summary does not read.   *)
(***************************************************************************)
THEOREM JobIsSummed == ReportsSpec => []SummaryAgreesWithJob
<1>1. ReportsInit => SummaryAgreesWithJob
  BY DEF ReportsInit, ReportsStart, SummaryAgreesWithJob, NoJob
<1>2. SummaryAgreesWithJob /\ [ReportsNext]_reportVars => SummaryAgreesWithJob'
  <2> SUFFICES ASSUME SummaryAgreesWithJob, [ReportsNext]_reportVars
               PROVE  SummaryAgreesWithJob'
    OBVIOUS
  <2>1. CASE RunJob
    BY <2>1, JobStep
  <2>2. CASE EditCheckout
    BY <2>2 DEF EditCheckout, NoJob, SummaryAgreesWithJob
  <2>3. CASE \/ StartCollection \/ CollectGate \/ StopCollection
             \/ RebuildSummary \/ Publish \/ UNCHANGED reportVars
    <3>1. job' = job
      BY <2>3 DEF StartCollection, CollectGate, StopCollection, RebuildSummary, Publish,
                  reportVars, reportFiles
    <3> QED BY <3>1 DEF SummaryAgreesWithJob
  <2> QED BY <2>1, <2>2, <2>3 DEF ReportsNext
<1> QED BY <1>1, <1>2, PTL DEF ReportsSpec

------------------------------------------------------------------------------
(***************************************************************************)
(* The GPU validation sweep: what the signed manifest and the exit code of   *)
(* a run say.                                                              *)
(***************************************************************************)

\* The stages before anything is signed, and those after the harness.
Open == Stages \ {"sanitize"}
BeforeMirror == {"prelude", "setup", "hardware", "quality", "harness"}
AfterHarness == {"mirror", "baseline", "sqlite", "sign"}
AfterMirror == {"baseline", "sqlite", "sign"}

\* Runs are numbered and a manifest is the present run's or an earlier one's.
RunsNumbered ==
  /\ sweep \in Nat /\ manifest.run \in Nat /\ manifest.run <= sweep
  /\ rows \in Nat /\ before \in Nat /\ added \in Nat
  /\ options.secret \in BOOLEAN
  /\ stage \in Stages \cup {Done}

\* The report is this run's own and says this.
Own(says) == manifest.run = sweep /\ manifest.says = says

\* What the manifest and the status say while a run is under way and after it. The
\* handler may meet a report of its own run, if a write of the PASS has failed.
SignedByRun ==
  /\ stage \in Open => status = "running" /\ (Own("PASS") => "PASS" \in faults /\ options.secret)
  /\ stage \in Open \ {"handler"} => manifest.run < sweep /\ faults = {}
  /\ stage \in {"sanitize", Done} /\ sweep > 0 /\ status # "killed" =>
       /\ status = "exit 0" => Own("PASS")
       /\ Own("PASS") => status = "exit 0" \/ {"PASS", "FAIL"} \subseteq faults
       /\ options.secret => Own("PASS") \/ Own("FAIL") \/ faults \cap {"start", "FAIL"} # {}

\* Results in the workspace are the present run's or were left there by theirs.
ResultsOwned ==
  /\ "run" \in DOMAIN results
  /\ results # NoResults =>
       results.run \in left \/ (stage \notin {Done, "prelude"} /\ results.run = sweep)

\* What a run has got so far is its own or comes from results that were left.
GatesOwned ==
  /\ stage \in BeforeMirror => added = 0
  /\ stage \in AfterHarness =>
       rows = before + added /\ metrics.run \in left \cup {sweep}
  /\ stage \in AfterMirror => added >= Samples

SweepInvariant ==
  RunsNumbered /\ SignedByRun /\ ResultsOwned /\ GatesOwned /\ PassIsItsOwn

------------------------------------------------------------------------------
\* What each set of stages leaves out.
LEMMA StageFacts ==
  /\ Open = BeforeMirror \cup {"mirror", "baseline", "sqlite", "sign", "handler"}
  /\ Done \notin Open \cup BeforeMirror \cup AfterHarness \cup AfterMirror
  /\ "sanitize" \notin Open \cup BeforeMirror \cup AfterHarness \cup AfterMirror
  /\ "handler" \notin BeforeMirror \cup AfterHarness \cup AfterMirror
  /\ BeforeMirror \cap AfterHarness = {} /\ AfterMirror \subseteq AfterHarness
  /\ "prelude" \in BeforeMirror /\ "setup" \in BeforeMirror /\ Done # "prelude"
  /\ "sanitize" # Done /\ "sanitize" \in Stages /\ Open \subseteq Stages
BY DEF Open, Stages, BeforeMirror, AfterHarness, AfterMirror, Done

\* A new run starts with a number of its own.
LEMMA StartStep == ASSUME SweepInvariant, StartSweep PROVE SweepInvariant'
<1> USE DEF SweepInvariant
<1>1. /\ stage = Done /\ stage' = "prelude" /\ sweep' = sweep + 1 /\ status' = "running"
      /\ options'.secret \in BOOLEAN /\ added' = 0 /\ results' = results /\ rows' = rows
      /\ before' = before /\ manifest' = manifest /\ left' = left /\ faults' = {}
  BY DEF StartSweep, Goto
<1>2. /\ "prelude" \in Open /\ "prelude" \notin AfterHarness \cup AfterMirror
      /\ "prelude" \notin {"sanitize", Done} /\ "prelude" \in Stages
  BY DEF Open, Stages, AfterHarness, AfterMirror, Done
<1>3. RunsNumbered'
  BY <1>1, <1>2 DEF RunsNumbered
<1>4. SignedByRun'
  <2>1. manifest'.run < sweep' /\ ~Own("PASS")'
    BY <1>1 DEF RunsNumbered, Own
  <2>2. stage' \notin {"sanitize", Done}
    BY <1>1, <1>2
  <2> QED BY <1>1, <2>1, <2>2 DEF SignedByRun
<1>5. ResultsOwned' /\ GatesOwned'
  BY <1>1, <1>2 DEF ResultsOwned, GatesOwned
<1>6. PassIsItsOwn'
  BY <1>1 DEF PassIsItsOwn
<1> QED BY <1>3, <1>4, <1>5, <1>6

\* The lines before the try: on to the gates, or the end of the run.
LEMMA PreludeStep == ASSUME SweepInvariant, Prelude PROVE SweepInvariant'
<1> USE DEF SweepInvariant
<1>1. /\ stage = "prelude" /\ stage \in Open \ {"handler"}
      /\ UNCHANGED <<sweep, options, results, rows, before, metrics, manifest, added, left>>
  BY StageFacts DEF Prelude
<1>2. \/ stage' = "setup" /\ UNCHANGED <<status, faults>>
      \/ stage' = Done /\ status' = "exit 1" /\ faults' = {"start"}
  BY DEF Prelude, Goto
<1>3. /\ manifest.run < sweep /\ faults = {} /\ status = "running"
      /\ results # NoResults => results.run \in left
  BY <1>1 DEF SignedByRun, ResultsOwned
<1>4. ~Own("PASS")'
  BY <1>1, <1>3 DEF Own, RunsNumbered
<1>5. RunsNumbered'
  BY <1>1, <1>2, StageFacts DEF RunsNumbered
<1>6. SignedByRun'
  <2>1. CASE stage' = "setup"
    <3>1. stage' \in Open \ {"handler"} /\ stage' \notin {"sanitize", Done}
      BY <2>1, StageFacts
    <3>2. status' = "running" /\ faults' = {}
      BY <1>2, <1>3, <2>1, StageFacts
    <3> QED BY <1>1, <1>3, <1>4, <3>1, <3>2 DEF SignedByRun
  <2>2. CASE stage' = Done
    <3>1. stage' \notin Open /\ status' = "exit 1" /\ "start" \in faults'
      BY <1>2, <2>2, StageFacts
    <3> QED BY <1>4, <3>1 DEF SignedByRun
  <2> QED BY <1>2, <2>1, <2>2
<1>7. ResultsOwned'
  BY <1>1, <1>3 DEF ResultsOwned
<1>8. GatesOwned' /\ PassIsItsOwn'
  BY <1>1, <1>2, StageFacts DEF GatesOwned, PassIsItsOwn
<1> QED BY <1>5, <1>6, <1>7, <1>8

\* A step from one stage before the report to the next or to the handler, which
\* leaves report, results and rows alone and is not the end of harness or mirror.
LEMMA OpenStep ==
  ASSUME SweepInvariant, stage \in Open \ {"handler"}, stage' \in Open, stage' # "prelude",
         UNCHANGED <<sweep, options, results, rows, before, metrics, manifest, status, faults, added, left>>,
         stage' \in BeforeMirror => stage \in BeforeMirror,
         stage' \in AfterHarness => stage \in AfterHarness,
         stage' \in AfterMirror => stage \in AfterMirror \/ added >= Samples
  PROVE  SweepInvariant'
<1> USE DEF SweepInvariant
<1>1. stage' \notin {"sanitize", Done} /\ stage # Done /\ stage' \in Stages
  BY StageFacts
<1>2. RunsNumbered' /\ SignedByRun'
  BY <1>1 DEF RunsNumbered, SignedByRun, Own
<1>3. ResultsOwned' /\ GatesOwned' /\ PassIsItsOwn'
  BY <1>1 DEF ResultsOwned, GatesOwned, PassIsItsOwn
<1> QED BY <1>2, <1>3

\* The gates without state (bootstrap, hardware, quality, baseline, integrity).
LEMMA GateStep ==
  ASSUME SweepInvariant,
         SetupPod \/ CollectHardware \/ Quality \/ Baseline \/ Integrity
  PROVE  SweepInvariant'
<1>1. /\ stage \in Open \ {"handler"} /\ stage' \in Open /\ stage' # "prelude"
      /\ UNCHANGED <<sweep, options, results, rows, before, metrics, manifest, status, faults, added, left>>
  BY DEF SetupPod, CollectHardware, Quality, Baseline, Integrity, Gate, Goto, Raise, Open, Stages
<1>2. /\ stage' \in BeforeMirror => stage \in BeforeMirror
      /\ stage' \in AfterHarness => stage \in AfterHarness
      /\ stage' \in AfterMirror => stage \in AfterMirror
  BY DEF SetupPod, CollectHardware, Quality, Baseline, Integrity, Gate, Goto, Raise,
         BeforeMirror, AfterHarness, AfterMirror
<1> QED BY <1>1, <1>2, OpenStep

\* The harness: metrics that are accepted are this run's or were left behind.
LEMMA HarnessStep == ASSUME SweepInvariant, Harness PROVE SweepInvariant'
<1> USE DEF SweepInvariant
<1>1. stage = "harness" /\ added = 0
  BY DEF Harness, GatesOwned, BeforeMirror
<1>2. /\ before' = rows
      /\ UNCHANGED <<sweep, options, rows, manifest, status, faults, added, left>>
  BY DEF Harness
<1>3. PICK file \in {results} \cup {Written(r) : r \in Readings},
           output \in {Written(r) : r \in Readings \cup {"unreadable"}} :
        /\ results' = file
        /\ \/ stage' = "mirror" /\ metrics' = Parsed(file, output)
           \/ stage' = "handler" /\ metrics' = metrics
  BY DEF Harness, Goto, Raise
<1>4. output.run = sweep /\ (file = results \/ file.run = sweep)
  BY DEF Written
<1>5. results' # NoResults => results'.run \in left \/ results'.run = sweep
  BY <1>1, <1>3, <1>4 DEF ResultsOwned, Done
<1>6. Parsed(file, output).run \in left \cup {sweep}
  BY <1>3, <1>4, <1>5 DEF Parsed
<1>7. /\ stage' \in Open /\ stage' \notin {"sanitize", "prelude", Done} \cup AfterMirror
      /\ stage' \in AfterHarness => stage' = "mirror"
      /\ stage \in Open \ {"handler"} /\ stage' \notin BeforeMirror /\ stage' \in Stages
  BY <1>1, <1>3 DEF Open, Stages, Done, BeforeMirror, AfterMirror, AfterHarness
<1>8. RunsNumbered' /\ SignedByRun'
  BY <1>2, <1>7 DEF RunsNumbered, SignedByRun, Own
<1>9. ResultsOwned'
  <2>1. "run" \in DOMAIN results'
    BY <1>3 DEF ResultsOwned, Written
  <2> QED BY <1>2, <1>5, <1>7, <2>1 DEF ResultsOwned
<1>10. GatesOwned'
  BY <1>1, <1>2, <1>3, <1>6, <1>7 DEF GatesOwned, RunsNumbered
<1>11. PassIsItsOwn'
  BY <1>2 DEF PassIsItsOwn
<1> QED BY <1>8, <1>9, <1>10, <1>11

\* The mirror: every row counts once, and it ends well only with all of them.
LEMMA MirrorStep == ASSUME SweepInvariant, MirrorRow \/ MirrorEnds PROVE SweepInvariant'
<1> USE DEF SweepInvariant
<1>1. stage = "mirror" /\ stage \in Open \ {"handler"} /\ rows = before + added
  BY DEF MirrorRow, MirrorEnds, GatesOwned, AfterHarness, Open, Stages
<1>2. CASE MirrorRow
  <2>1. /\ rows' = rows + 1 /\ added' = added + 1
        /\ UNCHANGED <<sweep, options, stage, results, before, metrics, manifest, status, faults, left>>
    BY <1>2 DEF MirrorRow
  <2>2. RunsNumbered'
    BY <2>1 DEF RunsNumbered
  <2>3. SignedByRun'
    BY <2>1 DEF SignedByRun, Own
  <2>4. GatesOwned'
    BY <1>1, <2>1 DEF GatesOwned, RunsNumbered, BeforeMirror, AfterMirror
  <2>5. ResultsOwned' /\ PassIsItsOwn'
    BY <2>1 DEF ResultsOwned, PassIsItsOwn
  <2> QED BY <2>2, <2>3, <2>4, <2>5
<1>3. CASE MirrorEnds
  <2>1. UNCHANGED <<sweep, options, results, rows, before, metrics, manifest, status, faults, added, left>>
    BY <1>3 DEF MirrorEnds
  <2>2. \/ stage' = "baseline" /\ Inserted(rows, before) >= Samples
        \/ stage' = "handler"
    BY <1>3 DEF MirrorEnds, Goto, Raise
  <2>3. Inserted(rows, before) = added
    BY <1>1 DEF Inserted, RunsNumbered
  <2>4. /\ stage' \in Open /\ (stage' \in AfterMirror => added >= Samples)
        /\ stage \in AfterHarness
        /\ stage' \notin BeforeMirror /\ stage' # "prelude"
    BY <1>1, <2>2, <2>3 DEF Open, Stages, BeforeMirror, AfterMirror, AfterHarness
  <2> QED BY <1>1, <2>1, <2>4, OpenStep
<1> QED BY <1>2, <1>3

\* The report of a run that passed is about rows and metrics that are its own.
LEMMA PassIsEarnedHere ==
  ASSUME SweepInvariant, stage = "sign", manifest' = Signed("PASS"), left \subseteq left'
  PROVE  PassIsItsOwn'
<1>1. added >= Samples /\ metrics.run \in left \cup {sweep}
  BY DEF SweepInvariant, GatesOwned, AfterHarness, AfterMirror
<1>2. /\ manifest'.run = sweep /\ manifest'.says = "PASS"
      /\ manifest'.rows = added /\ manifest'.metrics = metrics
  BY DEF Signed
<1> QED BY <1>1, <1>2 DEF PassIsItsOwn

\* The signature of a run that passed, and its write (write_signed_manifest).
LEMMA SignStep == ASSUME SweepInvariant, Sign PROVE SweepInvariant'
<1> USE DEF SweepInvariant
<1>1. /\ stage = "sign" /\ stage \in Open \ {"handler"}
      /\ UNCHANGED <<sweep, options, results, rows, before, metrics, added, left>>
  BY DEF Sign, Open, Stages
<1>2. /\ manifest.run < sweep /\ faults = {} /\ status = "running"
      /\ sweep \in Nat /\ manifest.run \in Nat
  BY <1>1 DEF SignedByRun, RunsNumbered
<1>3. CASE stage' = "sanitize"
  <2>1. manifest' = Signed("PASS") /\ status' = "exit 0"
    BY <1>3 DEF Sign, Raise, Goto
  <2>2. manifest'.run = sweep /\ manifest'.says = "PASS"
    BY <2>1 DEF Signed
  <2>3. RunsNumbered'
    BY <1>1, <1>2, <1>3, <2>2, StageFacts DEF RunsNumbered
  <2>4. SignedByRun'
    BY <1>1, <1>3, <2>1, <2>2, StageFacts DEF SignedByRun, Own
  <2>5. ResultsOwned' /\ GatesOwned'
    BY <1>1, <1>3, StageFacts DEF ResultsOwned, GatesOwned
  <2>6. PassIsItsOwn'
    BY <1>1, <2>1, PassIsEarnedHere
  <2> QED BY <2>3, <2>4, <2>5, <2>6
<1>4. CASE stage' = "handler"
  <2>1. /\ status' = status
        /\ \/ UNCHANGED <<manifest, faults>>
           \/ manifest' \in {manifest, Torn, Signed("PASS")} /\ faults' = {"PASS"}
    BY <1>2, <1>4 DEF Sign, Raise, Goto, WriteFails
  <2>2. Torn.run = sweep /\ Torn.says = "torn" /\ Signed("PASS").run = sweep
    BY DEF Torn, NoManifest, Signed
  <2>3. manifest'.run \in Nat /\ manifest'.run <= sweep
    BY <1>2, <2>1, <2>2
  <2>4. RunsNumbered'
    BY <1>1, <1>4, <2>3, StageFacts DEF RunsNumbered, Stages
  <2>5. Own("PASS")' => "PASS" \in faults' /\ options.secret
    BY <1>1, <1>2, <1>4, <2>1 DEF Own, Sign
  <2>6. SignedByRun'
    BY <1>1, <1>2, <1>4, <2>1, <2>5, StageFacts DEF SignedByRun
  <2>7. ResultsOwned' /\ GatesOwned'
    BY <1>1, <1>4, StageFacts DEF ResultsOwned, GatesOwned
  <2>8. PassIsItsOwn'
    <3>1. CASE manifest' = Signed("PASS")
      BY <1>1, <3>1, PassIsEarnedHere
    <3>2. CASE manifest' = manifest \/ manifest'.says = "torn"
      BY <1>1, <3>2 DEF PassIsItsOwn
    <3> QED BY <2>1, <2>2, <3>1, <3>2
  <2> QED BY <2>4, <2>6, <2>7, <2>8
<1> QED BY <1>3, <1>4 DEF Sign, Raise, Goto

\* An exception, whatever raised it: a signed FAIL, or a fault.
LEMMA HandlerStep == ASSUME SweepInvariant, HandleFailure PROVE SweepInvariant'
<1> USE DEF SweepInvariant
<1>1. /\ stage = "handler" /\ stage' = "sanitize" /\ status' = "exit 1"
      /\ stage \in Open /\ faults \subseteq faults'
      /\ UNCHANGED <<sweep, options, results, rows, before, metrics, added, left>>
  BY DEF HandleFailure, Goto, WriteFails, Open, Stages
<1>2. /\ Own("PASS") => "PASS" \in faults
      /\ sweep \in Nat /\ manifest.run \in Nat /\ manifest.run <= sweep
  BY <1>1 DEF SignedByRun, RunsNumbered
<1>3. /\ Torn.run = sweep /\ Torn.says = "torn"
      /\ Signed("FAIL").run = sweep /\ Signed("FAIL").says = "FAIL"
  BY DEF Torn, NoManifest, Signed
<1>4. \/ options.secret /\ manifest' = Signed("FAIL")
      \/ options.secret /\ manifest' \in {manifest, Torn} /\ "FAIL" \in faults'
      \/ ~options.secret /\ manifest' = manifest
  BY DEF HandleFailure, FailureManifest, WriteFails
<1>5. RunsNumbered'
  <2>1. manifest'.run \in Nat /\ manifest'.run <= sweep
    BY <1>2, <1>3, <1>4
  <2> QED BY <1>1, <2>1, StageFacts DEF RunsNumbered
<1>6. SignedByRun'
  <2>1. Own("PASS")' => {"PASS", "FAIL"} \subseteq faults' \/ (~options.secret /\ Own("PASS"))
    BY <1>1, <1>2, <1>3, <1>4 DEF Own
  <2>2. ~options.secret => ~Own("PASS")
    BY <1>1 DEF SignedByRun
  <2>3. options.secret => Own("FAIL")' \/ "FAIL" \in faults'
    BY <1>1, <1>3, <1>4 DEF Own
  <2> QED BY <1>1, <2>1, <2>2, <2>3, StageFacts DEF SignedByRun
<1>7. ResultsOwned' /\ GatesOwned'
  BY <1>1, StageFacts DEF ResultsOwned, GatesOwned
<1>8. PassIsItsOwn'
  BY <1>1, <1>3, <1>4 DEF PassIsItsOwn
<1> QED BY <1>5, <1>6, <1>7, <1>8

\* What a run that is stopped in the middle of a step leaves in its files.
LEMMA StoppedFiles ==
  ASSUME SweepInvariant, CutShort, stage # Done, UNCHANGED sweep, left \subseteq left'
  PROVE  /\ manifest'.run \in Nat /\ manifest'.run <= sweep
         /\ PassIsItsOwn'
         /\ "run" \in DOMAIN results'
         /\ results' # NoResults => results'.run \in left \/ results'.run = sweep
<1> USE DEF SweepInvariant
<1>1. /\ Torn.run = sweep /\ Torn.says = "torn"
      /\ Signed("PASS").run = sweep
      /\ Signed("FAIL").run = sweep /\ Signed("FAIL").says = "FAIL"
  BY DEF Torn, NoManifest, Signed
<1>2. \/ manifest' \in {manifest, Torn, Signed("FAIL")}
      \/ stage = "sign" /\ manifest' = Signed("PASS")
  BY DEF CutShort
<1>3. manifest'.run \in Nat /\ manifest'.run <= sweep
  BY <1>1, <1>2 DEF RunsNumbered
<1>4. PassIsItsOwn'
  <2>1. CASE manifest' \in {manifest, Torn, Signed("FAIL")}
    BY <1>1, <2>1 DEF PassIsItsOwn
  <2>2. CASE stage = "sign" /\ manifest' = Signed("PASS")
    BY <2>2, PassIsEarnedHere
  <2> QED BY <1>2, <2>1, <2>2
<1>5. \/ results' \in {results, NoResults}
      \/ \E r \in Readings : results' = Written(r)
      \/ results # NoResults /\ results' = [results EXCEPT !.says = "zeros"]
  BY DEF CutShort
<1>6. "run" \in DOMAIN results' /\ (results' # NoResults => results'.run \in left \cup {sweep})
  <2>1. CASE results' \in {results, NoResults}
    BY <2>1 DEF ResultsOwned, NoResults
  <2>2. CASE \E r \in Readings : results' = Written(r)
    BY <2>2 DEF Written
  <2>3. CASE results # NoResults /\ results' = [results EXCEPT !.says = "zeros"]
    BY <2>3 DEF ResultsOwned, NoResults
  <2> QED BY <1>5, <2>1, <2>2, <2>3
<1> QED BY <1>3, <1>4, <1>6

\* The end of a run, cleaned or not, and the pod that is taken away.
LEMMA EndStep == ASSUME SweepInvariant, Sanitize \/ Interrupt \/ KillSweep PROVE SweepInvariant'
<1> USE DEF SweepInvariant
<1>1. CASE Sanitize
  <2>1. /\ stage = "sanitize" /\ stage' = Done
        /\ UNCHANGED <<sweep, options, rows, before, metrics, manifest, status, faults, added>>
        /\ left \subseteq left'
    BY <1>1 DEF Sanitize, Goto
  <2>2. RunsNumbered' /\ GatesOwned' /\ PassIsItsOwn'
    BY <2>1, StageFacts DEF RunsNumbered, GatesOwned, PassIsItsOwn
  <2>3. SignedByRun'
    BY <2>1, StageFacts DEF SignedByRun, Own
  <2>4. ResultsOwned'
    <3>1. results' \in {NoResults, results, [results EXCEPT !.says = "zeros"]}
      BY <1>1 DEF Sanitize
    <3>2. results' # NoResults => sweep \in left'
      BY <1>1 DEF Sanitize, Removes
    <3>3. CASE results = NoResults
      <4>1. results' = NoResults
        BY <1>1, <3>3 DEF Sanitize
      <4> QED BY <4>1 DEF ResultsOwned, NoResults
    <3>4. CASE results # NoResults
      <4>1. "run" \in DOMAIN results' /\ (results' # NoResults => results'.run = results.run)
        BY <3>1 DEF ResultsOwned, NoResults
      <4> QED BY <2>1, <3>2, <3>4, <4>1 DEF ResultsOwned
    <3> QED BY <3>3, <3>4
  <2> QED BY <2>2, <2>3, <2>4
<1>2. CASE Interrupt \/ KillSweep
  <2>1. /\ stage # Done /\ stage' \in {"sanitize", Done} /\ status' = "killed"
        /\ UNCHANGED <<sweep, options, rows, before, metrics, added>>
        /\ left \subseteq left' /\ CutShort
        /\ stage' = Done => sweep \in left'
    BY <1>2, StageFacts DEF Interrupt, KillSweep, Goto
  <2>2. stage' \notin Open \cup BeforeMirror \cup AfterHarness \cup AfterMirror
        /\ stage' \in Stages \cup {Done} /\ stage' # "prelude"
    BY <2>1, StageFacts
  <2>3. RunsNumbered' /\ GatesOwned' /\ PassIsItsOwn'
    BY <2>1, <2>2, StoppedFiles DEF RunsNumbered, GatesOwned
  <2>4. SignedByRun'
    BY <2>1, <2>2 DEF SignedByRun
  <2>5. ResultsOwned'
    BY <2>1, <2>2, StoppedFiles DEF ResultsOwned
  <2> QED BY <2>3, <2>4, <2>5
<1> QED BY <1>1, <1>2

LEMMA SweepStep == ASSUME SweepInvariant, [SweepNext]_sweepVars PROVE SweepInvariant'
<1>1. CASE UNCHANGED sweepVars
  BY <1>1 DEF sweepVars, SweepInvariant, RunsNumbered, SignedByRun, ResultsOwned, GatesOwned,
              PassIsItsOwn, Own
<1> QED
  BY <1>1, StartStep, PreludeStep, GateStep, HarnessStep, MirrorStep, SignStep, HandlerStep, EndStep
  DEF SweepNext

LEMMA SweepStarts == SweepInit => SweepInvariant
<1> SUFFICES ASSUME SweepInit PROVE SweepInvariant
  OBVIOUS
<1> QED BY StageFacts DEF SweepInit, SweepInvariant, RunsNumbered, SignedByRun, ResultsOwned,
                          GatesOwned, PassIsItsOwn, NoManifest, NoResults

(***************************************************************************)
(* MasterReportTellsTheLatest, for any number of runs: whatever gates, the    *)
(* start of a run and its writes do, exit code 0 and the PASS of a run go      *)
(* together, and the report is the run's own but for the faults it names.     *)
(***************************************************************************)
THEOREM ReportIsTheLatest == SweepSpec => []MasterReportTellsTheLatest
<1>1. SweepInvariant => MasterReportTellsTheLatest
  BY StageFacts DEF SweepInvariant, SignedByRun, Own, MasterReportTellsTheLatest
<1> QED BY <1>1, SweepStarts, SweepStep, PTL DEF SweepSpec

(***************************************************************************)
(* PassIsItsOwn, for any number of rows and runs: a signed PASS is about     *)
(* rows the run inserted itself, over a database that keeps those of killed  *)
(* runs, and about metrics nobody else's but those of results left behind.  *)
(***************************************************************************)
THEOREM PassIsEarned == SweepSpec => []PassIsItsOwn
<1>1. SweepInvariant => PassIsItsOwn
  BY DEF SweepInvariant
<1> QED BY <1>1, SweepStarts, SweepStep, PTL DEF SweepSpec
==============================================================================
