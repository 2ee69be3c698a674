------------------------------- MODULE Scoring -------------------------------
(***************************************************************************)
(* From the evidence of one sample to an alert level (sentry/fusion.py and *)
(* sentry/scoring.py). A channel score of 1.0 is Full; weights and         *)
(* thresholds are in hundredths, so every product is an exact integer.     *)
(***************************************************************************)
EXTENDS AlertLevels, Integers

CONSTANTS
  Weights,     \* fusion weights of the mission profile
  Thresholds   \* its yellow, orange and red scores

Full == 1200

Channels == {"pir", "acoustic", "rf", "visual", "passive"}
Flags == {"lowVisibility", "jamming", "whisper", "anomaly"}

Evidence == [pir : 0..Full, acoustic : 0..Full, rf : 0..Full, visual : 0..Full,
             passive : 0..Full, lowVisibility : BOOLEAN, jamming : BOOLEAN,
             whisper : BOOLEAN, anomaly : BOOLEAN]

ASSUME WeightsAssumption == Weights \in [Channels -> Nat]
ASSUME ThresholdsAssumption == Thresholds \in [{"yellow", "orange", "red"} -> Nat]

Larger(a, b) == IF a < b THEN b ELSE a
Smaller(a, b) == IF a < b THEN a ELSE b

------------------------------------------------------------------------------
Weighted(e) ==
    Weights.pir * e.pir + Weights.acoustic * e.acoustic + Weights.rf * e.rf
  + Weights.visual * e.visual + Weights.passive * e.passive

\* Poor visibility damps the sum by 0.85.
Damped(e) == (IF e.lowVisibility THEN 85 ELSE 100) * Weighted(e)

\* Mutant of FusedScore: under jamming the RF channel replaces the sum.
FusedScoreReplaced(e) ==
  Smaller(10000 * Full, IF e.jamming THEN 9500 * e.rf ELSE Damped(e))

\* SensorFusion.fuse, in ten-thousandths of a channel score. Under jamming the
\* score is at least 0.95 of the RF channel.
FusedScore(e) ==
  Smaller(10000 * Full,
          IF e.jamming THEN Larger(Damped(e), 9500 * e.rf) ELSE Damped(e))

Reaches(e, threshold) == FusedScore(e) >= 100 * Full * Thresholds[threshold]

\* The level by the fused score; jamming turns a threat into hold-safe.
BaseLevel(e) ==
  LET hold == e.jamming /\ Reaches(e, "orange")
      red == ~hold /\ Reaches(e, "red")
      orange == ~hold /\ ~red /\ Reaches(e, "orange")
      yellow == ~hold /\ ~red /\ ~orange /\ Reaches(e, "yellow")
  IN CASE hold -> "HOLD" [] red -> "RED" [] orange -> "ORANGE"
       [] yellow -> "YELLOW" [] OTHER -> "CLEAR"

\* A suspicious text makes a clear scene YELLOW.
WhisperLevel(e) ==
  IF e.whisper /\ BaseLevel(e) = "CLEAR" THEN "YELLOW" ELSE BaseLevel(e)

\* ThreatScorer.score: regular traffic makes elevated evidence ORANGE.
ScoredLevel(e) ==
  IF e.anomaly /\ Reaches(e, "yellow") /\ WhisperLevel(e) \in {"CLEAR", "YELLOW"}
  THEN "ORANGE"
  ELSE WhisperLevel(e)

------------------------------------------------------------------------------
\* a tells at least as much as b, in every channel and every flag.
AtLeast(a, b) ==
  /\ \A c \in Channels : a[c] >= b[c]
  /\ \A f \in Flags \ {"lowVisibility"} : b[f] => a[f]
  /\ a.lowVisibility => b.lowVisibility

\* e with one channel saturated, or one alarm raised, or the view cleared.
Raised(e) ==
  {[e EXCEPT ![c] = Full] : c \in Channels}
    \cup {[e EXCEPT ![f] = TRUE] : f \in Flags \ {"lowVisibility"}}
    \cup {[e EXCEPT !.lowVisibility = FALSE]}
==============================================================================
