------------------------------ MODULE Scoring ------------------------------
(***************************************************************************)
(* The severity that the machine gives a finding: the model's confidence,  *)
(* capped by how its clauses were found (services/extraction.py), and then *)
(* the weight, threshold and escalation of the rule (services/scoring.py); *)
(* and the risk band of the document that the verified findings add up to. *)
(*                                                                         *)
(* Confidence, weight and threshold are counted in parts of Scale.         *)
(***************************************************************************)
EXTENDS Integers, FiniteSets, Sequences

CONSTANTS
    Scale,          \* what 1.0 is
    Thresholds,     \* bound: thresholds of rules
    OtherFindings   \* bound: how many findings of each severity the document has beside

ScoringAssumption ==
    /\ Scale \in Nat \ {0}
    /\ Thresholds \subseteq 0 .. Scale
    /\ OtherFindings \subseteq [0 .. 4 -> Nat]

VARIABLES
    confidence,                     \* what the model says
    tier,                           \* the mode of the retrieval
    weight, threshold, escalate,    \* the rule
    severity,                       \* machine_severity, from 0 (info) to 4 (critical)
    source,                         \* severity_source
    others,                         \* the other verified findings
    band                            \* risk_band, from 0 (low) to 3 (high), or 4 (none yet)

vars == <<confidence, tier, weight, threshold, escalate, severity, source, others, band>>

High == 3
Critical == 4
Unscored == 4

NoOthers == [level \in 0 .. Critical |-> 0]

TypeOK ==
    /\ confidence \in 0 .. Scale
    /\ tier \in {"hybrid", "dense", "keyword", "ordinal_scan"}
    /\ weight \in 0 .. Scale
    /\ threshold \in Thresholds
    /\ escalate \in BOOLEAN
    /\ severity \in 0 .. Critical
    /\ source \in {"none", "deterministic", "degraded_cap"}
    /\ others \in OtherFindings \cup {NoOthers}
    /\ band \in 0 .. Unscored

Init ==
    /\ confidence \in 0 .. Scale
    /\ tier \in {"hybrid", "dense", "keyword", "ordinal_scan"}
    /\ weight \in 0 .. Scale
    /\ threshold \in Thresholds
    /\ escalate \in BOOLEAN
    /\ severity = 0
    /\ source = "none"
    /\ others = NoOthers
    /\ band = Unscored

-----------------------------------------------------------------------------
\* Of a hundred, how much confidence a tier allows.
Cap(m) == CASE m = "hybrid" -> 100 [] m = "dense" -> 85 [] m = "keyword" -> 70 [] OTHER -> 55

\* cap_confidence_for_degraded_retrieval
Capped(c, m) == IF 100 * c > Cap(m) * Scale THEN (Cap(m) * Scale) \div 100 ELSE c

SEVERITY_BANDS == {20, 40, 60, 80}

Band(c) == Cardinality({cut \in SEVERITY_BANDS : 100 * c * weight >= cut * Scale * Scale})

\* Faulty variant of Reduced: the level below the lowest is the highest.
ReducedBelowInfo(c) == IF c < threshold THEN (Band(c) + Critical) % (Critical + 1) ELSE Band(c)

Reduced(c) == IF c < threshold /\ Band(c) > 0 THEN Band(c) - 1 ELSE Band(c)

Raised(level) == IF escalate /\ level < Critical THEN level + 1 ELSE level

CapsAt(level, m) == m # "hybrid" /\ level > High

\* Faulty variant of MachineSeverity: the cap comes before the escalation.
EscalatedAfterCap(c, m) ==
    LET level == Reduced(Capped(c, m))
    IN  Raised(IF CapsAt(level, m) THEN High ELSE level)

\* score_finding of a confidence and a tier.
MachineSeverity(c, m) ==
    LET level == Raised(Reduced(Capped(c, m)))
    IN  IF CapsAt(level, m) THEN High ELSE level

ScoreFinding ==
    /\ source = "none"
    /\ severity' = MachineSeverity(confidence, tier)
    /\ source' = IF CapsAt(Raised(Reduced(Capped(confidence, tier))), tier)
                 THEN "degraded_cap" ELSE "deterministic"
    /\ UNCHANGED <<confidence, tier, weight, threshold, escalate, others, band>>

\* Faulty variant of Points: medium and low are swapped.
PointsSwapped(level) == <<1, 10, 4, 20, 32>>[level + 1]

\* _SEVERITY_POINTS
Points(level) == <<1, 4, 10, 20, 32>>[level + 1]

TotalPoints(counts) ==
    counts[0] * Points(0) + counts[1] * Points(1) + counts[2] * Points(2)
        + counts[High] * Points(High) + counts[Critical] * Points(Critical)

\* The points p at which 100 * (1 - 0.5 ^ (p / 30)) reaches 25, 50 and 75.
RISK_BANDS == {13, 30, 60}

\* The band of a document with these findings beside one of this severity.
RiskBand(counts, level) ==
    Cardinality({cut \in RISK_BANDS : TotalPoints(counts) + Points(level) >= cut})

\* score_analysis, where the finding is verified.
ScoreAnalysis ==
    /\ source # "none" /\ band = Unscored
    /\ others' \in OtherFindings
    /\ band' = RiskBand(others', severity)
    /\ UNCHANGED <<confidence, tier, weight, threshold, escalate, severity, source>>

Next == ScoreFinding \/ ScoreAnalysis

Spec == Init /\ [][Next]_vars

-----------------------------------------------------------------------------
(* Properties.                                                             *)

\* A model that is less confident never makes a finding more severe, whatever
\* threshold and escalation do.
LessConfidenceIsNoWorse ==
    source # "none" =>
        \A c \in 0 .. confidence : MachineSeverity(c, tier) <= severity

\* Worse retrieval never makes a finding more severe, and without both searches
\* no finding is critical.
DegradedIsNoWorse ==
    source # "none" =>
        /\ severity <= MachineSeverity(confidence, "hybrid")
        /\ tier # "hybrid" => severity <= High

\* What is true of the finding is true of the document: less confidence or worse
\* retrieval never puts it into a higher band, one finding less neither, and a
\* document with a single finding is never of high risk.
DocumentIsNoWorse ==
    band # Unscored =>
        /\ \A c \in 0 .. confidence : RiskBand(others, MachineSeverity(c, tier)) <= band
        /\ band <= RiskBand(others, MachineSeverity(confidence, "hybrid"))
        /\ \A level \in {l \in 0 .. Critical : others[l] > 0} :
              RiskBand([others EXCEPT ![level] = @ - 1], severity) <= band
        /\ others = NoOthers => band < 3

\* The severity is monotone: neither less confidence nor worse retrieval ever
\* makes a finding more severe (score_finding) or its document more risky, and
\* a finding more never makes it less risky (score_analysis).
SeverityIsMonotone == LessConfidenceIsNoWorse /\ DegradedIsNoWorse /\ DocumentIsNoWorse
=============================================================================
