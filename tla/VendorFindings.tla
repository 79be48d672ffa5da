---------------------------- MODULE VendorFindings ----------------------------
(***************************************************************************)
(* The last tools of an analysis.  finding_engine lists what is wrong with  *)
(* a vendor, which evidence a human must provide, and the next best action; *)
(* narrative_engine words it; the orchestrator classifies the vendor.       *)
(*                                                                         *)
(* The days to a renewal are unknown to the finding engine, because its     *)
(* profile has no contracts, and to the orchestrator, because nothing       *)
(* writes them to the vendor's file: nothing here depends on them.          *)
(***************************************************************************)
EXTENDS VendorInquiry

Severities == <<"LOW", "MEDIUM", "HIGH", "CRITICAL">>
Rank(severity) == CHOOSE i \in DOMAIN Severities : Severities[i] = severity
Grave(finding) == Rank(finding.severity) >= 3

Finding(source, about, kind, severity) ==
    [source |-> source, about |-> about, kind |-> kind, severity |-> severity]

(* TIER_CRI_THRESHOLDS.                                                      *)
CriThreshold(type) ==
    CASE type = "STRATEGIC" -> 70 [] type = "PREFERRED" -> 65 [] type = "INCIDENTAL" -> 45 [] OTHER -> 55

(* _score_findings.                                                          *)
ScoreFindings(scores, cri, past, type) ==
    {Finding("SCORE", d, "low", IF scores[d] < 50 THEN "HIGH" ELSE "MEDIUM") :
        d \in {x \in Dimensions : scores[x] < 65}}
      \cup {Finding("SCORE", d, "falling", "MEDIUM") :
               d \in {x \in Dimensions : past # <<>> /\ scores[x] - Last(past) <= -10}}
      \cup {Finding("SCORE", "vendor", "cri", "HIGH") : x \in {y \in {cri} : y < CriThreshold(type)}}

UnansweredAtFirst(pairs) ==
    {p \in pairs : /\ p.answer.completeness = "UNANSWERABLE"
                   /\ p.question \in CriticalQuestions
                   /\ p.tier = 1}

(* _qa_findings: each answer counts, those of the later tiers too; the       *)
(* findings of one question are one, after _deduplicate.                     *)
Unanswered(pairs) ==
    {p \in pairs : p.answer.completeness = "UNANSWERABLE" /\ p.question \in CriticalQuestions}
QaFindings(pairs) ==
    {Finding("QA", p.question, "partial", "MEDIUM") :
        p \in {x \in pairs : x.answer.completeness = "PARTIAL" /\ x.question \in MaterialQuestions}}
      \cup {Finding("QA", p.question, "unanswerable", "HIGH") : p \in Unanswered(pairs)}

(* _trend_findings: a turn for the better is reported as one for the worse.  *)
TrendFindings(trends) ==
    {Finding("TREND", d, "decline", "HIGH") :
        d \in {x \in Dimensions : trends[x].direction = "DECLINING" /\ trends[x].fast}}
      \cup {Finding("TREND", d, "turned", "MEDIUM") : d \in {x \in Dimensions : trends[x].turned}}

(* _llm_calibrate: with three grave findings the model may raise severities. *)
(* Bound: it names one finding, as the least or the most severe.             *)
Raised(finding, severity) ==
    IF Rank(severity) > Rank(finding.severity) THEN [finding EXCEPT !.severity = severity] ELSE finding
Replaced(finding, severity) == [finding EXCEPT !.severity = severity]
Calibrated(finding, severity) == Raised(finding, severity)
Calibrations(findings) ==
    IF Cardinality({f \in findings : Grave(f)}) < 3 THEN {findings}
    ELSE {findings} \cup {(findings \ {f}) \cup {Calibrated(f, s)} : f \in findings, s \in {"LOW", "CRITICAL"}}

(* _select_nba: the first of the worst findings.                             *)
Worst(findings) == {f \in findings : \A g \in findings : Rank(g.severity) <= Rank(f.severity)}
NoAction == [linked |-> "none"]
NextBestAction(findings) ==
    IF findings = {} THEN NoAction
    ELSE LET top == CHOOSE f \in Worst(findings) : TRUE
         IN  [linked |-> top, review |-> Grave(top),
              timing |-> IF Grave(top) THEN "THIS_WEEK" ELSE "MONITOR"]

(* detect_findings; the orchestrator makes a task of each blocking gap.      *)
(* Bound: the most and the least demanding type of relationship.             *)
DetectFindings ==
    /\ stage = "findings"
    /\ \E type \in {"STRATEGIC", "INCIDENTAL"} :
       \E findings \in Calibrations(ScoreFindings(work.scores, work.cri, work.past, type)
                                      \cup QaFindings(work.pairs) \cup TrendFindings(work.trends)) :
          Produce([findings |-> findings, nba |-> NextBestAction(findings),
                   blocking |-> {p.question : p \in Unanswered(work.pairs)}], "narrate")
    /\ UNCHANGED <<result, faults>>

(* classify_vendor_state; of the trends only that of the first dimension     *)
(* counts.                                                                   *)
VendorState(cri, trends) ==
    CASE cri >= 80 /\ trends["delivery_reliability"].direction # "DECLINING" -> "HEALTHY"
      [] cri >= 65 /\ ~(cri >= 80 /\ trends["delivery_reliability"].direction # "DECLINING") -> "WATCH"
      [] cri \in 50 .. 64 -> "AT_RISK"
      [] OTHER -> "CRITICAL"

(* What run_analysis leaves behind: analysis_result.md, and _write_triage_-  *)
(* items' rows in the database, if one is configured.  A report or a row     *)
(* that cannot be written is only logged.                                    *)
Report(database, lost) ==
    [process |-> "analysis", status |-> "COMPLETED", database |-> database, lost |-> lost,
     state |-> VendorState(work.cri, work.trends),
     findings |-> IF "report" \in lost THEN {} ELSE work.findings,
     nba |-> IF "report" \in lost THEN NoAction ELSE work.nba,
     tasks |-> IF database THEN Queued(work.blocking, lost) ELSE {}]

(* generate_narratives, after which the results are written.  A failed call  *)
(* is replaced by a sentence; a narrative that is not a text raises.         *)
Narrate ==
    /\ stage = "narrate"
    /\ \/ \E database \in BOOLEAN, lost \in SUBSET {"report", "queue"} :
             Deliver(Report(database, lost)) /\ FaultIf(lost # {})
       \/ Deliver([process |-> "analysis", status |-> "FAILED"]) /\ AFault
    /\ UNCHANGED work

=============================================================================
