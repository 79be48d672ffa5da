---------------------------- MODULE VendorInquiry ----------------------------
(***************************************************************************)
(* The first tools of an analysis.  inquiry_engine puts questions to the    *)
(* language model, asks again where the answer is weak, and a third time    *)
(* where a critical one stays unanswered; scoring_engine turns the answers  *)
(* into five scores and their mean, CRI; trend_analyser compares them with  *)
(* those of earlier analyses.                                               *)
(*                                                                         *)
(* commercial_analyser reads the contracts of the relationship profile,     *)
(* which the orchestrator always loads without any: the type of contract is *)
(* UNKNOWN, and the commercial risk LOW.                                    *)
(***************************************************************************)
EXTENDS ToolRun, SequencesExt

CONSTANTS
    OddQuestions,   \* bound: the questions of which one is answered in any way
    Histories       \* bound: the scores of earlier analyses, in all dimensions alike,
                    \* and the age in months of the first of them

Questions == {"Q1", "Q2", "Q3", "Q4", "Q5", "Q6"}
CriticalQuestions == {"Q1", "Q4"}
MaterialQuestions == {"Q1", "Q2", "Q4", "Q6"}

ASSUME InquiryAssumption ==
    /\ OddQuestions \subseteq Questions
    /\ \A h \in Histories : ToSet(h.scores) \subseteq 0 .. 100 /\ h.months \in Nat

Answer(completeness, confidence, failed) ==
    [completeness |-> completeness, confidence |-> confidence, failed |-> failed]

(* _answer_question: an exception, or an answer that lacks a part.           *)
NoAnswer == Answer("UNANSWERABLE", "LOW", TRUE)

(* The words of an answer are taken as they come, whatever they are.         *)
Answers ==
    {NoAnswer, Answer("complete", "HIGH", FALSE)}
      \cup {Answer(c, f, FALSE) :
               c \in {"COMPLETE", "PARTIAL", "UNANSWERABLE"}, f \in {"HIGH", "MEDIUM", "LOW"}}

(* Bound: the other questions of a tier are all answered like this.          *)
PlainAnswers == {Answer("COMPLETE", "HIGH", FALSE), Answer("PARTIAL", "MEDIUM", FALSE), NoAnswer}

Pairs(questions, tier, odd, a, rest) ==
    {[question |-> q, tier |-> tier, answer |-> IF q = odd THEN a ELSE rest] : q \in questions}

(* run_inquiry: the second tier asks again what was answered weakly, the     *)
(* third what is critical and was still not answered; two, at most.          *)
Weak(a) == a.confidence = "LOW" \/ a.completeness = "PARTIAL"
Agenda(tier) ==
    CASE tier = 1 -> Questions
      [] tier = 2 -> {p.question : p \in {x \in work.pairs : Weak(x.answer)}}
      [] tier = 3 -> {p.question : p \in {x \in work.pairs :
                         x.tier = 2 /\ x.answer.completeness = "UNANSWERABLE"}} \cap CriticalQuestions

Ask(tier, odd, next) ==
    /\ IF odd \in Agenda(tier)
       THEN \E a \in Answers, rest \in PlainAnswers :
               Produce([odd |-> odd, pairs |-> work.pairs \cup Pairs(Agenda(tier), tier, odd, a, rest)], next)
       ELSE \E rest \in IF Agenda(tier) = {} THEN {NoAnswer} ELSE PlainAnswers :
               Produce([odd |-> odd, pairs |-> work.pairs \cup Pairs(Agenda(tier), tier, odd, rest, rest)], next)
    /\ UNCHANGED <<result, faults>>

AskAll == stage = "inquire" /\ \E odd \in OddQuestions : Ask(1, odd, "ask_again")
AskWeak == stage = "ask_again" /\ Ask(2, work.odd, "ask_critical")
AskCritical == stage = "ask_critical" /\ Ask(3, work.odd, "score")

(* Python rounds halves to the even neighbour.                               *)
Rounded(sum, n) ==
    LET down == sum \div n  rest == sum % n
    IN  IF 2 * rest > n \/ (2 * rest = n /\ down % 2 = 1) THEN down + 1 ELSE down

(* QA_TO_SCORE, which has no entry for a COMPLETE answer of LOW confidence.  *)
AnswerScore(a) ==
    CASE a.completeness = "COMPLETE" /\ a.confidence = "HIGH" -> 92
      [] a.completeness = "COMPLETE" /\ a.confidence = "MEDIUM" -> 78
      [] a.completeness = "PARTIAL" /\ a.confidence = "HIGH" -> 62
      [] a.completeness = "PARTIAL" /\ a.confidence = "MEDIUM" -> 48
      [] a.completeness = "PARTIAL" /\ a.confidence = "LOW" -> 35
      [] a.completeness = "UNANSWERABLE" /\ a.confidence = "HIGH" -> 25
      [] a.completeness = "UNANSWERABLE" /\ a.confidence = "LOW" -> 15
      [] OTHER -> 20

Dimensions == {"delivery_reliability", "responsiveness", "commercial_value", "risk_compliance",
               "relationship_trend"}
DimensionQuestions ==
    [delivery_reliability |-> {"Q1"}, responsiveness |-> {"Q2"}, commercial_value |-> {"Q3"},
     risk_compliance |-> {"Q4"}, relationship_trend |-> {"Q5", "Q6"}]

Counted(pairs, dimension) == {p \in pairs : p.question \in DimensionQuestions[dimension]}

NeutralMean(pairs) ==
    LET given == {p \in pairs : ~p.answer.failed}
    IN  IF given = {} THEN 50
        ELSE Rounded(FoldSet(LAMBDA p, sum : sum + AnswerScore(p.answer), 0, given),
                     Cardinality(given))

(* _score_dimension: the mean of the answers of all tiers, or a low score.   *)
Mean(pairs) ==
    IF pairs = {} THEN 20
    ELSE Rounded(FoldSet(LAMBDA p, sum : sum + AnswerScore(p.answer), 0, pairs), Cardinality(pairs))

(* A commercial risk LOW adds eight points.                                  *)
Scores(pairs) ==
    [d \in Dimensions |->
        IF d = "commercial_value" THEN Min({100, Mean(Counted(pairs, d)) + 8})
                                  ELSE Mean(Counted(pairs, d))]
Cri(scores) == Rounded(FoldSet(LAMBDA d, sum : sum + scores[d], 0, Dimensions), 5)

(* compute_scores.                                                           *)
ComputeScores ==
    /\ stage = "score"
    /\ Produce([scores |-> Scores(work.pairs), cri |-> Cri(Scores(work.pairs))], "trend")
    /\ UNCHANGED <<result, faults>>

(* _compute_dimension_trend over the past runs and this one, the first of    *)
(* them some months ago; without a month between them nothing moves.         *)
UnknownTrend == [direction |-> "UNKNOWN", fast |-> FALSE, turned |-> FALSE]
Turned(scores) ==
    \E i \in 2 .. Len(scores) - 1 :
        LET before == scores[i] - scores[i - 1]  after == scores[i + 1] - scores[i]
        IN  (before > 3 /\ after < -3) \/ (before < -3 /\ after > 3)
Trend(scores, months) ==
    LET change == Last(scores) - Head(scores)
    IN  IF Len(scores) < 2 THEN UnknownTrend
        ELSE [direction |-> CASE months > 0 /\ change > 3 * months -> "IMPROVING"
                              [] months > 0 /\ change < -3 * months -> "DECLINING"
                              [] OTHER -> "STABLE",
              fast |-> months > 0 /\ change <= -5 * months,
              turned |-> Turned(scores)]

(* analyse_trends.  What it learns from past actions is for the reader only. *)
AnalyseTrends ==
    /\ stage = "trend"
    /\ \E h \in Histories :
          Produce([trends |-> [d \in Dimensions |-> Trend(Append(h.scores, work.scores[d]), h.months)],
                   past |-> h.scores], "findings")
    /\ UNCHANGED <<result, faults>>

=============================================================================
