-------------------------- MODULE SpendClassification --------------------------
(***************************************************************************)
(* spend_aggregator sums up the rows of a vendor, relationship_classifier   *)
(* makes a score of the sums and the contracts, and of the score the type   *)
(* of the relationship and how much the client depends on it.  Scores are   *)
(* counted in thousandths.                                                  *)
(***************************************************************************)
EXTENDS SpendCollection

(* _filter_matched, as places in the list of rows.                           *)
AllRows(records) == {i \in DOMAIN records : records[i].known}
Matched(records) == {i \in AllRows(records) : records[i].match \in {"HIGH", "MEDIUM"}}

Sum(records, rows) == FoldSet(LAMBDA i, sum : sum + records[i].amount, 0, rows)

(* _compute_ttm: a row counts by its end, or else by its start.              *)
WithinTheYear(r) == IF r.end # NoDate THEN r.end >= 1 ELSE r.start >= 1

(* _get_record_date: its quarter is that of its start, or else of its end.   *)
Quarter(r) == IF r.start # NoDate THEN r.start ELSE r.end
Quarters(records, rows) == {Quarter(records[i]) : i \in rows} \ {NoDate}
Undated(records, rows) == {i \in rows : Quarter(records[i]) = NoDate}

(* _assess_completeness; dates may be missing in a tenth of the rows.        *)
Completeness(matched, records) ==
    LET undated == 10 * Cardinality(Undated(records, matched)) > Cardinality(matched)
    IN  CASE records = <<>> -> "NONE"
          [] records # <<>> /\ Cardinality(matched) < 3 -> "SPARSE"
          [] Cardinality(matched) >= 3 /\ (undated \/ Cardinality(Quarters(records, matched)) < 2)
               -> "PARTIAL"
          [] OTHER -> "FULL"

(* _compute_summary_confidence: one official row, matched or not, is enough. *)
SpendConfidence(completeness, records) ==
    CASE completeness = "NONE" -> "NONE"
      [] completeness = "SPARSE" -> "LOW"
      [] completeness = "FULL" /\ \E i \in DOMAIN records : records[i].official -> "HIGH"
      [] OTHER -> "MEDIUM"

(* SpendSummary.  Its sums by period and category, its anomalies and quality *)
(* flags do not reach the profile.                                           *)
Summary(records) ==
    LET matched == Matched(records)
        year == {i \in matched : WithinTheYear(records[i])}
        completeness == Completeness(matched, records)
    IN  [any |-> matched # {}, total |-> Sum(records, matched),
         recent |-> year # {}, ttm |-> Sum(records, year),
         completeness |-> completeness, confidence |-> SpendConfidence(completeness, records),
         rows |-> records # <<>>]

(* Observation: what the rows of this vendor show, as a person counts them.  *)
Seen(records) ==
    LET own == {i \in DOMAIN records : records[i].match # "UNMATCHED" /\ records[i].known}
    IN  [linked |-> Cardinality(own),
         quarters |-> Cardinality({Quarter(records[i]) : i \in own} \ {NoDate}),
         recent |-> \E i \in own : WithinTheYear(records[i]),
         charged |-> \E i \in own : records[i].amount # 0]

(* aggregate_spend; on 29 February there is no day a year ago, and it raises. *)
AggregateSpend ==
    /\ stage = "aggregate"
    /\ IF work.leap_day THEN Fail
       ELSE /\ work' = [summary |-> Summary(work.records), contracts |-> work.contracts,
                        documents |-> work.documents, seen |-> Seen(work.records),
                        leap_day |-> FALSE]
            /\ stage' = "classify"
            /\ UNCHANGED result
    /\ NoFault

Some(contracts, Test(_)) == \E i \in DOMAIN contracts : Test(contracts[i])

(* _detect_contract_coverage: a contract of which little is known covers in  *)
(* part, like one that has expired.                                          *)
Coverage(contracts) ==
    CASE contracts = <<>> -> 0
      [] Some(contracts, LAMBDA c : c.confidence # "LOW" /\ c.expires /\ c.days > 0) -> 200
      [] OTHER -> 100

(* _contract_duration_months.                                                *)
Duration(contracts) ==
    Max({0} \cup {contracts[i].months : i \in {j \in DOMAIN contracts :
                       contracts[j].dated /\ contracts[j].expires /\ contracts[j].days >= 0}})

RenewalUrgent(contracts) ==
    Some(contracts, LAMBDA c : c.expires /\ c.days > 0 /\ c.days <= 90)

(* _check_single_source.                                                     *)
SingleSource(summary, alternatives) == summary.any /\ summary.total # 0 /\ ~alternatives

CategoryScore(category) ==
    CASE category = "strategic" -> 150 [] category = "other" -> 75 [] category = "none" -> 45

(* _score_dependency: spend of 500,000 USD or more counts in full.           *)
DependencyScore(summary, contracts, category, alternatives) ==
    Max({0, (IF summary.recent THEN 50 * Min({summary.ttm, 5}) ELSE 0)
              + Coverage(contracts)
              + (IF SingleSource(summary, alternatives) THEN 150 ELSE 0)
              + (CASE Duration(contracts) > 36 -> 150
                   [] Duration(contracts) \in 12 .. 36 -> 75
                   [] OTHER -> 0)
              + (IF Some(contracts, LAMBDA c : c.renews) THEN 100 ELSE 0)
              + CategoryScore(category)})

(* In the ambiguous band the model is to decide; _llm_classify calls it with *)
(* arguments it does not take, and so PREFERRED is what it always is.        *)
RelationshipType(score, completeness) ==
    IF score \in 350 .. 650 /\ completeness # "NONE" THEN "PREFERRED"
    ELSE CASE score >= 700 -> "STRATEGIC"
           [] score \in 500 .. 699 -> "PREFERRED"
           [] score \in 300 .. 499 -> "TRANSACTIONAL"
           [] OTHER -> "INCIDENTAL"

DependencyTier(score, single) ==
    IF score >= 850 /\ single THEN "CRITICAL"
    ELSE CASE score >= 700 \/ (score >= 600 /\ single) -> "HIGH"
           [] score \in 400 .. 699 /\ ~(score >= 600 /\ single) -> "MEDIUM"
           [] OTHER -> "LOW"

Unclassified == [type |-> "UNKNOWN", tier |-> "none", confidence |-> "LOW", urgent |-> FALSE]

(* classify_relationship.                                                    *)
Classification(summary, contracts, category, alternatives) ==
    LET score == DependencyScore(summary, contracts, category, alternatives)
    IN  IF ~(summary.any /\ summary.total > 0) /\ contracts = <<>> THEN Unclassified
        ELSE [type |-> RelationshipType(score, summary.completeness),
              tier |-> DependencyTier(score, SingleSource(summary, alternatives)),
              confidence |-> IF summary.completeness \in {"FULL", "PARTIAL"} /\ contracts # <<>>
                             THEN "HIGH" ELSE "MEDIUM",
              urgent |-> RenewalUrgent(contracts)]

(* What the workspace knows of the vendor: its category, other vendors.      *)
ClassifyRelationship ==
    /\ stage = "classify"
    /\ \E category \in {"strategic", "other", "none"}, alternatives \in BOOLEAN :
          Produce([class |-> Classification(work.summary, work.contracts, category, alternatives)],
                  "assemble")
    /\ UNCHANGED <<result, faults>>

=============================================================================
