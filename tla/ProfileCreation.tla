---------------------------- MODULE ProfileCreation ----------------------------
(***************************************************************************)
(* enriched_profile_creator: conflicts are settled, gaps and flags found,   *)
(* the profile's confidence, status and score computed, the tasks for human *)
(* triage listed, and the profile written.                                  *)
(***************************************************************************)
EXTENDS AttributeExtraction, LifecycleMapping

(* conflict_lookup: of several conflicts about a field the last one counts.  *)
FirstReported(field) == IF field.conflicts = <<>> THEN "no" ELSE Head(field.conflicts)
SettledBy(field) == IF field.conflicts = <<>> THEN "no" ELSE Last(field.conflicts)

(* _reconcile_conflicts: two registries cannot be told apart; of any other   *)
(* two sources the better one wins, and its value, if any, counts as LOW.    *)
(* The others stay as they are: a field marked CONFLICT of which none is     *)
(* reported, one that is reported but not listed, and lists.                 *)
Unresolved(fields) ==
    {f \in Fields : fields[f].confidence = "CONFLICT" /\ SettledBy(fields[f]) = "registries"}
Settled(fields) ==
    {f \in Fields : fields[f].confidence = "CONFLICT" /\ SettledBy(fields[f]) \in {"others", "signals"}}
Reconciled(fields, winner_has_value) ==
    [f \in Fields |->
        IF f \in Settled(fields)
        THEN [fields[f] EXCEPT !.value = winner_has_value, !.confidence = "LOW"]
        ELSE fields[f]]

(* _apply_inference_rules.                                                   *)
Infer(fields, f, from, known) ==
    IF ~fields[f].value /\ fields[from].value /\ known
    THEN [fields EXCEPT ![f] = [Inferred EXCEPT !.conflicts = fields[f].conflicts]]
    ELSE fields
WithInferences(fields, known_city) ==
    Infer(Infer(fields, "company_size_band", "employee_count_range", TRUE),
          "hq_country", "hq_city", known_city)

(* _classify_gaps.                                                           *)
IsGap(field) == ~field.value \/ field.confidence = "MISSING"
Gaps(fields, among) == {f \in among : IsGap(fields[f])}

Populated(fields) == {f \in CoreFields : fields[f].value}

(* _compute_overall_confidence.                                              *)
OverallConfidence(fields, depth) ==
    LET with(levels) == Cardinality({f \in Populated(fields) : fields[f].confidence \in levels})
        missing == Cardinality(CoreFields \ Populated(fields)) + with({"MISSING"})
        low == with({"LOW", "INFERRED", "CONFLICT"})
    IN  CASE depth = "PROVISIONAL" -> "PROVISIONAL"
          [] depth # "PROVISIONAL" /\ missing = 0 /\ low = 0 -> "HIGH"
          [] depth # "PROVISIONAL" /\ missing + low > 0 /\ missing <= 1 /\ low <= 2 -> "MEDIUM"
          [] OTHER -> "LOW"

(* _classify_profile_status.  WRONG_ENTITY_RISK, LOW_IDENTITY_CONFIDENCE and *)
(* NO_DIGITAL_PRESENCE never are among the flags it looks at.                *)
ProfileStatus(fields, depth, failed) ==
    LET low_core == \E f \in Populated(fields) : fields[f].confidence \in {"LOW", "INFERRED"}
    IN  CASE Populated(fields) = {} -> "FAILED_ENRICHMENT"
          [] Populated(fields) # {}
               /\ (depth = "PROVISIONAL" \/ failed \/ Gaps(fields, BlockingFields) # {})
             -> "PROVISIONAL"
          [] OTHER -> IF low_core \/ Gaps(fields, EnrichmentFields) # {}
                      THEN "PARTIALLY_ENRICHED" ELSE "ENRICHED"

(* _compute_pcs in hundredths; a LOW or inferred field gives half its weight *)
(* (the halves of a hundredth are dropped).                                  *)
Weight == [category |-> 10, hq_country |-> 6, description |-> 6, company_status |-> 5,
           vendor_type |-> 5, company_size_band |-> 4]
FieldScore(f, field) ==
    CASE field.value /\ field.confidence \in {"HIGH", "MEDIUM"} -> Weight[f]
      [] field.value /\ field.confidence \in {"LOW", "INFERRED"} -> Weight[f] \div 2
      [] OTHER -> 0
PcsDelta(fields, parent, lifecycle) ==
    Min({47, FoldSet(LAMBDA f, sum : sum + FieldScore(f, fields[f]), 0, DOMAIN Weight)
               + (IF parent THEN 4 ELSE 0) + (IF lifecycle # {} THEN 3 ELSE 0)
               + (IF fields["lists"].value /\ fields["lists"].confidence # "MISSING" THEN 4 ELSE 0)})

(* _generate_flags, of which only these make tasks.                          *)
ProfileFlags(lifecycle_flags) == lifecycle_flags

(* _generate_triage_tasks: one task per conflict, one of each other kind.    *)
Task(kind) == [kind |-> kind, about |-> "vendor"]
TriageTasks(fields, flags, unresolved) ==
    (IF Gaps(fields, BlockingFields) # {} THEN {Task("BLOCKING_GAP_RESOLUTION")} ELSE {})
      \cup (IF flags # {} THEN {Task("LIFECYCLE_CONFIRMATION")} ELSE {})
      \cup {[kind |-> "UNRESOLVED_CONFLICT", about |-> f] : f \in unresolved}

(* _build_vendor_profile and the result that goes with it, whose tasks the   *)
(* orchestrator appends to the triage queue, unless that is "lost".          *)
EnrichedProfile(fields, lost) ==
    [process |-> "enrichment", written |-> TRUE, fields |-> fields,
     status |-> ProfileStatus(fields, work.depth, work.failed),
     confidence |-> OverallConfidence(fields, work.depth),
     pcs |-> PcsDelta(fields, work.parent, work.lifecycle),
     lost |-> lost,
     tasks |-> Queued(TriageTasks(fields, ProfileFlags(work.lifecycle_flags), Unresolved(work.fields)),
                      lost)]

FailedEnrichment(lost) ==
    [process |-> "enrichment", written |-> FALSE, fields |-> NoFields,
     status |-> "FAILED_ENRICHMENT", confidence |-> "PROVISIONAL", pcs |-> 0,
     lost |-> lost, tasks |-> Queued({Task("FAILED_ENRICHMENT")}, lost)]

(* create_enriched_profile, where a write that fails is answered, and        *)
(* _write_programme_files, where one that fails raises.                      *)
CreateProfile ==
    /\ stage = "create"
    /\ \E lost \in SUBSET {"queue"} :
       \/ /\ \E winner_has_value, known_city \in BOOLEAN :
                Deliver(EnrichedProfile(
                    WithInferences(Reconciled(work.fields, winner_has_value), known_city), lost))
          /\ FaultIf(lost # {})
       \/ Deliver(FailedEnrichment(lost)) /\ AFault
    /\ UNCHANGED work

=============================================================================
