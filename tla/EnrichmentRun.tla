----------------------------- MODULE EnrichmentRun -----------------------------
(***************************************************************************)
(* Process 2, run_enrichment, for one vendor: the readiness gate, the four  *)
(* tools of the ENRICHMENT workflow, the merge of the profile and the       *)
(* programme's log.  The workflow is linear and is given a new id by every  *)
(* call, so a run that died is never resumed; WorkflowRuntime models the    *)
(* engine, here a workflow either gets to its last tool or fails before.    *)
(***************************************************************************)
EXTENDS VendorWorkspace

Blocked == [proceed |-> FALSE, skip |-> FALSE, depth |-> "PROVISIONAL"]
Skip == [proceed |-> FALSE, skip |-> TRUE, depth |-> "PROVISIONAL"]
Proceed(d) == [proceed |-> TRUE, skip |-> FALSE, depth |-> d]

(* check_enrichment_readiness on the document it found.  A nested document   *)
(* is flattened with status CONFIRMED and no date of its own; a document     *)
(* without a confidence, as analysis_result.md is, is read as confidence 0.  *)
Readiness(file) ==
    IF file = "none" \/ (~profile.built /\ profile.status = "TRIAGE_REQUIRED"
                         /\ file = "profile") THEN Blocked
    ELSE IF file = "profile" /\ profile.last_enriched_at # NoDay
            /\ today < profile.last_enriched_at + EnrichmentMaxAge THEN Skip
    ELSE Proceed(IF file = "profile" /\ profile.confident THEN "STANDARD"
                                                           ELSE "PROVISIONAL")

FoundFiles == IF MarkdownFiles = {} THEN {"none"} ELSE MarkdownFiles

(* The gate and the creation of the workflow.  Only "skip" is looked at: a   *)
(* vendor the gate blocked goes on at PROVISIONAL depth.  The pcs is read on *)
(* its own, and is 0 when that fails; the gate's own read raises.            *)
EnrichmentGate(r) ==
    /\ pc[r] = "enrichment"
    /\ \E document \in Readings :
        /\ pcs_before' = [pcs_before EXCEPT ![r] = document.score]
        /\ \/ \E f \in FoundFiles :
                 /\ depth' = [depth EXCEPT ![r] = Readiness(f).depth]
                 /\ IF Readiness(f).skip
                    THEN /\ Give(r, Result("enrichment", "SKIPPED", "NONE", document.score))
                         /\ GoTo(r, "enrichment_log")
                    ELSE /\ Give(r, NoResult)
                         /\ GoTo(r, "enrich")
                 /\ Reads(r, document # profile)
           \/ /\ AFault      \* unreadable document, or the workflow cannot be saved
              /\ Misread(r, TRUE)
              /\ Give(r, Result("enrichment", "FAILED", "NONE", document.score))
              /\ GoTo(r, "enrichment_log")
              /\ UNCHANGED depth
    /\ UNCHANGED <<files, seen, history_seen, today, starts, crashes, overlapped>>

(* s1 to s3; then create_enriched_profile, up to the read before its write.  *)
(* Without a core field the status is FAILED_ENRICHMENT, and is written.     *)
EnrichmentTools(r) ==
    /\ pc[r] = "enrich"
    /\ \/ /\ ReadProfile(r)
          /\ GoTo(r, "save_enrichment")
          /\ UNCHANGED result
       \/ /\ AFault      \* a tool raises: the engine ends the workflow
          /\ Give(r, Result("enrichment", "FAILED", "NONE", pcs_before[r]))
          /\ GoTo(r, "enrichment_log")
          /\ UNCHANGED <<seen, misread>>
       \/ /\ AFault      \* the profile cannot be built: answered, not raised
          /\ Give(r, Result("enrichment", "COMPLETED", "FAILED_ENRICHMENT", pcs_before[r]))
          /\ GoTo(r, "enrichment_log")
          /\ UNCHANGED <<seen, misread>>
    /\ UNCHANGED <<files, history_seen, pcs_before, depth, today, starts, crashes, overlapped>>

ProfileStatuses(d) ==
    {"PROVISIONAL", "FAILED_ENRICHMENT"}
        \cup (IF d = "PROVISIONAL" THEN {} ELSE {"PARTIALLY_ENRICHED", "ENRICHED"})

(* When the write fails, the change log is to get an ENRICHMENT_FAILURE event.*)
SaveEnrichment(r) ==
    /\ pc[r] = "save_enrichment"
    /\ \/ /\ \E status \in ProfileStatuses(depth[r]) :
                /\ profile' = WithEnrichment(seen[r], status)
                /\ Give(r, Result("enrichment", "COMPLETED", status, pcs_before[r]))
          /\ GoTo(r, "enrichment_log")
          /\ Forget(r)
          /\ NoFault
          /\ UNCHANGED misread
       \/ /\ AFault
          /\ Give(r, Result("enrichment", "COMPLETED", "FAILED_ENRICHMENT", pcs_before[r]))
          /\ GoTo(r, IF HasProfile THEN "save_failure" ELSE "enrichment_log")
          /\ \E document \in Readings :
                seen' = [seen EXCEPT ![r] = document] /\ Misread(r, document # profile)
          /\ UNCHANGED profile
    /\ UNCHANGED <<analysis, history, history_seen, pcs_before, depth, today, starts,
                   crashes, overlapped>>

(* _record_failed_enrichment: errors are swallowed.                          *)
SaveEnrichmentFailure(r) ==
    /\ pc[r] = "save_failure"
    /\ \/ profile' = Logged(seen[r], "ENRICHMENT_FAILURE") /\ NoFault
       \/ UNCHANGED profile /\ AFault
    /\ Forget(r)
    /\ GoTo(r, "enrichment_log")
    /\ UNCHANGED <<analysis, history, history_seen, pcs_before, depth, result, misread, today,
                   starts, crashes, overlapped>>

(* _write_programme_files may raise out of run_enrichment; the batch turns   *)
(* it into a FAILED result, whatever was written.                            *)
EnrichmentLog(r) ==
    /\ pc[r] = "enrichment_log"
    /\ \/ NoFault /\ UNCHANGED result
       \/ AFault /\ Give(r, Result("enrichment", "FAILED", "NONE", 0))
    /\ depth' = [depth EXCEPT ![r] = "PROVISIONAL"]
    /\ GoTo(r, "rs")
    /\ UNCHANGED <<files, seen, history_seen, pcs_before, misread, today, starts, crashes,
                   overlapped>>

EnrichmentStep(r) ==
    \/ EnrichmentGate(r) \/ EnrichmentTools(r) \/ SaveEnrichment(r)
    \/ SaveEnrichmentFailure(r) \/ EnrichmentLog(r)

=============================================================================
