------------------------------ MODULE RsAssembly ------------------------------
(***************************************************************************)
(* rs_profile_assembler: gaps, flags, score and status of the relationship  *)
(* part of a profile, and what the orchestrator asks a human to look at.    *)
(* What becomes of the files is VendorPipeline's.                           *)
(***************************************************************************)
EXTENDS SpendClassification

(* analyse_gaps of the required fields.  Nothing is stale or of low          *)
(* confidence there: the profile is dated now and its fields are plain.      *)
Missing(summary, class) == ~summary.recent \/ class.type = "UNKNOWN" \/ class.tier = "none"
GapSeverity(summary, class) ==
    CASE ~Missing(summary, class) -> "NONE"
      [] Missing(summary, class) /\ summary.completeness = "NONE" -> "CRITICAL"
      [] OTHER -> "MAJOR"

ContractSum(contracts) ==
    FoldSeq(LAMBDA c, sum : sum + c.value, 0, SelectSeq(contracts, LAMBDA c : c.valued))
Priced(contracts) == Some(contracts, LAMBDA c : c.valued)

(* A fifth more, or less, was spent than the contracts are worth.            *)
Deviates(summary, contracts) ==
    LET worth == ContractSum(contracts)
    IN  summary.any /\ worth > 0 /\ 5 * (summary.total - worth) \notin -worth .. worth

(* _reconcile_conflicts.                                                     *)
DoubtWithoutRows(summary) == summary.confidence = "NONE"
Doubtful(summary) == summary.confidence \in {"LOW", "NONE"} /\ summary.rows
RsFlags(summary, contracts, class) ==
    {f \in {"CONTRACT_DEVIATION", "UNCOVERED_SPEND", "SPEND_BELOW_CONTRACT",
            "CLASSIFICATION_INCOMPLETE", "CONTRACT_RENEWAL_URGENT", "LOW_DATA_CONFIDENCE"} :
        CASE f = "CONTRACT_DEVIATION" -> Deviates(summary, contracts)
          [] f = "UNCOVERED_SPEND" -> summary.rows /\ contracts = <<>>
          [] f = "SPEND_BELOW_CONTRACT" ->
                Priced(contracts) /\ ~(summary.any /\ summary.total # 0)
          [] f = "CLASSIFICATION_INCOMPLETE" -> class.type = "UNKNOWN"
          [] f = "CONTRACT_RENEWAL_URGENT" -> class.urgent
          [] f = "LOW_DATA_CONFIDENCE" -> Doubtful(summary)}

(* _compute_pcs_contribution, in hundredths.                                 *)
RsContribution(summary, contracts, class) ==
    (CASE summary.completeness = "FULL" -> 10
       [] summary.completeness \in {"PARTIAL", "SPARSE"} -> 6
       [] summary.completeness = "NONE" -> 0)
      + (IF Some(contracts, LAMBDA c : c.valued \/ c.dated) THEN 5 ELSE 0)
      + (IF class.type # "UNKNOWN" THEN 3 ELSE 0)
      + (IF class.confidence = "HIGH" THEN 2 ELSE 0)

(* _classify_profile_status.                                                 *)
RsStatus(summary, class) ==
    CASE summary.completeness = "FULL" /\ class.type # "UNKNOWN"
           /\ GapSeverity(summary, class) = "NONE" -> "COMPLETE"
      [] summary.completeness = "NONE" -> "MINIMAL"
      [] summary.completeness \in {"PARTIAL", "SPARSE"} -> "PARTIAL"
      [] OTHER -> "MINIMAL"

(* run_rs reports the flags of the profile; but if the vendor's ledger could *)
(* not be written, after the profile was, it reports a failure without any.  *)
Reported(flags, lost) == IF "ledger" \in lost THEN {} ELSE flags

(* _update_programme_logs: the flags that put a vendor on the triage queue.  *)
RsTriage(flags) == flags \cap {"CLASSIFICATION_INCOMPLETE", "PROFILE_ASSEMBLY_FAILED"}

(* The profile that was written, and what became of the tasks.               *)
RsDocument(status, flags, class, pcs, lost) ==
    [process |-> "rs", status |-> status, flags |-> flags, class |-> class, pcs |-> pcs,
     lost |-> lost, tasks |-> Queued(RsTriage(Reported(flags, lost)), lost)]

(* assemble_rs_profile: if anything in it but the ledger's entry fails, a    *)
(* profile that says so; and _update_programme_logs, where a failing entry   *)
(* in the queue is only logged.                                              *)
AssembleProfile ==
    /\ stage = "assemble"
    /\ \E lost \in SUBSET {"ledger", "queue"} :
       \/ /\ LET summary == work.summary  contracts == work.contracts  class == work.class
             IN  Deliver(RsDocument(RsStatus(summary, class), RsFlags(summary, contracts, class),
                                    class, RsContribution(summary, contracts, class), lost))
          /\ FaultIf(lost # {})
       \/ /\ "ledger" \notin lost
          /\ Deliver(RsDocument("FAILED", {"PROFILE_ASSEMBLY_FAILED"}, work.class, 0, lost))
          /\ AFault
    /\ UNCHANGED work

=============================================================================
