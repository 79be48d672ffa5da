------------------------------ MODULE AnalysisRun ------------------------------
(***************************************************************************)
(* Process 4, run_analysis, for one vendor: the gates, the seven tools, and *)
(* the writes after them, each of which may fail without the result saying  *)
(* so.                                                                      *)
(***************************************************************************)
EXTENDS VendorWorkspace

AnalysisBlocked == {"TRIAGE", "DISCARDED", "FAILED", "BLOCKED", "PENDING"}

(* Its _read_pcs knows the relationship's total only.                        *)
AnalysisPcs(p) == p.relationship.pcs

(* Gates 1 and 2, each with a read of its own: a document that cannot be     *)
(* read for its status is not blocked, one that cannot be read for its part  *)
(* has none.                                                                 *)
StatusAlone(document, consolidated) ==
    HasProfile /\ document.status \notin AnalysisBlocked
Analysable(document, consolidated) ==
    /\ HasProfile
    /\ document.status \notin AnalysisBlocked
    /\ consolidated.relationship # NoRelationship

(* The last gate is not asked when the caller forces the run, as the server  *)
(* does; a result that cannot be read is not fresh.                          *)
AnalysisFresh(a) == a # NoAnalysis /\ ~IsStale(a.day, AnalysisMaxAge)

AnalysisDecision(r, score, document, consolidated, former) ==
    \/ /\ ~Analysable(document, consolidated)
       /\ Give(r, Result("analysis", "BLOCKED", "NONE", 0))
       /\ GoTo(r, "idle")
       /\ pcs_before' = [pcs_before EXCEPT ![r] = 0]
    \/ /\ Analysable(document, consolidated) /\ AnalysisFresh(former)
       /\ Give(r, Result("analysis", "SKIPPED", "NONE", 0))
       /\ GoTo(r, "idle")
       /\ pcs_before' = [pcs_before EXCEPT ![r] = 0]
    \/ /\ Analysable(document, consolidated)
       /\ pcs_before' = [pcs_before EXCEPT ![r] = AnalysisPcs(score)]
       /\ Give(r, NoResult)
       /\ GoTo(r, "analyse")

AnalysisGate(r) ==
    /\ pc[r] = "analysis"
    /\ \E score, document, consolidated \in Readings, former \in {analysis, NoAnalysis} :
        /\ Reads(r, {score, document, consolidated} # {profile} \/ former # analysis)
        /\ AnalysisDecision(r, score, document, consolidated, former)
    /\ UNCHANGED <<files, seen, history_seen, depth, today, starts, crashes, overlapped>>

(* _load_context, whose failed reads leave the tools with an empty context,  *)
(* and the seven tools: the first failure ends the run.                      *)
AnalysisTools(r) ==
    /\ pc[r] = "analyse"
    /\ \/ /\ \E failed \in BOOLEAN : Reads(r, failed)
          /\ GoTo(r, "save_analysis")
          /\ UNCHANGED <<result, pcs_before>>
       \/ /\ AFault
          /\ UNCHANGED misread
          /\ Give(r, Result("analysis", "FAILED", "NONE", pcs_before[r]))
          /\ pcs_before' = [pcs_before EXCEPT ![r] = 0]
          /\ GoTo(r, "idle")
    /\ UNCHANGED <<files, seen, history_seen, depth, today, starts, crashes, overlapped>>

AnalysisTotal(r) == Min2(MaxPcs, pcs_before[r] + 1)

(* _build_analysis_result_md.                                                *)
AnalysisResult(r) == [day |-> today, pcs |-> AnalysisTotal(r)]

(* A score history that cannot be read is begun anew.                        *)
SaveAnalysis(r) ==
    /\ pc[r] = "save_analysis"
    /\ \E runs \in {history, 0} :
        /\ history_seen' = [history_seen EXCEPT ![r] = runs]
        /\ \/ analysis' = AnalysisResult(r) /\ Reads(r, runs # history)
           \/ UNCHANGED analysis /\ AFault /\ Misread(r, runs # history)
    /\ GoTo(r, "save_history")
    /\ UNCHANGED <<profile, history, seen, pcs_before, depth, result, today, starts,
                   crashes, overlapped>>

(* _write_history_files appends the run to what it read; the ledger entry,   *)
(* the triage rows and the log follow, then the result.                      *)
SaveHistory(r) ==
    /\ pc[r] = "save_history"
    /\ \/ history' = history_seen[r] + 1 /\ NoFault
       \/ UNCHANGED history /\ AFault
    /\ history_seen' = [history_seen EXCEPT ![r] = 0]
    /\ pcs_before' = [pcs_before EXCEPT ![r] = 0]
    /\ Give(r, Result("analysis", "COMPLETED", "NONE", AnalysisTotal(r)))
    /\ GoTo(r, "idle")
    /\ UNCHANGED <<profile, analysis, seen, depth, misread, today, starts, crashes, overlapped>>

AnalysisStep(r) ==
    \/ AnalysisGate(r) \/ AnalysisTools(r) \/ SaveAnalysis(r) \/ SaveHistory(r)

=============================================================================
