--------------------------------- MODULE RsRun ---------------------------------
(***************************************************************************)
(* Process 3, run_rs, for one vendor: the gates, the five tools of the      *)
(* relationship and spend workflow, the assembly of the profile with its    *)
(* write, ledger entry and fallback, and the result.                        *)
(***************************************************************************)
EXTENDS VendorWorkspace

Rejected == {"TRIAGE", "TRIAGE_REQUIRED", "BLOCKED", "REJECTED", "UNRESOLVED", ""}

(* _read_pcs: the total of an earlier run if there is one, so a run adds its *)
(* contribution to that of the run before; enrichment's pcs is never read.   *)
ReadPcs(p) == IF p.relationship # NoRelationship THEN p.relationship.pcs ELSE p.score

Confirmed(p) == p.exists /\ p.status \notin Rejected

(* profile_fresh: the date alone counts, also that of a FAILED assembly.     *)
FreshByAnalysis(p) == ~IsStale(analysis.day, RsMaxAge)
Fresh(p) == ~IsStale(p.relationship.day, RsMaxAge)

(* _check_gates, the plan and the saving of the workflow.  Spend data is     *)
(* always there: the pipeline passes a currency as check-in data.            *)
RsDecision(r, score, document, consolidated, failed) ==
    \/ /\ ~Confirmed(document)
       /\ Give(r, Result("rs", "BLOCKED", "NONE", 0))
       /\ GoTo(r, "analysis")
       /\ Reads(r, failed)
    \/ /\ Confirmed(document) /\ Fresh(consolidated)
       /\ Give(r, Result("rs", "SKIPPED", "NONE", 0))
       /\ GoTo(r, "analysis")
       /\ Reads(r, failed)
    \/ /\ Confirmed(document) /\ ~Fresh(consolidated)
       /\ \/ Give(r, NoResult) /\ GoTo(r, "gather") /\ Reads(r, failed)
          \/ /\ AFault
             /\ Misread(r, failed)
             /\ Give(r, Result("rs", "FAILED", "FAILED", ReadPcs(score)))
             /\ GoTo(r, "analysis")

(* The document is read for the score, for the status and for the            *)
(* relationship: when the second read fails the vendor is blocked, when the  *)
(* third fails a fresh part does not count.                                  *)
RsGate(r) ==
    /\ pc[r] = "rs"
    /\ \E score, document, consolidated \in Readings :
        /\ pcs_before' = [pcs_before EXCEPT ![r] = ReadPcs(score)]
        /\ RsDecision(r, score, document, consolidated,
                      {score, document, consolidated} # {profile})
    /\ UNCHANGED <<files, seen, history_seen, depth, today, starts, crashes, overlapped>>

(* s1 to s4, then the part of the assembly before its write: a tool that     *)
(* raises ends the workflow, the assembly falls back to a minimal profile.   *)
(* The version of the part is read apart from the document it goes into.     *)
RsTools(r) ==
    /\ pc[r] = "gather"
    /\ \/ /\ \E prior, document \in Readings :
                /\ seen' = [seen EXCEPT ![r] = [document EXCEPT !.relationship = prior.relationship]]
                /\ Reads(r, {prior, document} # {profile})
          /\ GoTo(r, "save_rs")
          /\ UNCHANGED result
       \/ /\ AFault
          /\ Give(r, Result("rs", "FAILED", "FAILED", pcs_before[r]))
          /\ GoTo(r, "analysis")
          /\ UNCHANGED <<seen, misread>>
       \/ GoTo(r, "minimal") /\ AFault /\ UNCHANGED <<seen, result, misread>>
    /\ UNCHANGED <<files, history_seen, pcs_before, depth, today, starts, crashes, overlapped>>

(* The contribution of a run is none or one step.                            *)
Assembled(r, contribution) ==
    [version |-> seen[r].relationship.version + 1, day |-> today,
     pcs |-> Min2(MaxPcs, pcs_before[r] + contribution), status |-> "ASSEMBLED"]

SaveRs(r) ==
    /\ pc[r] = "save_rs"
    /\ \/ /\ \E c \in {0, 1} :
                /\ profile' = WithRelationship(seen[r], Assembled(r, c))
                /\ Give(r, Result("rs", "COMPLETED", "ASSEMBLED", Assembled(r, c).pcs))
          /\ GoTo(r, "rs_ledger")
          /\ NoFault
       \/ UNCHANGED <<profile, result>> /\ GoTo(r, "minimal") /\ AFault
    /\ Forget(r)
    /\ UNCHANGED <<analysis, history, history_seen, pcs_before, depth, misread, today, starts,
                   crashes, overlapped>>

(* append_md wraps the errors of opening and writing in LedgerWriteError,    *)
(* which fails the step; those of making the directory it does not wrap, and *)
(* the assembly takes them for its own.                                      *)
RsLedger(r) ==
    /\ pc[r] = "rs_ledger"
    /\ \/ GoTo(r, "analysis") /\ NoFault /\ UNCHANGED result
       \/ /\ AFault
          /\ Give(r, Result("rs", "FAILED", "FAILED", pcs_before[r]))
          /\ GoTo(r, "analysis")
       \/ GoTo(r, "minimal") /\ AFault /\ UNCHANGED result
    /\ UNCHANGED <<files, seen, history_seen, pcs_before, depth, misread, today, starts, crashes,
                   overlapped>>

(* _write_minimal_failed_profile replaces the part on file; the result tells *)
(* of the pcs before.                                                        *)
Minimal == [version |-> 1, day |-> today, pcs |-> 0, status |-> "FAILED"]

ReadForMinimal(r) ==
    /\ pc[r] = "minimal"
    /\ ReadProfile(r)
    /\ GoTo(r, "save_minimal")
    /\ UNCHANGED <<files, history_seen, pcs_before, depth, result, today, starts, crashes,
                   overlapped>>

SaveMinimal(r) ==
    /\ pc[r] = "save_minimal"
    /\ \/ profile' = WithRelationship(seen[r], Minimal) /\ NoFault
       \/ UNCHANGED profile /\ AFault
    /\ Forget(r)
    /\ Give(r, Result("rs", "COMPLETED", "FAILED", pcs_before[r]))
    /\ GoTo(r, "analysis")
    /\ UNCHANGED <<analysis, history, history_seen, pcs_before, depth, misread, today, starts,
                   crashes, overlapped>>

RsStep(r) ==
    \/ RsGate(r) \/ RsTools(r) \/ SaveRs(r) \/ RsLedger(r)
    \/ ReadForMinimal(r) \/ SaveMinimal(r)

=============================================================================
