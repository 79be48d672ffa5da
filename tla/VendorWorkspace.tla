---------------------------- MODULE VendorWorkspace ----------------------------
(***************************************************************************)
(* The files of one vendor that the enrichment, relationship and analysis   *)
(* orchestrators share, and the memory of the pipeline runs that work on    *)
(* them.  EnrichmentRun, RsRun and AnalysisRun add the steps of the three   *)
(* orchestrators; VendorPipeline composes them.                             *)
(*                                                                         *)
(* The profile is one document with a part per process.  A writer reads the *)
(* document, replaces its own part, appends an event to the change log and  *)
(* writes all of it: "seen" is what it read.  A date is a day; the          *)
(* completeness score (pcs) is counted in steps of one contribution.        *)
(***************************************************************************)
EXTENDS Naturals, FiniteSetsExt

CONSTANTS
    Runs,               \* pipeline threads of the server and the command line
    IntakePcs, MaxPcs,  \* pcs.score as intake wrote it; the cap of 1.0
    EnrichmentMaxAge, RsMaxAge, AnalysisMaxAge,     \* days
    MaxDay, MaxStarts, MaxCrashes, MaxFaults        \* bounds

ASSUME VendorWorkspaceAssumption ==
    /\ IsFiniteSet(Runs)
    /\ {IntakePcs, MaxPcs, EnrichmentMaxAge, RsMaxAge, AnalysisMaxAge} \subseteq Nat
    /\ {MaxDay, MaxStarts, MaxCrashes, MaxFaults} \subseteq Nat
    /\ IntakePcs <= MaxPcs

VARIABLES
    profile,        \* {id}_profile.md
    analysis,       \* analysis_result.md
    history,        \* the number of runs in history/score_history.json
    today,
    pc, seen, history_seen, pcs_before, depth, result,      \* of each run
    misread,        \* observation: the run failed to read a file that exists
    starts, crashes, faults,
    overlapped      \* observation: some run began while another was running

files == <<profile, analysis, history>>
memory == <<seen, history_seen, pcs_before, depth, result, misread>>
environment == <<today, starts, crashes, faults, overlapped>>
vars == <<files, pc, memory, environment>>

Days == 0..MaxDay
NoDay == MaxDay + 1     \* a date that is not there
Events == {"ENRICHMENT_COMPLETED", "ENRICHMENT_FAILURE", "RS_COMPLETED"}
NoRelationship == [version |-> 0, day |-> NoDay, pcs |-> 0, status |-> "NONE"]
NoAnalysis == [day |-> NoDay, pcs |-> 0]

(* What a reader makes of a file that is missing or cannot be parsed: {}.    *)
NoProfile ==
    [exists |-> FALSE, built |-> FALSE, confident |-> FALSE, status |-> "",
     last_enriched_at |-> NoDay, score |-> 0, enrichment |-> FALSE,
     relationship |-> NoRelationship, change_log |-> [e \in Events |-> 0]]

(* build_workspace: the document intake writes for a confirmed vendor.       *)
BuiltProfile(confident) ==
    [NoProfile EXCEPT !.exists = TRUE, !.built = TRUE, !.confident = confident,
                      !.status = "INTAKE_COMPLETED", !.score = IntakePcs]

(* A document of the older, flat format: its status and date are its own.    *)
FlatProfile(status, day) ==
    [NoProfile EXCEPT !.exists = TRUE, !.confident = TRUE, !.status = status,
                      !.last_enriched_at = day]

(* The documents of one vendor directory, in an order the file system gives: *)
(* _find_vendor_file passes over analysis_result.md.                         *)
HasProfile == profile.exists
HasAnalysis == analysis # NoAnalysis
MarkdownFiles ==
    {f \in {"profile", "analysis"} : IF f = "profile" THEN HasProfile ELSE HasAnalysis}

(* is_stale: the age reaches the maximum; a missing date is stale.           *)
IsStale(day, max_age) == day = NoDay \/ today >= day + max_age

(* Results of the three orchestrators, as far as their callers look at them. *)
NoResult == [process |-> "none", status |-> "none", profile_status |-> "NONE", pcs_after |-> 0]
Result(process, status, profile_status, pcs) ==
    [process |-> process, status |-> status, profile_status |-> profile_status,
     pcs_after |-> pcs]

Min2(a, b) == IF a < b THEN a ELSE b

GoTo(r, label) == pc' = [pc EXCEPT ![r] = label]
Give(r, res) == result' = [result EXCEPT ![r] = res]

(* A fault makes one call of a step fail, or several of them.                *)
AFault == faults < MaxFaults /\ faults' = faults + 1
NoFault == UNCHANGED faults

(* read_md, _read_md_frontmatter and _load_history_json answer every error   *)
(* as if the file were empty or not there, and their callers go on.          *)
Readings == {profile, NoProfile}
Misread(r, failed) == misread' = [misread EXCEPT ![r] = @ \/ failed]
Reads(r, failed) == Misread(r, failed) /\ IF failed THEN AFault ELSE NoFault

(* read_md(path) or {}, before the document is changed and written.          *)
ReadProfile(r) ==
    \E document \in Readings :
        /\ seen' = [seen EXCEPT ![r] = document]
        /\ Reads(r, document # profile)
Forget(r) == seen' = [seen EXCEPT ![r] = NoProfile]

Logged(p, event) == [p EXCEPT !.exists = TRUE, !.change_log[event] = @ + 1]

(* write_vendor_profile: the document with the new enrichment part.          *)
WithoutChangeLog(p, status) ==
    [p EXCEPT !.exists = TRUE, !.status = status, !.enrichment = TRUE,
              !.change_log = [e \in Events |-> IF e = "ENRICHMENT_COMPLETED" THEN 1 ELSE 0]]
WithEnrichment(p, status) ==
    [Logged(p, "ENRICHMENT_COMPLETED") EXCEPT !.status = status, !.enrichment = TRUE]

(* write_rs_profile: the document with the new relationship part.            *)
WithRelationship(p, relationship) ==
    [Logged(p, "RS_COMPLETED") EXCEPT !.status = "RS_COMPLETED",
                                      !.relationship = relationship]

=============================================================================
