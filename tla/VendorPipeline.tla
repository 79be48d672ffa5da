---------------------------- MODULE VendorPipeline ----------------------------
(***************************************************************************)
(* The pipeline of one vendor: run after run of enrichment, relationship    *)
(* and analysis over the same files, days apart or at the same time, with   *)
(* tools, reads and writes that fail and processes that die.  A run that    *)
(* dies leaves its files as they are, and nothing continues it.             *)
(***************************************************************************)
EXTENDS EnrichmentRun, RsRun, AnalysisRun

(* A vendor of the register: as intake built it, in the flat format of an    *)
(* earlier release, or without its document.                                 *)
InitialProfiles ==
    {NoProfile} \cup {BuiltProfile(c) : c \in BOOLEAN}
        \cup {FlatProfile(s, d) : s \in {"CONFIRMED", "TRIAGE_REQUIRED"}, d \in {0, NoDay}}

Init ==
    /\ profile \in InitialProfiles
    /\ analysis = NoAnalysis /\ history = 0
    /\ pc = [r \in Runs |-> "idle"]
    /\ seen = [r \in Runs |-> NoProfile]
    /\ history_seen = [r \in Runs |-> 0]
    /\ pcs_before = [r \in Runs |-> 0]
    /\ depth = [r \in Runs |-> "PROVISIONAL"]
    /\ result = [r \in Runs |-> NoResult]
    /\ misread = [r \in Runs |-> FALSE]
    /\ today = 0 /\ starts = 0 /\ crashes = 0 /\ faults = 0
    /\ overlapped = FALSE

(* A thread of the server, or run.py: nothing keeps two apart.               *)
Start(r) ==
    /\ pc[r] = "idle"
    /\ starts < MaxStarts
    /\ starts' = starts + 1
    /\ overlapped' = (overlapped \/ \E q \in Runs : pc[q] # "idle")
    /\ GoTo(r, "enrichment")
    /\ Give(r, NoResult)
    /\ misread' = [misread EXCEPT ![r] = FALSE]
    /\ UNCHANGED <<files, seen, history_seen, pcs_before, depth, today, crashes, faults>>

NewDay ==
    /\ today < MaxDay
    /\ today' = today + 1
    /\ UNCHANGED <<files, pc, memory, starts, crashes, faults, overlapped>>

(* Every run is a thread of the one process.                                 *)
Crash ==
    /\ crashes < MaxCrashes
    /\ \E r \in Runs : pc[r] # "idle"
    /\ crashes' = crashes + 1
    /\ pc' = [r \in Runs |-> "idle"]
    /\ seen' = [r \in Runs |-> NoProfile]
    /\ history_seen' = [r \in Runs |-> 0]
    /\ pcs_before' = [r \in Runs |-> 0]
    /\ depth' = [r \in Runs |-> "PROVISIONAL"]
    /\ result' = [r \in Runs |-> NoResult]
    /\ misread' = [r \in Runs |-> FALSE]
    /\ UNCHANGED <<files, today, starts, faults, overlapped>>

Step(r) == EnrichmentStep(r) \/ RsStep(r) \/ AnalysisStep(r)

Next ==
    \/ \E r \in Runs : Start(r) \/ Step(r)
    \/ NewDay
    \/ Crash

Spec == Init /\ [][Next]_vars
FairSpec == Spec /\ \A r \in Runs : WF_vars(Step(r))

-----------------------------------------------------------------------------
(* Properties                                                                *)

(* Runs that overlap may lose each other's work, since each writes back what *)
(* it read before the other's write; so may a run that failed to read a file *)
(* on its way, since it takes the file for empty.                            *)
ReadsInTurn ==
    ~overlapped' /\ \A r \in Runs : pc[r] # "idle" => ~misread[r]

(* A run that could read its files and is alone loses no part of another     *)
(* writer, no event of the change log and no run of the history: whatever    *)
(* tools and writes fail, wherever runs die, and also after an earlier run   *)
(* that could not read.                                                      *)
NothingLost ==
    /\ profile.exists => profile'.exists
    /\ profile.enrichment => profile'.enrichment
    /\ profile.relationship # NoRelationship => profile'.relationship # NoRelationship
    /\ \A e \in Events : profile'.change_log[e] >= profile.change_log[e]
    /\ profile'.score = profile.score
    /\ history' >= history

PartsAreKept == [][ReadsInTurn => NothingLost]_vars

(* Such a run replaces a relationship part that is not yet stale only by the *)
(* record of a failed assembly: the gate of run_rs decides from the document *)
(* the run then changes.                                                     *)
FreshRelationshipsStay ==
    [][ReadsInTurn /\ profile'.relationship # profile.relationship
        => \/ IsStale(profile.relationship.day, RsMaxAge)
           \/ profile'.relationship.status = "FAILED"]_vars

(* While runs follow one another, an analysis result is only ever written    *)
(* for a vendor that has a relationship part, whatever failed before, reads  *)
(* included; and unless a read failed, its total counts from that part's.    *)
AnalysisHasItsInputs ==
    [][~overlapped' /\ analysis' # analysis =>
        /\ profile.relationship # NoRelationship
        /\ ReadsInTurn => analysis'.pcs = Min2(MaxPcs, profile.relationship.pcs + 1)]_vars

(* rs_profile_assembler_spec.md on a failed assembly: "pcs_total =           *)
(* current_pcs", "Prior profile content preserved (if it exists)".           *)
FailureKeepsRelationship ==
    [][~overlapped' /\ profile.relationship # NoRelationship
        /\ profile'.relationship # profile.relationship
        /\ profile'.relationship.status = "FAILED"
        => profile'.relationship.pcs = profile.relationship.pcs]_vars

=============================================================================
