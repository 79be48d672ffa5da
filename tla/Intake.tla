------------------------------- MODULE Intake -------------------------------
(***************************************************************************)
(* run_intake, its checkpoint and its four programme reports, with the     *)
(* process that may die between any two writes and be started again, and   *)
(* with the enrichment of the vendors the register lists.                  *)
(*                                                                         *)
(* A candidate is its comparison_key and the recommendation of the entity  *)
(* resolution.  A vendor is named by the key it was confirmed under.  The  *)
(* lists of the code hold a key at most once in a run (a key that was      *)
(* processed is skipped), so they are sets here.  source_intake, the       *)
(* screening and the resolution never raise: they choose the candidates.   *)
(*                                                                         *)
(* A definition Next does not use, such as TriageAsConfirmed, is the plausible *)
(* mistake in the definition that follows it; the properties refute it.    *)
(***************************************************************************)
EXTENDS Naturals, Sequences, FiniteSets

CONSTANTS
    Keys,           \* the comparison keys
    Sources,        \* the candidate lists steps 1 to 5 may produce
    MaxCrashes,     \* bound: how often the process dies
    MaxFaults       \* bound: how many file writes or agent starts raise

Routes == {"DISCARD", "AUTO_CONFIRM", "INVESTIGATE"}
Candidate == [key : Keys, route : Routes]

ASSUME IntakeAssumption ==
    /\ Sources \subseteq Seq(Candidate) /\ Sources # {}
    /\ MaxCrashes \in Nat /\ MaxFaults \in Nat

ReportOrder ==
    <<"vendor_register", "deduplication_report", "triage_queue", "run_log">>
ReportFiles == {ReportOrder[i] : i \in DOMAIN ReportOrder}

VARIABLES
    checkpointFile, \* checkpoint.json
    reports,        \* the programme report files that exist
    built,          \* the vendors with a {slug}_profile.md
    enriched,       \* the vendors whose profile holds enrichment data
    pc,             \* where run_intake is; "idle" when no call runs
    checkpoint,     \* run_intake's IntakeCheckpoint
    source,         \* resolutions, in order
    index,          \* the loop's position, then the number of reports written
    decisions,      \* confirmed_list, triage_list, discarded_list, blocked_list
    crashes, faults,
    confirmedEver   \* observation: the vendors some run confirmed

disk == <<checkpointFile, reports, built, enriched>>
memory == <<checkpoint, source, index, decisions>>
environment == <<crashes, faults>>
vars == <<disk, pc, memory, environment, confirmedEver>>

-----------------------------------------------------------------------------
(* The data                                                                  *)

Checkpoint == [status : {"NONE", "IN_PROGRESS", "COMPLETED"},
               completed : SUBSET Keys, failed : SUBSET Keys, total : Nat]
NoCheckpoint == [status |-> "NONE", completed |-> {}, failed |-> {}, total |-> 0]

Decisions == [confirmed : SUBSET Keys, triage : SUBSET Keys,
              discarded : SUBSET Keys, blocked : SUBSET Keys]
NoDecisions == [confirmed |-> {}, triage |-> {}, discarded |-> {}, blocked |-> {}]

Processed(c) == c.completed \cup c.failed

CreateAfresh(c) == [NoCheckpoint EXCEPT !.status = "IN_PROGRESS"]
CreateOrResume(c) ==
    IF c.status = "NONE" THEN [NoCheckpoint EXCEPT !.status = "IN_PROGRESS"] ELSE c

WithCompleted(c, k) == [c EXCEPT !.completed = @ \cup {k}]

WithFailed(c, k) == [c EXCEPT !.failed = @ \cup {k}]

(* _route_decision                                                           *)
TriageAsConfirmed(d, k, status) == [d EXCEPT !.confirmed = @ \cup {k}]
ReplaceConfirmed(d, k, status) == [d EXCEPT !.confirmed = {k}]
Routed(d, k, status) ==
    CASE status = "CONFIRMED" -> [d EXCEPT !.confirmed = @ \cup {k}]
      [] status = "TRIAGE_REQUIRED" -> [d EXCEPT !.triage = @ \cup {k}]
      [] status = "DISCARDED" -> [d EXCEPT !.discarded = @ \cup {k}]
      [] status = "BLOCKED" -> [d EXCEPT !.blocked = @ \cup {k}]

(* What the enrichment and all later processes read.                         *)
Register ==
    IF "vendor_register" \in DOMAIN reports
    THEN reports["vendor_register"].confirmed
    ELSE {}

-----------------------------------------------------------------------------

Init ==
    /\ checkpointFile = NoCheckpoint
    /\ reports = [f \in {} |-> NoDecisions]
    /\ built = {} /\ enriched = {}
    /\ pc = "idle"
    /\ checkpoint = NoCheckpoint /\ source = <<>> /\ index = 0
    /\ decisions = NoDecisions
    /\ crashes = 0 /\ faults = 0
    /\ confirmedEver = {}

Running == {"boot", "source", "loop", "built", "save", "report", "final"}

AFault == faults < MaxFaults /\ faults' = faults + 1

(* The candidates of the last run stay known to the properties.              *)
ForgetMemory ==
    /\ checkpoint' = NoCheckpoint /\ index' = 0 /\ decisions' = NoDecisions
    /\ UNCHANGED source

-----------------------------------------------------------------------------
(* The call                                                                  *)

MayStart == pc = "idle" /\ checkpointFile.status # "COMPLETED"

StartIntake ==
    /\ MayStart
    /\ checkpoint' = checkpointFile
    /\ source' = <<>> /\ index' = 0 /\ decisions' = NoDecisions
    /\ pc' = "boot"
    /\ UNCHANGED <<disk, environment, confirmedEver>>

(* A completed checkpoint is trusted: the call returns an empty result.      *)
AlreadyCompleted ==
    /\ pc = "idle"
    /\ checkpointFile.status = "COMPLETED"
    /\ UNCHANGED vars

(* An agent or the workspace directories cannot be created: the outer        *)
(* handler goes on with the reports.                                         *)
BootFails ==
    /\ pc = "boot"
    /\ AFault
    /\ pc' = "report"
    /\ UNCHANGED <<disk, memory, crashes, confirmedEver>>

Boot ==
    /\ pc = "boot"
    /\ checkpoint' = CreateOrResume(checkpoint)
    /\ checkpointFile' = checkpoint'
    /\ pc' = "source"
    /\ UNCHANGED <<reports, built, enriched, source, index, decisions,
                   environment, confirmedEver>>

(* The first save of the checkpoint raises, which is not caught before the   *)
(* outer handler either.                                                     *)
FirstSaveFails ==
    /\ pc = "boot"
    /\ AFault
    /\ checkpoint' = CreateOrResume(checkpoint)
    /\ pc' = "report"
    /\ UNCHANGED <<disk, source, index, decisions, crashes, confirmedEver>>

(* Steps 1 to 5, and the save of the number of candidates.                   *)
PrepareCandidates ==
    /\ pc = "source"
    /\ source' \in Sources
    /\ index' = 1
    /\ checkpoint' = [checkpoint EXCEPT !.total = Len(source')]
    /\ pc' = "loop"
    /\ \/ checkpointFile' = checkpoint' /\ UNCHANGED faults
       \/ UNCHANGED checkpointFile /\ AFault
    /\ UNCHANGED <<reports, built, enriched, decisions, crashes, confirmedEver>>

-----------------------------------------------------------------------------
(* Step 6: one candidate                                                     *)

Key == source[index].key
Route == source[index].route

LoopDoneEarly == index >= Len(source)
LoopDone == index > Len(source)

NeverSkip == FALSE
AlreadyProcessed == Key \in Processed(checkpoint)

SkipCandidate ==
    /\ pc = "loop" /\ ~LoopDone
    /\ AlreadyProcessed
    /\ index' = index + 1
    /\ UNCHANGED <<disk, pc, checkpoint, source, decisions, environment, confirmedEver>>

Fresh == pc = "loop" /\ ~LoopDone /\ ~AlreadyProcessed

(* The decision is in hand: it is routed and the key appended.               *)
Decide(status) ==
    /\ decisions' = Routed(decisions, Key, status)
    /\ checkpoint' = WithCompleted(checkpoint, Key)
    /\ pc' = "save"
    /\ UNCHANGED <<source, index, environment>>

Discard ==
    /\ Fresh
    /\ Route = "DISCARD"
    /\ Decide("DISCARDED")
    /\ UNCHANGED <<disk, confirmedEver>>

(* decide_and_create without a workspace: a validation step asked for triage *)
(* or found fraud, or something raised before the profile was written.       *)
DecideWithoutWorkspace ==
    /\ Fresh
    /\ \/ Route \in {"AUTO_CONFIRM", "INVESTIGATE"} /\ Decide("TRIAGE_REQUIRED")
       \/ Route = "INVESTIGATE" /\ Decide("BLOCKED")
    /\ UNCHANGED <<disk, confirmedEver>>

(* build_workspace writes the whole profile, without enrichment data.        *)
BuildWorkspace ==
    /\ Fresh
    /\ Route \in {"AUTO_CONFIRM", "INVESTIGATE"}
    /\ built' = built \cup {Key}
    /\ enriched' = enriched \ {Key}
    /\ pc' = "built"
    /\ UNCHANGED <<checkpointFile, reports, memory, environment, confirmedEver>>

ConfirmVendor ==
    /\ pc = "built"
    /\ Decide("CONFIRMED")
    /\ confirmedEver' = confirmedEver \cup {Key}
    /\ UNCHANGED disk

(* A later write of build_workspace raised: decide_and_create asks for a     *)
(* human although the profile exists.                                        *)
BuildFails ==
    /\ pc = "built"
    /\ Decide("TRIAGE_REQUIRED")
    /\ UNCHANGED <<disk, confirmedEver>>

(* An exception outside decide_and_create: in the plan or the validation, or *)
(* in finalise_plan after the workspace was built.                           *)
FailCandidate ==
    /\ \/ Fresh /\ Route \in {"AUTO_CONFIRM", "INVESTIGATE"}
       \/ pc = "built" /\ Route = "INVESTIGATE"
    /\ checkpoint' = WithFailed(checkpoint, Key)
    /\ pc' = "save"
    /\ UNCHANGED <<disk, source, index, decisions, environment, confirmedEver>>

(* A failing save is only logged.                                            *)
SaveCheckpoint ==
    /\ pc = "save"
    /\ \/ checkpointFile' = checkpoint /\ UNCHANGED faults
       \/ UNCHANGED checkpointFile /\ AFault
    /\ index' = index + 1
    /\ pc' = "loop"
    /\ UNCHANGED <<reports, built, enriched, checkpoint, source, decisions,
                   crashes, confirmedEver>>

FinishLoop ==
    /\ pc = "loop"
    /\ LoopDone
    /\ index' = 0
    /\ pc' = "report"
    /\ UNCHANGED <<disk, checkpoint, source, decisions, environment, confirmedEver>>

-----------------------------------------------------------------------------
(* Step 7: the reports, then the end of the checkpoint                       *)

KeepOldReport(f) ==
    [g \in DOMAIN reports \cup {f} |-> IF g \in DOMAIN reports THEN reports[g] ELSE decisions]
WithReport(f) == [g \in DOMAIN reports \cup {f} |-> IF g = f THEN decisions ELSE reports[g]]

WriteReport ==
    /\ pc = "report"
    /\ index < Len(ReportOrder)
    /\ reports' = WithReport(ReportOrder[index + 1])
    /\ index' = index + 1
    /\ UNCHANGED <<checkpointFile, built, enriched, pc, checkpoint, source, decisions,
                   environment, confirmedEver>>

(* The first report that cannot be written ends step 7.                      *)
LeaveReports ==
    /\ pc = "report"
    /\ \/ index = Len(ReportOrder) /\ UNCHANGED faults
       \/ index < Len(ReportOrder) /\ AFault
    /\ pc' = "final"
    /\ UNCHANGED <<disk, memory, crashes, confirmedEver>>

NotCompleted == checkpoint
AsCompleted == [checkpoint EXCEPT !.status = "COMPLETED"]

(* Without a checkpoint object (the first boot failed) nothing is saved.     *)
Finalise ==
    /\ pc = "final"
    /\ \/ /\ checkpoint.status # "NONE"
          /\ checkpointFile' = AsCompleted
          /\ UNCHANGED faults
       \/ checkpoint.status = "NONE" /\ UNCHANGED <<checkpointFile, faults>>
       \/ checkpoint.status # "NONE" /\ UNCHANGED checkpointFile /\ AFault
    /\ pc' = "idle"
    /\ ForgetMemory
    /\ UNCHANGED <<reports, built, enriched, crashes, confirmedEver>>

-----------------------------------------------------------------------------
(* The environment                                                           *)

Crash ==
    /\ pc \in Running
    /\ crashes < MaxCrashes
    /\ crashes' = crashes + 1
    /\ pc' = "idle"
    /\ ForgetMemory
    /\ UNCHANGED <<disk, faults, confirmedEver>>

(* write_vendor_profile merges the enrichment of a registered vendor.        *)
EnrichVendor(k) ==
    /\ k \in Register /\ k \in built /\ k \notin enriched
    /\ enriched' = enriched \cup {k}
    /\ UNCHANGED <<checkpointFile, reports, built, pc, memory, environment, confirmedEver>>

RunStep ==
    \/ BootFails \/ Boot \/ FirstSaveFails \/ PrepareCandidates
    \/ SkipCandidate \/ Discard \/ DecideWithoutWorkspace
    \/ BuildWorkspace \/ ConfirmVendor \/ BuildFails \/ FailCandidate
    \/ SaveCheckpoint \/ FinishLoop
    \/ WriteReport \/ LeaveReports \/ Finalise

Next ==
    \/ StartIntake \/ AlreadyCompleted
    \/ RunStep
    \/ Crash
    \/ \E k \in Keys : EnrichVendor(k)

Spec == Init /\ [][Next]_vars

(* A started run goes on unless the process dies, and an interrupted intake  *)
(* is started again.                                                         *)
FairSpec == Spec /\ WF_vars(RunStep) /\ WF_vars(StartIntake)

-----------------------------------------------------------------------------
(* Properties                                                                *)

(* Later processes find a profile for every vendor of the register, whatever *)
(* failed or died on the way.                                                *)
RegisteredHaveProfiles == Register \subseteq built

(* While nothing fails, a completed intake has processed every candidate of  *)
(* the list it was given, across any number of crashes and resumptions.      *)
CompletedCoversSource ==
    checkpointFile.status = "COMPLETED" /\ faults = 0 =>
        \A i \in DOMAIN source : source[i].key \in Processed(checkpointFile)

(* The four reports of a completed intake come from one and the same run,    *)
(* even when an earlier run died between two of them.                        *)
ReportsAgree ==
    checkpointFile.status = "COMPLETED" /\ faults = 0 =>
        /\ DOMAIN reports = ReportFiles
        /\ \A f, g \in ReportFiles : reports[f] = reports[g]

(* vendor_register.md lists all confirmed vendors once the intake is done.   *)
RegisterIsComplete ==
    checkpointFile.status = "COMPLETED" => confirmedEver \subseteq Register

(* It does when the intake was neither interrupted nor hit by a failure.     *)
UninterruptedRegisterIsComplete ==
    crashes = 0 /\ faults = 0 => RegisterIsComplete

(* The numbers of the checkpoint add up (what a test asserts of its lists).  *)
TotalMatches ==
    checkpointFile.status = "COMPLETED" =>
        Cardinality(checkpointFile.completed) + Cardinality(checkpointFile.failed)
            = checkpointFile.total

(* A candidate whose outcome is durable is never worked on again: no second  *)
(* workspace, no second decision, in no later run.                           *)
NoRework ==
    [][ pc = "loop" /\ pc' \in {"built", "save"} =>
            Key \notin Processed(checkpointFile) ]_vars

(* Outcomes in the checkpoint file are never lost.                           *)
CheckpointOnlyGrows ==
    [][ /\ checkpointFile.completed \subseteq checkpointFile'.completed
        /\ checkpointFile.failed \subseteq checkpointFile'.failed ]_vars

(* As long as no write fails, no restart of the intake wipes enrichment data *)
(* out of a profile.                                                         *)
EnrichmentSurvives == [][ faults = 0 => enriched \subseteq enriched' ]_vars

(* An intake that is started again after each interruption completes.        *)
EventuallyCompleted == <>[](pc = "idle" /\ checkpointFile.status = "COMPLETED")

=============================================================================
