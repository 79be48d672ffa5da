------------------------------ MODULE IntakeProofs ------------------------------
(* Theorems about Intake for every set of keys, every candidate lists and    *)
(* every number of crashes and failures.                                     *)
EXTENDS Intake, TLAPS

-----------------------------------------------------------------------------
(* The inductive invariant                                                   *)

Looping == {"loop", "built", "save"}
Reporting == {"report", "final"}

TypeOK ==
    /\ checkpointFile \in Checkpoint /\ checkpoint \in Checkpoint
    /\ DOMAIN reports \subseteq ReportFiles
    /\ \A f \in DOMAIN reports : reports[f] \in Decisions
    /\ built \subseteq Keys /\ enriched \subseteq Keys
    /\ pc \in {"idle"} \cup Running
    /\ source \in Seq(Candidate)
    /\ index \in Nat
    /\ decisions \in Decisions
    /\ crashes \in Nat /\ faults \in Nat
    /\ confirmedEver \subseteq Keys

Positions ==
    /\ pc \in {"boot", "source"} => index = 0
    /\ pc = "loop" => index \in 1..(Len(source) + 1)
    /\ pc \in {"built", "save"} => index \in 1..Len(source)
    /\ pc = "report" => index \in 0..Len(ReportOrder)

(* A checkpoint says nothing before it is created, a completed one starts no *)
(* run, and the one in memory holds at least what the file holds.  As long   *)
(* as no write failed the two differ only on the way to the next save.       *)
CheckpointsAgree ==
    /\ checkpointFile.status = "NONE" => Processed(checkpointFile) = {}
    /\ pc \in Running => /\ checkpointFile.status # "COMPLETED"
                         /\ checkpointFile.completed \subseteq checkpoint.completed
                         /\ checkpointFile.failed \subseteq checkpoint.failed
    /\ pc = "boot" => checkpoint = checkpointFile
    /\ pc \in {"source"} \cup Looping => checkpoint.status = "IN_PROGRESS"
    /\ faults = 0 /\ pc \in Reporting => checkpoint.status = "IN_PROGRESS"
    /\ faults = 0 /\ pc \in Running \ {"save"} => checkpoint = checkpointFile

(* The profile is written before anything names its vendor.                  *)
ProfilesComeFirst ==
    /\ decisions.confirmed \subseteq built
    /\ pc = "built" => Key \in built
    /\ \A f \in DOMAIN reports : reports[f].confirmed \subseteq built

(* The candidates before the loop's position are processed.                  *)
LoopCovers ==
    /\ pc \in Looping =>
         \A i \in DOMAIN source : i < index => source[i].key \in Processed(checkpoint)
    /\ pc = "save" => Key \in Processed(checkpoint)
    /\ faults = 0 /\ pc \in Reporting =>
         \A i \in DOMAIN source : source[i].key \in Processed(checkpoint)

(* The reports written so far are those of the run.                          *)
ReportsInStep ==
    /\ pc = "report" => \A i \in 1..index : /\ ReportOrder[i] \in DOMAIN reports
                                           /\ reports[ReportOrder[i]] = decisions
    /\ faults = 0 /\ pc = "final" => /\ DOMAIN reports = ReportFiles
                                     /\ \A f \in ReportFiles : reports[f] = decisions

(* Without failing writes what a report or a profile got from an intake is   *)
(* in the checkpoint file, so that no later run takes it up again.           *)
ConfirmedAreDurable ==
    /\ pc \in Running => decisions.confirmed \subseteq checkpoint.completed
    /\ faults = 0 => /\ \A f \in DOMAIN reports :
                          reports[f].confirmed \subseteq checkpointFile.completed
                     /\ enriched \subseteq checkpointFile.completed

(* A first run that nothing disturbs still holds all it confirmed.           *)
UndisturbedRun ==
    crashes = 0 /\ faults = 0 =>
        /\ pc \in Running => confirmedEver \subseteq decisions.confirmed
        /\ pc = "idle" /\ checkpointFile.status # "COMPLETED" => confirmedEver = {}

IInv ==
    /\ TypeOK /\ Positions /\ CheckpointsAgree /\ ProfilesComeFirst /\ LoopCovers
    /\ ReportsInStep /\ ConfirmedAreDurable /\ UndisturbedRun
    /\ CompletedCoversSource /\ ReportsAgree /\ UninterruptedRegisterIsComplete

-----------------------------------------------------------------------------
(* The operators on checkpoints, decisions and reports                       *)

LEMMA CheckpointOperators ==
  ASSUME NEW c \in Checkpoint, NEW k \in Keys
  PROVE  /\ CreateOrResume(c) \in Checkpoint
         /\ WithCompleted(c, k) \in Checkpoint
         /\ WithCompleted(c, k).status = c.status
         /\ WithCompleted(c, k).completed = c.completed \cup {k}
         /\ WithCompleted(c, k).failed = c.failed
         /\ WithFailed(c, k) \in Checkpoint
         /\ WithFailed(c, k).status = c.status
         /\ WithFailed(c, k).completed = c.completed
         /\ WithFailed(c, k).failed = c.failed \cup {k}
BY DEF Checkpoint, NoCheckpoint, CreateOrResume, WithCompleted, WithFailed

(* A checkpoint that is created is empty, one that is resumed stays.         *)
LEMMA CreatedOrResumed ==
  ASSUME NEW c \in Checkpoint, c.status # "COMPLETED",
         c.status = "NONE" => Processed(c) = {}
  PROVE  /\ CreateOrResume(c) \in Checkpoint
         /\ CreateOrResume(c).status = "IN_PROGRESS"
         /\ c.completed \subseteq CreateOrResume(c).completed
         /\ c.failed \subseteq CreateOrResume(c).failed
BY DEF Checkpoint, NoCheckpoint, CreateOrResume, Processed

Outcomes == {"CONFIRMED", "TRIAGE_REQUIRED", "DISCARDED", "BLOCKED"}

LEMMA RoutedFacts ==
  ASSUME NEW d \in Decisions, NEW k \in Keys, NEW outcome \in Outcomes
  PROVE  /\ Routed(d, k, outcome) \in Decisions
         /\ d.confirmed \subseteq Routed(d, k, outcome).confirmed
         /\ Routed(d, k, outcome).confirmed \subseteq d.confirmed \cup {k}
         /\ outcome = "CONFIRMED" => k \in Routed(d, k, outcome).confirmed
         /\ outcome # "CONFIRMED" => Routed(d, k, outcome).confirmed = d.confirmed
<1>1. CASE outcome = "CONFIRMED"
  BY <1>1 DEF Decisions, Routed
<1>2. CASE outcome = "TRIAGE_REQUIRED"
  BY <1>2 DEF Decisions, Routed
<1>3. CASE outcome = "DISCARDED"
  BY <1>3 DEF Decisions, Routed
<1>4. CASE outcome = "BLOCKED"
  BY <1>4 DEF Decisions, Routed
<1>. QED  BY <1>1, <1>2, <1>3, <1>4 DEF Outcomes

LEMMA FourReports ==
  /\ Len(ReportOrder) = 4 /\ DOMAIN ReportOrder = 1..4
  /\ ReportFiles = {ReportOrder[i] : i \in 1..4}
  /\ "vendor_register" \in ReportFiles
BY DEF ReportOrder, ReportFiles

LEMMA CandidateOfLoop ==
  ASSUME TypeOK, index \in 1..Len(source)
  PROVE  index \in DOMAIN source /\ Key \in Keys /\ Route \in Routes
<1>1. source[index] \in Candidate
  BY DEF TypeOK
<1>. QED  BY <1>1 DEF TypeOK, Key, Route, Candidate

-----------------------------------------------------------------------------
(* The steps                                                                 *)

LEMMA InitialStates == Init => IInv
<1>. SUFFICES ASSUME Init PROVE IInv
  OBVIOUS
<1>. USE DEF Init, NoCheckpoint, NoDecisions
<1>1. TypeOK
  BY DEF TypeOK, Checkpoint, Decisions, Running
<1>2. Positions /\ CheckpointsAgree
  BY DEF Positions, CheckpointsAgree, Processed, Running, Looping, Reporting
<1>3. ProfilesComeFirst /\ LoopCovers /\ ReportsInStep /\ ConfirmedAreDurable /\ UndisturbedRun
  BY DEF ProfilesComeFirst, LoopCovers, ReportsInStep, ConfirmedAreDurable, UndisturbedRun,
         Running, Looping, Reporting
<1>4. CompletedCoversSource /\ ReportsAgree /\ UninterruptedRegisterIsComplete
  BY DEF CompletedCoversSource, ReportsAgree, UninterruptedRegisterIsComplete, RegisterIsComplete
<1>. QED  BY <1>1, <1>2, <1>3, <1>4 DEF IInv

(* While a run goes on the checkpoint is not completed, so that what is said *)
(* about completed ones is said about the idle state.                        *)
LEMMA NotCompletedYet ==
  ASSUME checkpointFile.status # "COMPLETED"
  PROVE  CompletedCoversSource /\ ReportsAgree /\ UninterruptedRegisterIsComplete
BY DEF CompletedCoversSource, ReportsAgree, UninterruptedRegisterIsComplete, RegisterIsComplete

LEMMA NotCompletedNext ==
  ASSUME checkpointFile'.status # "COMPLETED"
  PROVE  CompletedCoversSource' /\ ReportsAgree' /\ UninterruptedRegisterIsComplete'
BY DEF CompletedCoversSource, ReportsAgree, UninterruptedRegisterIsComplete, RegisterIsComplete

LEMMA StartIntakeStep ==
  ASSUME IInv, StartIntake
  PROVE  IInv'
<1>. USE DEF IInv, StartIntake, MayStart, disk, environment, NoDecisions
<1>1. TypeOK'
  BY DEF TypeOK, Decisions, Running
<1>2. Positions' /\ CheckpointsAgree'
  BY DEF Positions, CheckpointsAgree, Processed, Running, Looping, Reporting
<1>3. ProfilesComeFirst' /\ LoopCovers'
  BY DEF ProfilesComeFirst, LoopCovers, Looping, Reporting
<1>4. ReportsInStep' /\ ConfirmedAreDurable' /\ UndisturbedRun'
  BY DEF ReportsInStep, ConfirmedAreDurable, UndisturbedRun, Running, Looping, Reporting
<1>. QED  BY <1>1, <1>2, <1>3, <1>4, NotCompletedNext

LEMMA BootFailsStep ==
  ASSUME IInv, BootFails
  PROVE  IInv'
<1>. USE DEF IInv, BootFails, AFault, disk, memory
<1>1. TypeOK' /\ faults' # 0
  BY DEF TypeOK, Running
<1>2. Positions' /\ CheckpointsAgree'
  BY <1>1, FourReports DEF Positions, CheckpointsAgree, Processed, Running, Looping, Reporting
<1>3. ProfilesComeFirst' /\ LoopCovers'
  BY <1>1 DEF ProfilesComeFirst, LoopCovers, Looping, Reporting
<1>4. ReportsInStep' /\ ConfirmedAreDurable' /\ UndisturbedRun'
  BY <1>1 DEF Positions, ReportsInStep, ConfirmedAreDurable, UndisturbedRun, Running
<1>5. checkpointFile'.status # "COMPLETED"
  BY DEF CheckpointsAgree, Running
<1>. QED  BY <1>1, <1>2, <1>3, <1>4, <1>5, NotCompletedNext

LEMMA BootStep ==
  ASSUME IInv, Boot \/ FirstSaveFails
  PROVE  IInv'
<1>. USE DEF IInv, AFault, disk
<1>1. /\ pc = "boot" /\ index = 0 /\ index' = 0 /\ checkpoint = checkpointFile
      /\ checkpointFile \in Checkpoint /\ checkpointFile.status # "COMPLETED"
      /\ checkpoint' = CreateOrResume(checkpointFile) /\ decisions' = decisions
  BY DEF Boot, FirstSaveFails, Positions, CheckpointsAgree, Running, TypeOK
<1>2. /\ checkpoint' \in Checkpoint /\ checkpoint'.status = "IN_PROGRESS"
      /\ checkpointFile.completed \subseteq checkpoint'.completed
      /\ checkpointFile.failed \subseteq checkpoint'.failed
  BY <1>1, CreatedOrResumed DEF CheckpointsAgree
<1>3. \/ pc' = "source" /\ checkpointFile' = checkpoint' /\ faults' = faults
      \/ pc' = "report" /\ checkpointFile' = checkpointFile /\ faults' # 0 /\ faults' \in Nat
  BY DEF Boot, FirstSaveFails, environment, TypeOK
<1>4. UNCHANGED <<reports, built, enriched, source, decisions, crashes, confirmedEver>>
  BY DEF Boot, FirstSaveFails, environment
<1>5. TypeOK'
  BY <1>1, <1>2, <1>3, <1>4 DEF TypeOK, Running
<1>6. Positions' /\ CheckpointsAgree'
  BY <1>1, <1>2, <1>3, FourReports DEF Positions, CheckpointsAgree, Running, Looping, Reporting
<1>7. ProfilesComeFirst' /\ LoopCovers'
  BY <1>1, <1>3, <1>4 DEF ProfilesComeFirst, LoopCovers, Looping, Reporting
<1>8. ReportsInStep' /\ ConfirmedAreDurable' /\ UndisturbedRun'
  BY <1>1, <1>2, <1>3, <1>4 DEF ReportsInStep, ConfirmedAreDurable, UndisturbedRun, Running
<1>9. checkpointFile'.status # "COMPLETED"
  BY <1>1, <1>2, <1>3
<1>. QED  BY <1>5, <1>6, <1>7, <1>8, <1>9, NotCompletedNext

LEMMA PrepareCandidatesStep ==
  ASSUME IInv, PrepareCandidates
  PROVE  IInv'
<1>. USE DEF IInv, PrepareCandidates, AFault
<1>1. /\ source' \in Seq(Candidate) /\ Len(source') \in Nat
      /\ checkpoint.status = "IN_PROGRESS" /\ checkpoint \in Checkpoint
      /\ checkpointFile.status # "COMPLETED"
      /\ checkpointFile.completed \subseteq checkpoint.completed
      /\ checkpointFile.failed \subseteq checkpoint.failed
  BY IntakeAssumption DEF CheckpointsAgree, Running, TypeOK
<1>2. /\ checkpoint' \in Checkpoint /\ checkpoint'.status = "IN_PROGRESS"
      /\ checkpoint'.completed = checkpoint.completed
      /\ checkpoint'.failed = checkpoint.failed
  BY <1>1 DEF Checkpoint
<1>3. \/ checkpointFile' = checkpoint' /\ faults' = faults
      \/ checkpointFile' = checkpointFile /\ faults' # 0 /\ faults' \in Nat
  BY DEF TypeOK
<1>4. TypeOK'
  BY <1>1, <1>2, <1>3 DEF TypeOK, Running
<1>5. Positions' /\ CheckpointsAgree'
  <2>1. Positions'
    BY <1>1 DEF Positions
  <2>2. CASE checkpointFile' = checkpoint' /\ faults' = faults
    BY <1>1, <1>2, <2>1, <2>2 DEF CheckpointsAgree, Running, Looping, Reporting
  <2>3. CASE checkpointFile' = checkpointFile /\ faults' # 0
    BY <1>1, <1>2, <2>1, <2>3 DEF CheckpointsAgree, Processed, Running, Looping, Reporting
  <2>. QED  BY <1>3, <2>2, <2>3
<1>6. ProfilesComeFirst' /\ LoopCovers'
  BY <1>1 DEF ProfilesComeFirst, LoopCovers, Looping, Reporting
<1>7. ReportsInStep' /\ ConfirmedAreDurable' /\ UndisturbedRun'
  BY <1>1, <1>2, <1>3 DEF ReportsInStep, ConfirmedAreDurable, UndisturbedRun, Running
<1>8. checkpointFile'.status # "COMPLETED"
  BY <1>1, <1>2, <1>3
<1>. QED  BY <1>4, <1>5, <1>6, <1>7, <1>8, NotCompletedNext

LEMMA SkipCandidateStep ==
  ASSUME IInv, SkipCandidate
  PROVE  IInv'
<1>. USE DEF IInv, SkipCandidate, LoopDone, disk, environment
<1>1. Len(source) \in Nat /\ index \in 1..Len(source) /\ DOMAIN source = 1..Len(source)
  BY DEF TypeOK, Positions
<1>2. TypeOK'
  BY DEF TypeOK
<1>3. Positions' /\ CheckpointsAgree'
  BY <1>1 DEF Positions, CheckpointsAgree, Running, Looping, Reporting, Processed
<1>4. ProfilesComeFirst'
  BY DEF ProfilesComeFirst
<1>5. LoopCovers'
  <2>. SUFFICES ASSUME NEW i \in DOMAIN source, i < index + 1
                PROVE  source[i].key \in Processed(checkpoint)
    BY DEF LoopCovers, Looping, Reporting
  <2>1. i < index \/ i = index
    BY <1>1
  <2>. QED  BY <2>1 DEF LoopCovers, Looping, AlreadyProcessed, Key
<1>6. ReportsInStep' /\ ConfirmedAreDurable' /\ UndisturbedRun'
  BY DEF ReportsInStep, ConfirmedAreDurable, UndisturbedRun, Running
<1>7. checkpointFile'.status # "COMPLETED"
  BY DEF CheckpointsAgree, Running
<1>. QED  BY <1>2, <1>3, <1>4, <1>5, <1>6, <1>7, NotCompletedNext

(* A decision on the candidate at the loop's position: of all steps that end *)
(* in Decide only ConfirmVendor confirms.                                    *)
LEMMA DecideStep ==
  ASSUME IInv, index \in 1..Len(source), NEW outcome \in Outcomes, Decide(outcome), UNCHANGED disk,
         \/ pc = "loop" /\ outcome # "CONFIRMED" /\ confirmedEver' = confirmedEver
         \/ pc = "built" /\ outcome # "CONFIRMED" /\ confirmedEver' = confirmedEver
         \/ pc = "built" /\ outcome = "CONFIRMED" /\ confirmedEver' = confirmedEver \cup {Key}
  PROVE  IInv'
<1>. USE DEF IInv, Decide, disk, environment
<1>1. Key \in Keys /\ checkpoint \in Checkpoint /\ decisions \in Decisions /\ pc \in Looping
  BY CandidateOfLoop DEF TypeOK, Looping
<1>2. /\ checkpoint' \in Checkpoint /\ checkpoint'.status = checkpoint.status
      /\ checkpoint'.completed = checkpoint.completed \cup {Key}
      /\ checkpoint'.failed = checkpoint.failed
  BY <1>1, CheckpointOperators
<1>3. /\ decisions' \in Decisions /\ decisions.confirmed \subseteq decisions'.confirmed
      /\ decisions'.confirmed \subseteq decisions.confirmed \cup {Key}
      /\ outcome = "CONFIRMED" => Key \in decisions'.confirmed
      /\ outcome # "CONFIRMED" => decisions'.confirmed = decisions.confirmed
  BY <1>1, RoutedFacts
<1>4. pc' = "save" /\ Key' = Key /\ source' = source /\ index' = index
  BY DEF Key
<1>5. TypeOK'
  BY <1>1, <1>2, <1>3 DEF TypeOK, Running
<1>6. Positions'
  BY DEF Positions
<1>7. CheckpointsAgree'
  BY <1>1, <1>2, <1>4 DEF CheckpointsAgree, Running, Looping, Reporting, Processed
<1>8. ProfilesComeFirst'
  BY <1>3, <1>4 DEF ProfilesComeFirst
<1>9. LoopCovers'
  BY <1>1, <1>2, <1>4 DEF LoopCovers, Looping, Reporting, Processed
<1>10. ReportsInStep'
  BY <1>4 DEF ReportsInStep
<1>11. ConfirmedAreDurable' /\ UndisturbedRun'
  BY <1>1, <1>2, <1>3, <1>4 DEF ConfirmedAreDurable, UndisturbedRun, Running, Looping
<1>12. checkpointFile'.status # "COMPLETED"
  BY <1>1 DEF CheckpointsAgree, Running, Looping
<1>. QED  BY <1>5, <1>6, <1>7, <1>8, <1>9, <1>10, <1>11, <1>12, NotCompletedNext

LEMMA DecidingSteps ==
  ASSUME IInv, Discard \/ DecideWithoutWorkspace \/ ConfirmVendor \/ BuildFails
  PROVE  IInv'
<1>1. index \in 1..Len(source)
  BY DEF IInv, TypeOK, Positions, Discard, DecideWithoutWorkspace, Fresh, LoopDone, ConfirmVendor,
         BuildFails
<1>. QED
  BY <1>1, DecideStep DEF Discard, DecideWithoutWorkspace, ConfirmVendor, BuildFails, Fresh, Outcomes

LEMMA BuildWorkspaceStep ==
  ASSUME IInv, BuildWorkspace
  PROVE  IInv'
<1>. USE DEF IInv, BuildWorkspace, Fresh, LoopDone, memory, environment
<1>1. /\ Len(source) \in Nat /\ index \in 1..Len(source) /\ Key \in Keys /\ Key' = Key
      /\ built' = built \cup {Key}
  BY CandidateOfLoop DEF TypeOK, Positions, Key
<1>2. TypeOK'
  BY <1>1 DEF TypeOK, Running
<1>3. Positions' /\ CheckpointsAgree'
  BY <1>1 DEF Positions, CheckpointsAgree, Running, Looping, Reporting, Processed
<1>4. ProfilesComeFirst'
  BY <1>1 DEF ProfilesComeFirst
<1>5. LoopCovers' /\ ReportsInStep' /\ ConfirmedAreDurable' /\ UndisturbedRun'
  BY DEF LoopCovers, ReportsInStep, ConfirmedAreDurable, UndisturbedRun, Running, Looping, Reporting
<1>6. checkpointFile'.status # "COMPLETED"
  BY DEF CheckpointsAgree, Running
<1>. QED  BY <1>2, <1>3, <1>4, <1>5, <1>6, NotCompletedNext

LEMMA FailCandidateStep ==
  ASSUME IInv, FailCandidate
  PROVE  IInv'
<1>. USE DEF IInv, FailCandidate, Fresh, LoopDone, disk, environment
<1>1. /\ index \in 1..Len(source) /\ Key \in Keys /\ Key' = Key /\ pc \in {"loop", "built"}
      /\ checkpoint \in Checkpoint
  BY CandidateOfLoop DEF TypeOK, Positions, Key
<1>2. /\ checkpoint' \in Checkpoint /\ checkpoint'.status = checkpoint.status
      /\ checkpoint'.completed = checkpoint.completed
      /\ checkpoint'.failed = checkpoint.failed \cup {Key}
  BY <1>1, CheckpointOperators
<1>3. TypeOK'
  BY <1>2 DEF TypeOK, Running
<1>4. Positions' /\ CheckpointsAgree'
  BY <1>1, <1>2 DEF Positions, CheckpointsAgree, Running, Looping, Reporting, Processed
<1>5. ProfilesComeFirst' /\ ReportsInStep'
  BY DEF ProfilesComeFirst, ReportsInStep
<1>6. LoopCovers'
  BY <1>1, <1>2 DEF LoopCovers, Looping, Reporting, Processed
<1>7. ConfirmedAreDurable' /\ UndisturbedRun'
  BY <1>1, <1>2 DEF ConfirmedAreDurable, UndisturbedRun, Running
<1>8. checkpointFile'.status # "COMPLETED"
  BY <1>1 DEF CheckpointsAgree, Running
<1>. QED  BY <1>3, <1>4, <1>5, <1>6, <1>7, <1>8, NotCompletedNext

LEMMA SaveCheckpointStep ==
  ASSUME IInv, SaveCheckpoint
  PROVE  IInv'
<1>. USE DEF IInv, SaveCheckpoint, AFault
<1>1. /\ Len(source) \in Nat /\ index \in 1..Len(source) /\ DOMAIN source = 1..Len(source)
      /\ checkpoint.status = "IN_PROGRESS" /\ checkpointFile.status # "COMPLETED"
  BY DEF TypeOK, Positions, CheckpointsAgree, Running, Looping
<1>2. \/ checkpointFile' = checkpoint /\ faults' = faults
      \/ checkpointFile' = checkpointFile /\ faults' # 0 /\ faults' \in Nat
  BY DEF TypeOK
<1>3. TypeOK'
  BY <1>2 DEF TypeOK, Running
<1>4. Positions' /\ CheckpointsAgree'
  BY <1>1, <1>2 DEF Positions, CheckpointsAgree, Running, Looping, Reporting, Processed
<1>5. ProfilesComeFirst' /\ ReportsInStep'
  BY DEF ProfilesComeFirst, ReportsInStep
<1>6. LoopCovers'
  <2>. SUFFICES ASSUME NEW i \in DOMAIN source, i < index + 1
                PROVE  source[i].key \in Processed(checkpoint)
    BY DEF LoopCovers, Looping, Reporting
  <2>1. i < index \/ i = index
    BY <1>1
  <2>. QED  BY <2>1 DEF LoopCovers, Looping, Key
<1>7. ConfirmedAreDurable' /\ UndisturbedRun'
  BY <1>1, <1>2 DEF CheckpointsAgree, ConfirmedAreDurable, UndisturbedRun, Running
<1>8. checkpointFile'.status # "COMPLETED"
  BY <1>1, <1>2
<1>. QED  BY <1>3, <1>4, <1>5, <1>6, <1>7, <1>8, NotCompletedNext

LEMMA FinishLoopStep ==
  ASSUME IInv, FinishLoop
  PROVE  IInv'
<1>. USE DEF IInv, FinishLoop, LoopDone, disk, environment
<1>1. TypeOK'
  BY DEF TypeOK, Running
<1>2. Positions' /\ CheckpointsAgree'
  BY FourReports DEF Positions, CheckpointsAgree, Running, Looping, Reporting, Processed
<1>3. ProfilesComeFirst'
  BY DEF ProfilesComeFirst
<1>4. LoopCovers'
  <2>1. \A i \in DOMAIN source : i < index
    BY DEF TypeOK
  <2>. QED  BY <2>1 DEF LoopCovers, Looping, Reporting
<1>5. ReportsInStep' /\ ConfirmedAreDurable' /\ UndisturbedRun'
  BY DEF ReportsInStep, ConfirmedAreDurable, UndisturbedRun, Running
<1>6. checkpointFile'.status # "COMPLETED"
  BY DEF CheckpointsAgree, Running
<1>. QED  BY <1>1, <1>2, <1>3, <1>4, <1>5, <1>6, NotCompletedNext

LEMMA WriteReportStep ==
  ASSUME IInv, WriteReport
  PROVE  IInv'
<1>. USE DEF IInv, WriteReport, environment
<1>. DEFINE f == ReportOrder[index + 1]
<1>1. /\ index \in 0..3 /\ f \in ReportFiles /\ decisions \in Decisions
      /\ \A i \in 1..4 : ReportOrder[i] = f => i = index + 1
  BY FourReports DEF TypeOK, Positions, ReportOrder
<1>2. /\ DOMAIN reports' = DOMAIN reports \cup {f}
      /\ \A g \in DOMAIN reports' : reports'[g] = IF g = f THEN decisions ELSE reports[g]
  BY DEF WithReport
<1>. HIDE DEF f
<1>3. TypeOK'
  BY <1>1, <1>2 DEF TypeOK
<1>4. Positions' /\ CheckpointsAgree'
  BY <1>1, FourReports DEF Positions, CheckpointsAgree, Running, Looping, Reporting, Processed
<1>5. ProfilesComeFirst'
  BY <1>2 DEF ProfilesComeFirst
<1>6. LoopCovers'
  BY DEF LoopCovers, Looping, Reporting
<1>7. ReportsInStep'
  <2>. SUFFICES ASSUME NEW i \in 1..(index + 1)
                PROVE  ReportOrder[i] \in DOMAIN reports' /\ reports'[ReportOrder[i]] = decisions
    BY DEF ReportsInStep
  <2>1. CASE i = index + 1
    BY <2>1, <1>2 DEF f
  <2>2. CASE i \in 1..index
    BY <2>2, <1>2 DEF ReportsInStep
  <2>. QED  BY <2>1, <2>2, <1>1
<1>8. ConfirmedAreDurable'
  <2>1. faults = 0 => decisions.confirmed \subseteq checkpointFile.completed
    BY DEF ConfirmedAreDurable, CheckpointsAgree, Running
  <2>. QED  BY <2>1, <1>2 DEF ConfirmedAreDurable
<1>9. UndisturbedRun'
  BY DEF UndisturbedRun
<1>10. checkpointFile'.status # "COMPLETED"
  BY DEF CheckpointsAgree, Running
<1>. QED  BY <1>3, <1>4, <1>5, <1>6, <1>7, <1>8, <1>9, <1>10, NotCompletedNext

LEMMA LeaveReportsStep ==
  ASSUME IInv, LeaveReports
  PROVE  IInv'
<1>. USE DEF IInv, LeaveReports, disk, memory, AFault
<1>1. TypeOK' /\ (faults' = 0 => faults = 0 /\ index = 4)
  BY FourReports DEF TypeOK, Running
<1>2. Positions' /\ CheckpointsAgree'
  BY <1>1 DEF Positions, CheckpointsAgree, Running, Looping, Reporting, Processed
<1>3. ProfilesComeFirst' /\ LoopCovers'
  BY <1>1 DEF ProfilesComeFirst, LoopCovers, Looping, Reporting
<1>4. ReportsInStep'
  <2>. SUFFICES ASSUME faults' = 0
                PROVE  /\ DOMAIN reports = ReportFiles
                       /\ \A f \in ReportFiles : reports[f] = decisions
    BY DEF ReportsInStep
  <2>1. \A i \in 1..4 : ReportOrder[i] \in DOMAIN reports /\ reports[ReportOrder[i]] = decisions
    BY <1>1 DEF ReportsInStep
  <2>. QED  BY <2>1, FourReports DEF TypeOK
<1>5. ConfirmedAreDurable' /\ UndisturbedRun'
  BY <1>1 DEF ConfirmedAreDurable, UndisturbedRun, Running
<1>6. checkpointFile'.status # "COMPLETED"
  BY DEF CheckpointsAgree, Running
<1>. QED  BY <1>1, <1>2, <1>3, <1>4, <1>5, <1>6, NotCompletedNext

LEMMA FinaliseStep ==
  ASSUME IInv, Finalise
  PROVE  IInv'
<1>. USE DEF IInv, Finalise, AFault, ForgetMemory
<1>1. /\ checkpoint \in Checkpoint /\ checkpointFile \in Checkpoint
      /\ checkpointFile.status # "COMPLETED"
      /\ checkpointFile.completed \subseteq checkpoint.completed
      /\ checkpointFile.failed \subseteq checkpoint.failed
      /\ faults = 0 => checkpoint.status = "IN_PROGRESS"
  BY DEF TypeOK, CheckpointsAgree, Running, Reporting
<1>2. /\ AsCompleted \in Checkpoint /\ AsCompleted.status = "COMPLETED"
      /\ AsCompleted.completed = checkpoint.completed /\ AsCompleted.failed = checkpoint.failed
  BY <1>1 DEF AsCompleted, Checkpoint
<1>3. \/ checkpointFile' = AsCompleted /\ faults' = faults
      \/ checkpointFile' = checkpointFile /\ faults' # 0 /\ faults' \in Nat
  BY <1>1 DEF TypeOK
<1>4. TypeOK'
  BY <1>2, <1>3 DEF TypeOK, Checkpoint, NoCheckpoint, Decisions, NoDecisions
<1>5. Positions' /\ CheckpointsAgree'
  BY <1>2, <1>3 DEF Positions, CheckpointsAgree, Running, Looping, Reporting, Processed
<1>6. ProfilesComeFirst' /\ LoopCovers' /\ ReportsInStep'
  BY DEF ProfilesComeFirst, NoDecisions, LoopCovers, Looping, Reporting, ReportsInStep
<1>7. ConfirmedAreDurable' /\ UndisturbedRun'
  BY <1>1, <1>2, <1>3 DEF ConfirmedAreDurable, UndisturbedRun, Running
<1>8. CompletedCoversSource'
  BY <1>1, <1>2, <1>3 DEF CompletedCoversSource, LoopCovers, Reporting, Processed
<1>9. ReportsAgree'
  BY <1>3 DEF ReportsAgree, ReportsInStep
<1>10. UninterruptedRegisterIsComplete'
  <2>. SUFFICES ASSUME crashes = 0, faults = 0
                PROVE  confirmedEver \subseteq Register'
    BY <1>3 DEF UninterruptedRegisterIsComplete, RegisterIsComplete
  <2>1. Register' = decisions.confirmed
    BY FourReports DEF Register, ReportsInStep
  <2>. QED  BY <2>1 DEF UndisturbedRun, Running
<1>. QED  BY <1>4, <1>5, <1>6, <1>7, <1>8, <1>9, <1>10

LEMMA CrashStep ==
  ASSUME IInv, Crash
  PROVE  IInv'
<1>. USE DEF IInv, Crash, ForgetMemory, disk
<1>1. TypeOK' /\ crashes' # 0
  BY DEF TypeOK, Checkpoint, NoCheckpoint, Decisions, NoDecisions
<1>2. Positions' /\ CheckpointsAgree'
  BY DEF Positions, CheckpointsAgree, Running, Looping, Reporting, Processed
<1>3. ProfilesComeFirst' /\ LoopCovers' /\ ReportsInStep'
  BY DEF ProfilesComeFirst, NoDecisions, LoopCovers, Looping, Reporting, ReportsInStep
<1>4. ConfirmedAreDurable' /\ UndisturbedRun'
  BY <1>1 DEF ConfirmedAreDurable, UndisturbedRun, Running
<1>5. checkpointFile'.status # "COMPLETED"
  BY DEF CheckpointsAgree
<1>. QED  BY <1>1, <1>2, <1>3, <1>4, <1>5, NotCompletedNext

LEMMA EnrichVendorStep ==
  ASSUME IInv, NEW k \in Keys, EnrichVendor(k)
  PROVE  IInv'
<1>. USE DEF IInv, EnrichVendor, memory, environment
<1>1. TypeOK' /\ Positions' /\ CheckpointsAgree'
  BY DEF TypeOK, Positions, CheckpointsAgree, Running, Looping, Reporting, Processed
<1>2. ProfilesComeFirst' /\ LoopCovers' /\ ReportsInStep'
  BY DEF ProfilesComeFirst, Key, LoopCovers, Looping, Reporting, Processed, ReportsInStep
<1>3. ConfirmedAreDurable' /\ UndisturbedRun'
  BY DEF ConfirmedAreDurable, UndisturbedRun, Register
<1>4. CompletedCoversSource' /\ ReportsAgree' /\ UninterruptedRegisterIsComplete'
  BY DEF CompletedCoversSource, Processed, ReportsAgree, UninterruptedRegisterIsComplete,
         RegisterIsComplete, Register
<1>. QED  BY <1>1, <1>2, <1>3, <1>4

LEMMA Stutter ==
  ASSUME IInv, UNCHANGED vars
  PROVE  IInv'
<1>. USE DEF IInv, vars, disk, memory, environment
<1>1. TypeOK' /\ Positions' /\ CheckpointsAgree'
  BY DEF TypeOK, Positions, CheckpointsAgree, Processed
<1>2. ProfilesComeFirst' /\ LoopCovers' /\ ReportsInStep'
  BY DEF ProfilesComeFirst, Key, LoopCovers, Processed, ReportsInStep
<1>3. ConfirmedAreDurable' /\ UndisturbedRun'
  BY DEF ConfirmedAreDurable, UndisturbedRun
<1>4. CompletedCoversSource' /\ ReportsAgree' /\ UninterruptedRegisterIsComplete'
  BY DEF CompletedCoversSource, Processed, ReportsAgree, UninterruptedRegisterIsComplete,
         RegisterIsComplete, Register
<1>. QED  BY <1>1, <1>2, <1>3, <1>4

-----------------------------------------------------------------------------
(* The theorems                                                              *)

(* Every state satisfies the invariant: checkpoint, reports and profiles fit *)
(* the position of the run.                                                  *)
THEOREM InvariantHolds == Spec => []IInv
<1>1. IInv /\ [Next]_vars => IInv'
  BY StartIntakeStep, BootFailsStep, BootStep, PrepareCandidatesStep, SkipCandidateStep,
     DecidingSteps, BuildWorkspaceStep, FailCandidateStep, SaveCheckpointStep, FinishLoopStep,
     WriteReportStep, LeaveReportsStep, FinaliseStep, CrashStep, EnrichVendorStep, Stutter
     DEF Next, RunStep, AlreadyCompleted
<1>. QED  BY <1>1, InitialStates, PTL DEF Spec

(* Whatever fails or dies, every vendor of the register has its profile.     *)
THEOREM RegisteredVendorsHaveProfiles == Spec => []RegisteredHaveProfiles
<1>1. IInv => RegisteredHaveProfiles
  BY DEF IInv, ProfilesComeFirst, RegisteredHaveProfiles, Register
<1>. QED  BY <1>1, InvariantHolds, PTL

(* With no failing write a completed intake has an outcome for every         *)
(* candidate, however often it was interrupted.                              *)
THEOREM CompletedMeansCovered == Spec => []CompletedCoversSource
<1>1. IInv => CompletedCoversSource
  BY DEF IInv
<1>. QED  BY <1>1, InvariantHolds, PTL

(* The reports of a completed intake are those of one run.                   *)
THEOREM ReportsAreOfOneRun == Spec => []ReportsAgree
<1>1. IInv => ReportsAgree
  BY DEF IInv
<1>. QED  BY <1>1, InvariantHolds, PTL

(* An undisturbed intake registers all the vendors it confirmed.             *)
THEOREM UndisturbedRegisterIsComplete == Spec => []UninterruptedRegisterIsComplete
<1>1. IInv => UninterruptedRegisterIsComplete
  BY DEF IInv
<1>. QED  BY <1>1, InvariantHolds, PTL

(* A candidate with a durable outcome is never worked on again, also when    *)
(* saves of the checkpoint failed in between.                                *)
THEOREM NothingIsReworked == Spec => NoRework
<1>1. IInv /\ [Next]_vars =>
        [ pc = "loop" /\ pc' \in {"built", "save"} => Key \notin Processed(checkpointFile) ]_vars
  <2>. SUFFICES ASSUME IInv, [Next]_vars, pc = "loop", pc' \in {"built", "save"}
                PROVE  Key \notin Processed(checkpointFile)
    OBVIOUS
  <2>1. Key \notin Processed(checkpoint)
    BY DEF Next, RunStep, StartIntake, MayStart, AlreadyCompleted, Crash, EnrichVendor, BootFails,
           Boot, FirstSaveFails, PrepareCandidates, SkipCandidate, Discard, DecideWithoutWorkspace,
           BuildWorkspace, ConfirmVendor, BuildFails, FailCandidate, Fresh, AlreadyProcessed,
           SaveCheckpoint, FinishLoop, WriteReport, LeaveReports, Finalise, vars
  <2>. QED  BY <2>1 DEF IInv, CheckpointsAgree, Processed, Running
<1>. QED  BY <1>1, InvariantHolds, PTL DEF Spec, NoRework

(* No step, restart or failure takes an outcome out of the checkpoint file.  *)
THEOREM OutcomesAreKept == Spec => CheckpointOnlyGrows
<1>1. IInv /\ [Next]_vars =>
        [ /\ checkpointFile.completed \subseteq checkpointFile'.completed
          /\ checkpointFile.failed \subseteq checkpointFile'.failed ]_vars
  <2>. SUFFICES ASSUME IInv, Next
                PROVE  /\ checkpointFile.completed \subseteq checkpointFile'.completed
                       /\ checkpointFile.failed \subseteq checkpointFile'.failed
    BY DEF vars
  <2>1. CASE checkpointFile' = checkpointFile
    BY <2>1
  <2>2. CASE Boot
    <3>1. /\ checkpointFile' = CreateOrResume(checkpointFile)
          /\ checkpointFile \in Checkpoint /\ checkpointFile.status # "COMPLETED"
          /\ checkpointFile.status = "NONE" => Processed(checkpointFile) = {}
      BY <2>2 DEF Boot, IInv, TypeOK, CheckpointsAgree, Running
    <3>. QED  BY <3>1, CreatedOrResumed
  <2>3. CASE PrepareCandidates
    BY <2>1, <2>3 DEF PrepareCandidates, IInv, TypeOK, Checkpoint, CheckpointsAgree, Running
  <2>4. CASE SaveCheckpoint
    BY <2>1, <2>4 DEF SaveCheckpoint, IInv, CheckpointsAgree, Running
  <2>5. CASE Finalise
    BY <2>1, <2>5 DEF Finalise, AsCompleted, IInv, TypeOK, Checkpoint, CheckpointsAgree, Running
  <2>. QED
    BY <2>1, <2>2, <2>3, <2>4, <2>5
       DEF Next, RunStep, StartIntake, AlreadyCompleted, Crash, EnrichVendor, BootFails,
           FirstSaveFails, SkipCandidate, Discard, DecideWithoutWorkspace, BuildWorkspace,
           ConfirmVendor, BuildFails, FailCandidate, FinishLoop, WriteReport, LeaveReports,
           disk, vars
<1>. QED  BY <1>1, InvariantHolds, PTL DEF Spec, CheckpointOnlyGrows

(* Without failing writes no restart of the intake erases enrichment data:   *)
(* an enriched vendor is in the checkpoint file, so it is not built again.   *)
THEOREM EnrichmentIsKept == Spec => EnrichmentSurvives
<1>1. IInv /\ [Next]_vars => [ faults = 0 => enriched \subseteq enriched' ]_vars
  <2>. SUFFICES ASSUME IInv, Next, faults = 0
                PROVE  enriched \subseteq enriched'
    BY DEF vars
  <2>1. CASE BuildWorkspace
    <3>1. Key \notin Processed(checkpointFile)
      BY <2>1 DEF BuildWorkspace, Fresh, AlreadyProcessed, IInv, CheckpointsAgree, Running
    <3>. QED  BY <2>1, <3>1 DEF BuildWorkspace, IInv, ConfirmedAreDurable, Processed
  <2>. QED
    BY <2>1
       DEF Next, RunStep, StartIntake, AlreadyCompleted, Crash, EnrichVendor, BootFails, Boot,
           FirstSaveFails, PrepareCandidates, SkipCandidate, Discard, DecideWithoutWorkspace,
           ConfirmVendor, BuildFails, FailCandidate, SaveCheckpoint, FinishLoop, WriteReport,
           LeaveReports, Finalise, disk, vars
<1>. QED  BY <1>1, InvariantHolds, PTL DEF Spec, EnrichmentSurvives

=============================================================================
