-------------------------- MODULE WorkflowRuntime --------------------------
(***************************************************************************)
(* RuntimeEngine.execute_workflow with the two files it recovers from      *)
(* (workflow.json and state.json), its planner, and the process around it, *)
(* which may die between any two saves and call the engine again.          *)
(*                                                                         *)
(* A plan is split in two: `kept' holds the ids of the steps a revision    *)
(* preserved because their status was terminal (they are never selected    *)
(* again, so their order and their fields do not matter), `list' the steps *)
(* of the current version in order.  `marked' is the part of list whose    *)
(* in-memory status is DONE, FAILED or SKIPPED; workflow.json is written   *)
(* at creation and by a revision only, and both times no step of `list'    *)
(* has a terminal status, so the file needs no `marked'.                   *)
(*                                                                         *)
(* A definition Next does not use, such as SwappedVerdict, is a plausible  *)
(* mistake in the definition that follows it; the properties refute it.    *)
(***************************************************************************)
EXTENDS Naturals, Sequences, FiniteSetsExt

CONSTANTS
    InitialPlans,   \* the step lists create_workflow may have saved
    Proposals,      \* the step lists the LLM may answer to a replan prompt
    IdBound,        \* no initial plan or proposal uses a higher step number
    MaxReplans,     \* 3 in the code
    MaxSteps,       \* execute_workflow's max_steps, 50 by default
    MaxCrashes,     \* bound: how often the process dies
    MaxFaults       \* bound: how many saves (or signal merges) raise

Status == {"NOT_STARTED", "IN_PROGRESS", "COMPLETED", "BLOCKED", "FAILED"}
Reasons == {"none", "max_steps_reached", "deadlock_detected",
            "human_review_required", "early_termination"}

(* A WorkflowStep: its number, the steps it depends on, whether it has a     *)
(* condition, and its retry policy's max_attempts.                           *)
Step == [id : Nat, deps : SUBSET Nat, conditional : BOOLEAN, tries : Nat]
NoStep == [id |-> 0, deps |-> {}, conditional |-> FALSE, tries |-> 0]

ASSUME RuntimeAssumption ==
    /\ InitialPlans \subseteq Seq(Step)
    /\ Proposals \subseteq Seq(Step)
    /\ {IdBound, MaxReplans, MaxSteps, MaxCrashes, MaxFaults} \subseteq Nat
    /\ \A plan \in InitialPlans \cup Proposals :
          \A i \in DOMAIN plan : plan[i].id <= IdBound

VARIABLES
    workflowFile,   \* workflow.json
    stateFile,      \* state.json
    pc,             \* where the engine's thread is; "idle" when no call runs
    workflow,       \* the engine's WorkflowDefinition
    state,          \* the engine's ExecutionState
    step,           \* next_step
    attempts,       \* attempts_so_far
    started,        \* steps_started
    crashes, faults,
    evaluated,      \* observation: the steps the planner was asked about
    aborted         \* observation: a fatal or unexpected error was handled

files == <<workflowFile, stateFile>>
memory == <<workflow, state, step, attempts, started>>
environment == <<crashes, faults>>
observation == <<evaluated, aborted>>
vars == <<files, pc, memory, environment, observation>>

-----------------------------------------------------------------------------
(* WorkflowDefinition and ExecutionState                                     *)

Plan == [list : Seq(Step), kept : SUBSET Nat, count : Nat]
MemPlan == [list : Seq(Step), kept : SUBSET Nat, count : Nat, marked : SUBSET Nat]
State == [status : Status, completed : SUBSET Nat, failed : SUBSET Nat,
          skipped : SUBSET Nat, reason : Reasons]

NewState == [status |-> "NOT_STARTED", completed |-> {}, failed |-> {},
             skipped |-> {}, reason |-> "none"]
NoPlan == [list |-> <<>>, kept |-> {}, count |-> 0, marked |-> {}]

AllIds(w) == w.kept \cup {w.list[i].id : i \in DOMAIN w.list}
TerminalIds(w) == w.kept \cup w.marked
LoadedPlan(f) == [list |-> f.list, kept |-> f.kept, count |-> f.count, marked |-> {}]
SavedPlan(w) == [list |-> w.list, kept |-> w.kept, count |-> w.count]

Recorded(s) == s.completed \cup s.failed \cup s.skipped

(* The steps _next_runnable_step never selects again.                        *)
CompletedOnly(s) == s.completed
AlreadyDone(s) == Recorded(s)

DepsDone(s, deps) == deps \subseteq s.completed

Terminal == {"COMPLETED", "BLOCKED", "FAILED"}

WithSkip(s, id) == [s EXCEPT !.skipped = @ \cup {id}]

WithComplete(s, id) == [s EXCEPT !.completed = @ \cup {id}]

FailureReplacesOthers(s, id) == [s EXCEPT !.failed = {id}, !.status = "FAILED"]
WithFailure(s, id) == [s EXCEPT !.failed = @ \cup {id}, !.status = "FAILED"]

SwappedVerdict(s, status, reason) == [s EXCEPT !.status = reason, !.reason = status]
WithVerdict(s, status, reason) == [s EXCEPT !.status = status, !.reason = reason]

(* WorkflowDefinition.apply_revision: steps with a terminal status are kept, *)
(* all the others are replaced.                                              *)
RevisionKeepsOldOnly(w, revised) ==
    [list |-> revised, kept |-> w.kept, count |-> w.count + 1, marked |-> {}]
Revised(w, revised) ==
    [list |-> revised, kept |-> TerminalIds(w), count |-> w.count + 1, marked |-> {}]

-----------------------------------------------------------------------------
(* PlanningAgent.replan                                                      *)

(* _validate_replan_response: no collision with a step whose status in the   *)
(* loaded plan is terminal, and every dependency is a step of the plan or of *)
(* the answer.  Duplicate ids in the answer, and dependencies on pending     *)
(* steps the answer drops, are accepted.                                     *)
ValidProposal(w, revised) ==
    /\ \A i \in DOMAIN revised : revised[i].id \notin TerminalIds(w)
    /\ \A i \in DOMAIN revised :
          revised[i].deps \subseteq AllIds(w) \cup {revised[j].id : j \in DOMAIN revised}

NextStepId(w) == Max({0} \cup AllIds(w)) + 1

(* The single ROUTE_TO_HUMAN step used when the LLM call fails or its answer *)
(* is invalid.                                                               *)
Fallback(w, s) ==
    << [id |-> NextStepId(w), deps |-> {s.id}, conditional |-> FALSE, tries |-> 1] >>

ReplanAnswers(w, s) ==
    {p \in Proposals : ValidProposal(w, p)} \cup {Fallback(w, s)}

-----------------------------------------------------------------------------
(* Initial states: create_workflow has saved workflow.json; there is no      *)
(* state.json, which ExecutionState.load reads as a NOT_STARTED state.       *)

Init ==
    /\ \E plan \in InitialPlans :
          workflowFile = [list |-> plan, kept |-> {}, count |-> 0]
    /\ stateFile = NewState
    /\ pc = "idle"
    /\ workflow = NoPlan /\ state = NewState
    /\ step = NoStep /\ attempts = 0 /\ started = 0
    /\ crashes = 0 /\ faults = 0
    /\ evaluated = {} /\ aborted = FALSE

Running == {"loop", "exec", "reset", "decide"}

(* Every mutation of the engine's state is followed by state.save() before   *)
(* the next observable step.                                                 *)
Save(s) == state' = s /\ stateFile' = s

ForgetMemory ==
    /\ workflow' = NoPlan /\ state' = NewState
    /\ step' = NoStep /\ attempts' = 0 /\ started' = 0

SaveAndReturn(s) ==
    /\ stateFile' = s
    /\ pc' = "idle"
    /\ ForgetMemory

RetryLoopNotLeft == pc' = "exec" /\ step' = step /\ attempts' = 1
BackToLoop == pc' = "loop" /\ step' = NoStep /\ attempts' = 0

MarkTerminal(id) == workflow' = [workflow EXCEPT !.marked = @ \cup {id}]

-----------------------------------------------------------------------------
(* The call and its loop                                                     *)

ExecuteAnyStatus == pc \in {"idle", "raised"}
MayExecute == pc \in {"idle", "raised"} /\ stateFile.status \notin Terminal

Execute ==
    /\ MayExecute
    /\ workflow' = LoadedPlan(workflowFile)
    /\ Save([stateFile EXCEPT !.status = "IN_PROGRESS"])
    /\ pc' = "loop"
    /\ UNCHANGED <<workflowFile, step, attempts, started, environment, observation>>

(* A call on a workflow whose stored status is terminal returns its outcome. *)
ExecuteFinished ==
    /\ pc \in {"idle", "raised"}
    /\ stateFile.status \in Terminal
    /\ pc' = "idle"
    /\ UNCHANGED <<files, memory, environment, observation>>

Runnable(i) ==
    /\ workflow.list[i].id \notin workflow.marked
    /\ workflow.list[i].id \notin AlreadyDone(state)
    /\ DepsDone(state, workflow.list[i].deps)

NextRunnable(i) ==
    /\ i \in DOMAIN workflow.list
    /\ Runnable(i)
    /\ \A j \in 1..(i - 1) : ~Runnable(j)

(* The step's condition evaluates to false against the completed results.    *)
SkipStep(i) ==
    /\ pc = "loop"
    /\ NextRunnable(i)
    /\ workflow.list[i].conditional
    /\ Save(WithSkip(state, workflow.list[i].id))
    /\ MarkTerminal(workflow.list[i].id)
    /\ UNCHANGED <<workflowFile, pc, step, attempts, started, environment, observation>>

StartStep(i) ==
    /\ pc = "loop"
    /\ NextRunnable(i)
    /\ started < MaxSteps
    /\ started' = started + 1
    /\ step' = workflow.list[i]
    /\ attempts' = 1
    /\ Save([state EXCEPT !.status = "IN_PROGRESS"])
    /\ pc' = "exec"
    /\ UNCHANGED <<workflowFile, workflow, environment, observation>>

HitCeiling(i) ==
    /\ pc = "loop"
    /\ NextRunnable(i)
    /\ started >= MaxSteps
    /\ SaveAndReturn(WithVerdict(state, "BLOCKED", "max_steps_reached"))
    /\ UNCHANGED <<workflowFile, environment, observation>>

UnmarkedOnly == {i \in DOMAIN workflow.list : workflow.list[i].id \notin workflow.marked}
Remaining ==
    {i \in DOMAIN workflow.list :
        /\ workflow.list[i].id \notin workflow.marked
        /\ workflow.list[i].id \notin Recorded(state)}

(* The loop found nothing to run: either nothing is left or what is left can *)
(* never become runnable.                                                    *)
AlwaysCompleted == WithVerdict(state, "COMPLETED", state.reason)
FinishVerdict ==
    CASE state.status # "IN_PROGRESS" -> state
      [] state.status = "IN_PROGRESS" /\ Remaining = {} ->
            WithVerdict(state, "COMPLETED", state.reason)
      [] state.status = "IN_PROGRESS" /\ Remaining # {} ->
            WithVerdict(state, "BLOCKED", "deadlock_detected")

FinishRun ==
    /\ pc = "loop"
    /\ \A i \in DOMAIN workflow.list : ~Runnable(i)
    /\ SaveAndReturn(FinishVerdict)
    /\ UNCHANGED <<workflowFile, environment, observation>>

-----------------------------------------------------------------------------
(* One step: the retry loop                                                  *)

AttemptsLeft == attempts < step.tries

(* StepRetryable with attempts left: sleep and call the step again.          *)
RetryStep ==
    /\ pc = "exec"
    /\ AttemptsLeft
    /\ attempts' = attempts + 1
    /\ UNCHANGED <<files, pc, workflow, state, step, started, environment, observation>>

SkipPlanner == pc' = "loop"
GoToPlanner == pc' = "decide"

CompleteStep ==
    /\ pc = "exec"
    /\ Save(WithComplete(state, step.id))
    /\ MarkTerminal(step.id)
    /\ GoToPlanner
    /\ UNCHANGED <<workflowFile, step, attempts, started, environment, observation>>

(* record_step_failure saves the step's failure with the workflow's status   *)
(* already FAILED; the engine then puts IN_PROGRESS back with a second save. *)
RecordStepFailure ==
    /\ Save(WithFailure(state, step.id))
    /\ pc' = "reset"
    /\ UNCHANGED <<workflowFile, workflow, step, attempts, started, environment, observation>>

(* StepRegistryMiss: the lookup fails before anything has been tried.        *)
MissRegistry == pc = "exec" /\ attempts = 1 /\ RecordStepFailure

(* StepRetryable on the last attempt.                                        *)
ExhaustRetries == pc = "exec" /\ ~AttemptsLeft /\ RecordStepFailure

LeftFailed(s) == s
Reopened(s) == [s EXCEPT !.status = "IN_PROGRESS"]

ReopenAfterFailure ==
    /\ pc = "reset"
    /\ Save(Reopened(state))
    /\ MarkTerminal(step.id)
    /\ BackToLoop
    /\ UNCHANGED <<workflowFile, started, environment, observation>>

(* StepFatal, or any other exception of the step.                            *)
AbortStep ==
    /\ pc = "exec"
    /\ SaveAndReturn(WithFailure(state, step.id))
    /\ aborted' = TRUE
    /\ UNCHANGED <<workflowFile, environment, evaluated>>

(* The step succeeded, but merging its signals or saving state.json raised   *)
(* after completed_steps had been updated: the handler for unexpected errors *)
(* records the same step as failed too.                                      *)
CompleteRaises ==
    /\ pc = "exec"
    /\ faults < MaxFaults
    /\ SaveAndReturn(WithFailure(WithComplete(state, step.id), step.id))
    /\ aborted' = TRUE
    /\ faults' = faults + 1
    /\ UNCHANGED <<workflowFile, crashes, evaluated>>

-----------------------------------------------------------------------------
(* After a completed step: the planner's decision                            *)

AskPlanner == evaluated' = evaluated \cup {step.id}

(* CONTINUE, evaluate_step raising, or a REPLAN that is over the limit.      *)
ContinueRun ==
    /\ pc = "decide"
    /\ AskPlanner
    /\ BackToLoop
    /\ UNCHANGED <<files, workflow, state, started, environment, aborted>>

(* evaluate_step looks at the count on disk, the engine at its own copy.     *)
ReplanUnbounded == TRUE
MayReplan == workflow.count < MaxReplans /\ workflowFile.count < MaxReplans

Replan(revised) ==
    /\ pc = "decide"
    /\ MayReplan
    /\ AskPlanner
    /\ workflow' = Revised(workflow, revised)
    /\ workflowFile' = SavedPlan(Revised(workflow, revised))
    /\ BackToLoop
    /\ UNCHANGED <<stateFile, state, started, environment, aborted>>

(* apply_revision took effect in memory and workflow.save() raised: a        *)
(* warning is logged and the run goes on with the revised plan.              *)
ReplanUnsaved(revised) ==
    /\ pc = "decide"
    /\ MayReplan
    /\ faults < MaxFaults
    /\ faults' = faults + 1
    /\ AskPlanner
    /\ workflow' = Revised(workflow, revised)
    /\ BackToLoop
    /\ UNCHANGED <<files, state, started, crashes, aborted>>

EscalateHuman ==
    /\ pc = "decide"
    /\ AskPlanner
    /\ SaveAndReturn(WithVerdict(state, "BLOCKED", "human_review_required"))
    /\ UNCHANGED <<workflowFile, environment, aborted>>

TerminateRun ==
    /\ pc = "decide"
    /\ AskPlanner
    /\ SaveAndReturn(WithVerdict(state, "COMPLETED", "early_termination"))
    /\ UNCHANGED <<workflowFile, environment, aborted>>

-----------------------------------------------------------------------------
(* The environment                                                           *)

(* The process dies: only the two files are left.                            *)
Crash ==
    /\ pc \in Running
    /\ crashes < MaxCrashes
    /\ crashes' = crashes + 1
    /\ pc' = "idle"
    /\ ForgetMemory
    /\ UNCHANGED <<files, faults, observation>>

(* A state.save() outside the try block, or inside one of its handlers,      *)
(* raises WorkflowSaveError: the exception leaves execute_workflow.          *)
SaveRaises ==
    /\ pc \in Running \/ MayExecute
    /\ faults < MaxFaults
    /\ faults' = faults + 1
    /\ evaluated' = IF pc = "decide" THEN evaluated \cup {step.id} ELSE evaluated
    /\ pc' = "raised"
    /\ ForgetMemory
    /\ UNCHANGED <<files, crashes, aborted>>

EngineStep ==
    \/ \E i \in DOMAIN workflow.list : SkipStep(i)
    \/ \E i \in DOMAIN workflow.list : StartStep(i)
    \/ \E i \in DOMAIN workflow.list : HitCeiling(i)
    \/ FinishRun
    \/ RetryStep \/ CompleteStep \/ MissRegistry \/ ExhaustRetries
    \/ ReopenAfterFailure \/ AbortStep
    \/ ContinueRun \/ EscalateHuman \/ TerminateRun
    \/ \E revised \in ReplanAnswers(workflow, step) : Replan(revised)

Fault ==
    \/ Crash
    \/ SaveRaises
    \/ CompleteRaises
    \/ \E revised \in ReplanAnswers(workflow, step) : ReplanUnsaved(revised)

Next == Execute \/ ExecuteFinished \/ EngineStep \/ Fault

Spec == Init /\ [][Next]_vars

(* A started call runs to its end unless the process dies (step callables    *)
(* and sleeps return), and whoever drives the workflow calls the engine      *)
(* again after a crash, as the recovery contract asks.                       *)
Fairness == WF_vars(EngineStep) /\ WF_vars(Execute)
FairSpec == Spec /\ Fairness

-----------------------------------------------------------------------------
(* Properties                                                                *)

TypeOK ==
    /\ workflowFile \in Plan
    /\ stateFile \in State
    /\ pc \in Running \cup {"idle", "raised"}
    /\ workflow \in MemPlan
    /\ state \in State
    /\ step \in Step
    /\ attempts \in Nat /\ started \in Nat
    /\ crashes \in Nat /\ faults \in Nat
    /\ evaluated \in SUBSET Nat
    /\ aborted \in BOOLEAN

(* What the engine knows is what is on disk: while a call runs, a restart    *)
(* would load exactly the step records it is working with, and FAILED is on  *)
(* disk only between the two saves of a failed step.                         *)
MemoryIsDurable ==
    pc \in Running =>
        /\ state = stateFile
        /\ state.status = (IF pc = "reset" THEN "FAILED" ELSE "IN_PROGRESS")

(* A step has one outcome.  A completed step is also recorded as failed only *)
(* when storing its completion raised, and that aborted the workflow.        *)
OneOutcome ==
    /\ stateFile.skipped \cap (stateFile.completed \cup stateFile.failed) = {}
    /\ stateFile.completed \cap stateFile.failed # {} =>
          faults > 0 /\ aborted /\ stateFile.status = "FAILED"

(* COMPLETED without an early termination: every step of the saved plan has  *)
(* an outcome, as long as every revision could be saved.                     *)
CompletedIsComplete ==
    /\ stateFile.status = "COMPLETED"
    /\ stateFile.reason # "early_termination"
    /\ faults = 0
    => \A i \in DOMAIN workflowFile.list : workflowFile.list[i].id \in Recorded(stateFile)

(* deadlock_detected is never a false alarm: some step of the saved plan has *)
(* no outcome and every such step waits for one that did not complete.       *)
DeadlockIsReal ==
    stateFile.reason = "deadlock_detected" /\ faults = 0 =>
        LET open == {i \in DOMAIN workflowFile.list :
                        workflowFile.list[i].id \notin Recorded(stateFile)}
        IN  /\ open # {}
            /\ \A i \in open : ~(workflowFile.list[i].deps \subseteq stateFile.completed)

(* A workflow is left FAILED only by a fatal or unexpected error of a step;  *)
(* running out of retries or a missing callable fails the step alone.  Holds *)
(* while the process stays alive.                                            *)
SingleFailureNeverAborts ==
    stateFile.status = "FAILED" /\ pc # "reset" => aborted
FailedMeansAborted == crashes = 0 /\ faults = 0 => SingleFailureNeverAborts

(* Every step with an outcome is still part of the saved plan, whatever the  *)
(* revisions did (workflow.json: "Completed steps preserved").  Holds while  *)
(* the process stays alive.                                                  *)
RecordedStepsInPlan == Recorded(stateFile) \subseteq AllIds(workflowFile)
RecordedStepsStayInPlan == crashes = 0 /\ faults = 0 => RecordedStepsInPlan

(* The planner has been asked about every completed step before the next     *)
(* one starts and before the workflow ends.  Holds while the process lives.  *)
PlannerSeesEveryStep ==
    crashes = 0 /\ faults = 0 /\ pc # "decide" => stateFile.completed \subseteq evaluated

(* Step records once added are never removed, by no path and no restart.     *)
RecordsNeverRemoved ==
    [][ /\ stateFile.completed \subseteq stateFile'.completed
        /\ stateFile.failed \subseteq stateFile'.failed
        /\ stateFile.skipped \subseteq stateFile'.skipped ]_vars

(* A step is started only when its dependencies are durably completed and it *)
(* has no durable outcome yet: what is DONE is never executed again, whatever *)
(* crashes and revisions came before.                                        *)
StartIsJustified ==
    [][ pc # "exec" /\ pc' = "exec" =>
            /\ step'.id \notin Recorded(stateFile)
            /\ step'.deps \subseteq stateFile.completed ]_vars

(* Once a call has returned with a terminal status, no later call changes    *)
(* either file.                                                              *)
TerminalIsFinal ==
    [][ stateFile.status \in Terminal /\ pc # "reset" => UNCHANGED files ]_vars

(* The saved plan changes only by counted revisions, never beyond the cap.   *)
RevisionsBounded ==
    [][ workflowFile' # workflowFile =>
            /\ workflowFile.count < workflowFile'.count
            /\ workflowFile'.count <= MaxReplans ]_vars

(* However it is interrupted, a workflow that is called again reaches a      *)
(* terminal status and keeps it.                                             *)
EventuallySettles == <>[](pc \notin Running /\ stateFile.status \in Terminal)

(* state.json keeps the promises of the ledger.  Between the two saves of a  *)
(* failed step its FAILED status is provisional.                             *)
LedgerStatus == IF pc = "reset" THEN "IN_PROGRESS" ELSE stateFile.status

Ledger == INSTANCE WorkflowLedger WITH
    StepIds <- 0..(IdBound + MaxReplans),
    status <- LedgerStatus,
    completed <- stateFile.completed,
    failed <- stateFile.failed,
    skipped <- stateFile.skipped

ImplementsLedger == Ledger!LedgerSpec

=============================================================================
