----------------------- MODULE WorkflowOutcomeProofs -----------------------
(* What the outcome of a workflow means, proved for every plan, proposal and *)
(* bound on top of WorkflowRuntimeProofs: the verdicts COMPLETED, BLOCKED    *)
(* and FAILED say what they seem to say, and as long as the process lives    *)
(* the saved plan and the planner know of every recorded step.               *)
EXTENDS WorkflowRuntimeProofs

-----------------------------------------------------------------------------
(* The inductive invariant                                                   *)

(* A step marked terminal in memory, or about to be marked because it failed, *)
(* has its outcome recorded.                                                 *)
MarkedAreRecorded ==
    /\ pc \in Running => workflow.marked \subseteq Recorded(state)
    /\ pc = "reset" => step.id \in Recorded(state)

(* As long as no save failed the engine works with the plan on disk.         *)
PlanOnDisk == faults = 0 /\ pc \in Running => workflowFile = SavedPlan(workflow)

(* A reason is written together with a terminal status and never before.     *)
ReasonComesLast ==
    pc \in Running \/ stateFile.status \notin Terminal => stateFile.reason = "none"

Undisturbed == crashes = 0 /\ faults = 0

(* While the planner decides, it has not been asked about this step yet.     *)
AwaitsPlanner ==
    Undisturbed /\ pc = "decide" => stateFile.completed \subseteq evaluated \cup {step.id}

(* Without a crash or a fault no call starts from another call's records.    *)
FirstCall ==
    Undisturbed /\ pc \notin Running /\ stateFile.status \notin Terminal =>
        Recorded(stateFile) = {}

(* A recorded step is terminal in the plan, so that a revision keeps it.     *)
(* Between the two saves of a failed step that step is not marked yet.       *)
RecordsAreTerminal ==
    Undisturbed /\ pc \in Running =>
        /\ Recorded(state) \subseteq
              TerminalIds(workflow) \cup (IF pc = "reset" THEN {step.id} ELSE {})
        /\ pc # "loop" => step.id \in AllIds(workflow)

OutcomeInv ==
    /\ MarkedAreRecorded /\ PlanOnDisk /\ ReasonComesLast
    /\ CompletedIsComplete /\ DeadlockIsReal
    /\ FailedMeansAborted /\ PlannerSeesEveryStep /\ AwaitsPlanner
    /\ FirstCall /\ RecordsAreTerminal /\ RecordedStepsStayInPlan

LEMMA InitOutcome == Init => OutcomeInv
BY DEF Init, NewState, NoPlan, OutcomeInv, MarkedAreRecorded, PlanOnDisk, ReasonComesLast,
       CompletedIsComplete, DeadlockIsReal, FailedMeansAborted, SingleFailureNeverAborts,
       PlannerSeesEveryStep, AwaitsPlanner, FirstCall, RecordsAreTerminal,
       RecordedStepsStayInPlan, RecordedStepsInPlan, Recorded, Undisturbed, Running, Terminal

-----------------------------------------------------------------------------
(* The kinds of steps                                                        *)

(* What the types say of the records the steps work with.                    *)
LEMMA Shapes ==
  ASSUME IInv
  PROVE  /\ workflowFile \in Plan /\ workflow \in MemPlan
         /\ stateFile \in State /\ state \in State
         /\ crashes \in Nat /\ faults \in Nat
         /\ pc \in Running =>
               /\ state = stateFile
               /\ state.status = (IF pc = "reset" THEN "FAILED" ELSE "IN_PROGRESS")
BY DEF IInv, TypeOK, MemoryIsDurable

(* A step inside a call that keeps the plan.                                 *)
LEMMA InsideStep ==
  ASSUME IInv, IInv', OutcomeInv, pc \in Running, pc' \in Running,
         UNCHANGED <<workflowFile, crashes, faults>>,
         workflow'.list = workflow.list, workflow'.kept = workflow.kept,
         workflow'.count = workflow.count,
         workflow'.marked \subseteq Recorded(state'),
         pc' = "reset" => step'.id \in Recorded(state'),
         stateFile'.reason = stateFile.reason,
         pc' # "decide" => PlannerSeesEveryStep',
         AwaitsPlanner', RecordsAreTerminal',
         Undisturbed => Recorded(stateFile') \subseteq AllIds(workflowFile)
  PROVE  OutcomeInv'
<1>1. /\ stateFile'.status \in {"FAILED", "IN_PROGRESS"}
      /\ stateFile'.status = "FAILED" => pc' = "reset"
  BY Shapes DEF IInv, MemoryIsDurable
<1>2. MarkedAreRecorded' /\ ReasonComesLast'
  BY DEF OutcomeInv, MarkedAreRecorded, ReasonComesLast, Recorded
<1>3. PlanOnDisk'
  BY DEF OutcomeInv, PlanOnDisk, SavedPlan
<1>4. CompletedIsComplete' /\ FailedMeansAborted'
  BY <1>1 DEF CompletedIsComplete, FailedMeansAborted, SingleFailureNeverAborts
<1>5. DeadlockIsReal'
  BY DEF OutcomeInv, ReasonComesLast, DeadlockIsReal
<1>6. PlannerSeesEveryStep' /\ FirstCall'
  BY DEF PlannerSeesEveryStep, FirstCall
<1>7. RecordedStepsStayInPlan'
  BY DEF RecordedStepsStayInPlan, RecordedStepsInPlan, Undisturbed, AllIds, Recorded
<1>. QED  BY <1>2, <1>3, <1>4, <1>5, <1>6, <1>7 DEF OutcomeInv

(* A call returns with a verdict: only the verdict has to be looked at.      *)
LEMMA ReturnStep ==
  ASSUME IInv, OutcomeInv, pc \in Running, pc # "reset", pc' \notin Running,
         UNCHANGED <<workflowFile, crashes, faults>>,
         stateFile'.status \in Terminal,
         stateFile'.completed = stateFile.completed,
         Recorded(stateFile') \subseteq
            Recorded(stateFile) \cup (IF pc = "exec" THEN {step.id} ELSE {}),
         evaluated \subseteq evaluated', pc = "decide" => step.id \in evaluated',
         stateFile'.status = "FAILED" => aborted' = TRUE,
         CompletedIsComplete', DeadlockIsReal'
  PROVE  OutcomeInv'
<1>1. MarkedAreRecorded' /\ PlanOnDisk' /\ ReasonComesLast' /\ AwaitsPlanner'
      /\ FirstCall' /\ RecordsAreTerminal'
  BY DEF MarkedAreRecorded, PlanOnDisk, ReasonComesLast, AwaitsPlanner, FirstCall,
         RecordsAreTerminal, Running
<1>2. FailedMeansAborted'
  BY DEF FailedMeansAborted, SingleFailureNeverAborts
<1>3. PlannerSeesEveryStep'
  BY DEF OutcomeInv, PlannerSeesEveryStep, AwaitsPlanner, Undisturbed
<1>4. RecordedStepsStayInPlan'
  <2>. SUFFICES ASSUME Undisturbed PROVE Recorded(stateFile') \subseteq AllIds(workflowFile)
    BY DEF RecordedStepsStayInPlan, RecordedStepsInPlan, Undisturbed, AllIds, Recorded
  <2>1. AllIds(workflowFile) = AllIds(workflow)
    BY DEF OutcomeInv, PlanOnDisk, SavedPlan, AllIds, Undisturbed
  <2>2. Recorded(stateFile) \subseteq AllIds(workflowFile)
    BY DEF OutcomeInv, RecordedStepsStayInPlan, RecordedStepsInPlan, Undisturbed
  <2>3. pc = "exec" => step.id \in AllIds(workflow)
    BY DEF OutcomeInv, RecordsAreTerminal
  <2>. QED  BY <2>1, <2>2, <2>3
<1>. QED  BY <1>1, <1>2, <1>3, <1>4 DEF OutcomeInv

(* After a fault the invariant asks little.                                  *)
LEMMA FaultyStep ==
  ASSUME IInv, faults' > 0, MarkedAreRecorded', ReasonComesLast', faults' \in Nat
  PROVE  OutcomeInv'
BY DEF OutcomeInv, PlanOnDisk, CompletedIsComplete, DeadlockIsReal, FailedMeansAborted,
       PlannerSeesEveryStep, AwaitsPlanner, FirstCall, RecordsAreTerminal,
       RecordedStepsStayInPlan, Undisturbed

-----------------------------------------------------------------------------
(* Every step keeps the invariant                                            *)

LEMMA NextOutcome == IInv /\ IInv' /\ OutcomeInv /\ [Next]_vars => OutcomeInv'
<1>. SUFFICES ASSUME IInv, IInv', OutcomeInv, [Next]_vars PROVE OutcomeInv'
  OBVIOUS
<1>. USE DEF Save, files, memory, environment, observation
<1>t. /\ workflowFile \in Plan /\ workflow \in MemPlan
      /\ stateFile \in State /\ state \in State
      /\ crashes \in Nat /\ faults \in Nat
      /\ pc \in Running => state = stateFile
      /\ pc \in Running =>
            state.status = (IF pc = "reset" THEN "FAILED" ELSE "IN_PROGRESS")
  BY Shapes
<1>m. pc \in Running => workflow.marked \subseteq Recorded(stateFile)
  BY <1>t DEF OutcomeInv, MarkedAreRecorded
<1>p. faults = 0 /\ pc \in Running =>
         workflowFile.list = workflow.list /\ AllIds(workflowFile) = AllIds(workflow)
  BY DEF OutcomeInv, PlanOnDisk, SavedPlan, AllIds
<1>n. pc \in Running => stateFile.reason = "none"
  BY DEF OutcomeInv, ReasonComesLast
<1>e. /\ Undisturbed /\ pc # "decide" => stateFile.completed \subseteq evaluated
      /\ Undisturbed /\ pc = "decide" => stateFile.completed \subseteq evaluated \cup {step.id}
  BY DEF OutcomeInv, PlannerSeesEveryStep, AwaitsPlanner, Undisturbed
<1>r. Undisturbed /\ pc \in Running =>
        /\ Recorded(stateFile) \subseteq
              TerminalIds(workflow) \cup (IF pc = "reset" THEN {step.id} ELSE {})
        /\ pc # "loop" => step.id \in AllIds(workflow)
        /\ Recorded(stateFile) \subseteq AllIds(workflowFile)
  BY <1>t DEF OutcomeInv, RecordsAreTerminal, RecordedStepsStayInPlan, RecordedStepsInPlan,
              Undisturbed
<1>v. ASSUME NEW st \in Status, NEW r \in Reasons, pc \in Running,
             stateFile' = WithVerdict(state, st, r)
      PROVE  /\ stateFile'.status = st /\ stateFile'.reason = r
             /\ stateFile'.completed = stateFile.completed
             /\ Recorded(stateFile') = Recorded(stateFile)
  BY <1>v, <1>t DEF WithVerdict, State, Recorded
(* A failed step marks or has marked nothing new.                            *)
<1>k. ASSUME NEW id \in Nat, workflow' = [workflow EXCEPT !.marked = @ \cup {id}]
      PROVE  /\ workflow'.list = workflow.list /\ workflow'.kept = workflow.kept
             /\ workflow'.count = workflow.count
             /\ workflow'.marked = workflow.marked \cup {id}
             /\ AllIds(workflow') = AllIds(workflow)
             /\ TerminalIds(workflow') = TerminalIds(workflow) \cup {id}
  BY <1>k, <1>t DEF MemPlan, AllIds, TerminalIds
<1>s. step.id \in Nat
  BY DEF IInv, TypeOK, Step
<1>1. CASE Execute
  <2>1. /\ pc \notin Running /\ pc' = "loop" /\ stateFile.status \notin Terminal
        /\ workflow' = LoadedPlan(workflowFile)
        /\ stateFile' = [stateFile EXCEPT !.status = "IN_PROGRESS"] /\ state' = stateFile'
        /\ UNCHANGED <<workflowFile, crashes, faults, evaluated, aborted>>
    BY <1>1 DEF Execute, MayExecute, Running
  <2>2. /\ stateFile'.status = "IN_PROGRESS" /\ stateFile'.reason = "none"
        /\ stateFile'.completed = stateFile.completed
        /\ Recorded(stateFile') = Recorded(stateFile)
    BY <2>1, <1>t DEF State, Status, Recorded, OutcomeInv, ReasonComesLast
  <2>3. MarkedAreRecorded' /\ PlanOnDisk' /\ ReasonComesLast'
    BY <2>1, <2>2, <1>t DEF MarkedAreRecorded, PlanOnDisk, ReasonComesLast, LoadedPlan, SavedPlan,
                            Plan, Recorded
  <2>4. CompletedIsComplete' /\ DeadlockIsReal' /\ FailedMeansAborted'
    BY <2>2 DEF CompletedIsComplete, DeadlockIsReal, FailedMeansAborted, SingleFailureNeverAborts
  <2>5. PlannerSeesEveryStep' /\ AwaitsPlanner' /\ FirstCall'
    BY <2>1, <2>2, <1>e DEF PlannerSeesEveryStep, AwaitsPlanner, FirstCall, Undisturbed, Running
  <2>6. RecordsAreTerminal' /\ RecordedStepsStayInPlan'
    <3>1. Undisturbed => Recorded(stateFile') = {}
      BY <2>1, <2>2 DEF OutcomeInv, FirstCall
    <3>. QED  BY <2>1, <3>1 DEF RecordsAreTerminal, RecordedStepsStayInPlan, RecordedStepsInPlan,
                                Undisturbed, Recorded
  <2>. QED  BY <2>3, <2>4, <2>5, <2>6 DEF OutcomeInv
<1>2. CASE ExecuteFinished
  <2>1. /\ pc \notin Running /\ pc' = "idle" /\ stateFile.status \in Terminal
        /\ UNCHANGED <<workflowFile, stateFile, workflow, state, step, crashes, faults,
                       evaluated, aborted>>
    BY <1>2 DEF ExecuteFinished, Running
  <2>2. MarkedAreRecorded' /\ PlanOnDisk' /\ ReasonComesLast' /\ CompletedIsComplete'
        /\ DeadlockIsReal'
    BY <2>1 DEF OutcomeInv, MarkedAreRecorded, PlanOnDisk, ReasonComesLast, CompletedIsComplete,
                DeadlockIsReal, Running, Recorded
  <2>3. FailedMeansAborted' /\ PlannerSeesEveryStep' /\ AwaitsPlanner' /\ FirstCall'
        /\ RecordsAreTerminal' /\ RecordedStepsStayInPlan'
    BY <2>1 DEF OutcomeInv, FailedMeansAborted, SingleFailureNeverAborts, PlannerSeesEveryStep,
                AwaitsPlanner, FirstCall, RecordsAreTerminal, RecordedStepsStayInPlan,
                RecordedStepsInPlan, Undisturbed, Running, Recorded, AllIds
  <2>. QED  BY <2>2, <2>3 DEF OutcomeInv
<1>3. ASSUME NEW i \in DOMAIN workflow.list, SkipStep(i)
      PROVE  OutcomeInv'
  <2>. DEFINE id == workflow.list[i].id
  <2>1. /\ pc = "loop" /\ pc' = "loop" /\ state' = stateFile'
        /\ stateFile' = WithSkip(stateFile, id)
        /\ workflow' = [workflow EXCEPT !.marked = @ \cup {id}]
        /\ UNCHANGED <<workflowFile, step, crashes, faults, evaluated, aborted>>
    BY <1>3, <1>t DEF SkipStep, MarkTerminal, Running
  <2>2. id \in Nat /\ id \in AllIds(workflow)
    BY NextStepBounded DEF AllIds
  <2>3. /\ Recorded(stateFile') = Recorded(stateFile) \cup {id}
        /\ stateFile'.completed = stateFile.completed /\ stateFile'.reason = stateFile.reason
    BY <2>1, <1>t DEF WithSkip, State, Recorded
  <2>4. PlannerSeesEveryStep' /\ AwaitsPlanner'
    BY <2>1, <2>3, <1>e DEF PlannerSeesEveryStep, AwaitsPlanner, Undisturbed
  <2>5. RecordsAreTerminal'
    BY <2>1, <2>2, <2>3, <1>r, <1>k DEF RecordsAreTerminal, Undisturbed, Recorded, TerminalIds,
                                        Running
  <2>6. Undisturbed => Recorded(stateFile') \subseteq AllIds(workflowFile)
    BY <2>1, <2>2, <2>3, <1>r, <1>p DEF Running, Undisturbed
  <2>7. workflow'.marked \subseteq Recorded(state')
    BY <2>1, <2>2, <2>3, <1>m, <1>k DEF Running
  <2>. QED  BY <2>1, <2>2, <2>3, <2>4, <2>5, <2>6, <2>7, <1>k, InsideStep DEF Running
<1>4. ASSUME NEW i \in DOMAIN workflow.list, StartStep(i)
      PROVE  OutcomeInv'
  <2>1. /\ pc = "loop" /\ pc' = "exec" /\ state' = stateFile'
        /\ stateFile' = [stateFile EXCEPT !.status = "IN_PROGRESS"]
        /\ step' = workflow.list[i]
        /\ UNCHANGED <<workflowFile, workflow, crashes, faults, evaluated, aborted>>
    BY <1>4, <1>t DEF StartStep, Running
  <2>2. workflow.list[i].id \in AllIds(workflow)
    BY DEF AllIds
  <2>3. /\ Recorded(stateFile') = Recorded(stateFile)
        /\ stateFile'.completed = stateFile.completed /\ stateFile'.reason = stateFile.reason
    BY <2>1, <1>t DEF State, Recorded
  <2>4. PlannerSeesEveryStep' /\ AwaitsPlanner'
    BY <2>1, <2>3, <1>e DEF PlannerSeesEveryStep, AwaitsPlanner, Undisturbed
  <2>5. RecordsAreTerminal'
    BY <2>1, <2>2, <2>3, <1>r DEF RecordsAreTerminal, Undisturbed, Recorded, TerminalIds,
                                  AllIds, Running
  <2>6. Undisturbed => Recorded(stateFile') \subseteq AllIds(workflowFile)
    BY <2>1, <2>3, <1>r DEF Running
  <2>7. workflow'.marked \subseteq Recorded(state')
    BY <2>1, <2>3, <1>m DEF Running
  <2>. QED  BY <2>1, <2>3, <2>4, <2>5, <2>6, <2>7, InsideStep DEF Running
<1>5. ASSUME NEW i \in DOMAIN workflow.list, HitCeiling(i)
      PROVE  OutcomeInv'
  <2>1. /\ pc = "loop" /\ pc' = "idle"
        /\ stateFile' = WithVerdict(state, "BLOCKED", "max_steps_reached")
        /\ UNCHANGED <<workflowFile, crashes, faults, evaluated, aborted>>
    BY <1>5 DEF HitCeiling, SaveAndReturn
  <2>2. /\ stateFile'.status = "BLOCKED" /\ stateFile'.reason = "max_steps_reached"
        /\ stateFile'.completed = stateFile.completed
        /\ Recorded(stateFile') = Recorded(stateFile)
    BY <2>1, <1>v DEF Status, Reasons, Running
  <2>. QED  BY <2>1, <2>2, ReturnStep DEF Running, Terminal, CompletedIsComplete, DeadlockIsReal
(* Nothing is runnable: the two verdicts of the end of the loop.             *)
<1>6. CASE FinishRun
  <2>1. /\ pc = "loop" /\ pc' = "idle"
        /\ stateFile' = FinishVerdict /\ state.status = "IN_PROGRESS"
        /\ \A i \in DOMAIN workflow.list : ~Runnable(i)
        /\ UNCHANGED <<workflowFile, crashes, faults, evaluated, aborted>>
    BY <1>6, <1>t DEF FinishRun, SaveAndReturn, Running
  <2>2. \A i \in DOMAIN workflow.list :
           workflow.list[i].id \notin Recorded(stateFile) => i \in Remaining
    BY <2>1, <1>m, <1>t DEF Remaining, Running
  <2>3. CASE Remaining = {}
    <3>1. stateFile' = WithVerdict(state, "COMPLETED", "none")
      BY <2>1, <2>3, <1>n, <1>t DEF FinishVerdict, Running
    <3>2. /\ stateFile'.status = "COMPLETED" /\ stateFile'.reason = "none"
          /\ stateFile'.completed = stateFile.completed
          /\ Recorded(stateFile') = Recorded(stateFile)
      BY <2>1, <3>1, <1>v DEF Status, Reasons, Running
    <3>3. CompletedIsComplete'
      BY <2>1, <2>2, <2>3, <3>2, <1>p DEF CompletedIsComplete, Recorded, Running
    <3>. QED  BY <2>1, <3>2, <3>3, ReturnStep DEF Running, Terminal, DeadlockIsReal
  <2>4. CASE Remaining # {}
    <3>1. stateFile' = WithVerdict(state, "BLOCKED", "deadlock_detected")
      BY <2>1, <2>4 DEF FinishVerdict
    <3>2. /\ stateFile'.status = "BLOCKED" /\ stateFile'.reason = "deadlock_detected"
          /\ stateFile'.completed = stateFile.completed
          /\ Recorded(stateFile') = Recorded(stateFile)
      BY <2>1, <3>1, <1>v DEF Status, Reasons, Running
    <3>3. DeadlockIsReal'
      <4>. SUFFICES ASSUME faults = 0
                    PROVE  LET open == {i \in DOMAIN workflow.list :
                                          workflow.list[i].id \notin Recorded(stateFile)}
                           IN  /\ open # {}
                               /\ \A i \in open :
                                     ~(workflow.list[i].deps \subseteq stateFile.completed)
        BY <2>1, <3>2, <1>p DEF DeadlockIsReal, Recorded, Running
      <4>. DEFINE open == {i \in DOMAIN workflow.list :
                             workflow.list[i].id \notin Recorded(stateFile)}
      <4>1. open = Remaining
        BY <2>1, <2>2, <1>t DEF Remaining, Running
      <4>2. ASSUME NEW i \in open PROVE ~(workflow.list[i].deps \subseteq stateFile.completed)
        <5>1. i \in DOMAIN workflow.list /\ i \in Remaining /\ ~Runnable(i)
          BY <4>1, <2>1
        <5>. QED  BY <5>1, <2>1, <1>t DEF Remaining, Runnable, AlreadyDone, DepsDone, Running
      <4>. QED  BY <4>1, <4>2, <2>4
    <3>. QED  BY <2>1, <3>2, <3>3, ReturnStep DEF Running, Terminal, CompletedIsComplete
  <2>. QED  BY <2>3, <2>4
<1>7. CASE RetryStep
  <2>1. /\ pc = "exec" /\ pc' = "exec"
        /\ UNCHANGED <<workflowFile, stateFile, workflow, state, step>>
        /\ UNCHANGED <<crashes, faults, evaluated, aborted>>
    BY <1>7 DEF RetryStep
  <2>2. PlannerSeesEveryStep' /\ AwaitsPlanner'
    BY <2>1, <1>e DEF PlannerSeesEveryStep, AwaitsPlanner, Undisturbed
  <2>3. RecordsAreTerminal'
    BY <2>1 DEF OutcomeInv, RecordsAreTerminal, Undisturbed, Recorded, TerminalIds, AllIds, Running
  <2>. QED  BY <2>1, <2>2, <2>3, <1>r, <1>m, <1>t, InsideStep DEF Running, Recorded
<1>8. CASE CompleteStep
  <2>1. /\ pc = "exec" /\ pc' = "decide" /\ state' = stateFile'
        /\ stateFile' = WithComplete(stateFile, step.id)
        /\ workflow' = [workflow EXCEPT !.marked = @ \cup {step.id}]
        /\ UNCHANGED <<workflowFile, step, crashes, faults, evaluated, aborted>>
    BY <1>8, <1>t DEF CompleteStep, GoToPlanner, MarkTerminal, Running
  <2>2. /\ Recorded(stateFile') = Recorded(stateFile) \cup {step.id}
        /\ stateFile'.completed = stateFile.completed \cup {step.id}
        /\ stateFile'.reason = stateFile.reason
    BY <2>1, <1>t DEF WithComplete, State, Recorded
  <2>3. AwaitsPlanner'
    BY <2>1, <2>2, <1>e DEF AwaitsPlanner, Undisturbed
  <2>4. RecordsAreTerminal'
    BY <2>1, <2>2, <1>r, <1>k, <1>s DEF RecordsAreTerminal, Undisturbed, Recorded, TerminalIds,
                                        AllIds, Running
  <2>5. Undisturbed => Recorded(stateFile') \subseteq AllIds(workflowFile)
    BY <2>1, <2>2, <1>r, <1>p DEF Running, Undisturbed
  <2>6. workflow'.marked \subseteq Recorded(state')
    BY <2>1, <2>2, <1>m, <1>k, <1>s DEF Running
  <2>. QED  BY <2>1, <2>2, <2>3, <2>4, <2>5, <2>6, <1>k, <1>s, InsideStep DEF Running
<1>9. CASE MissRegistry \/ ExhaustRetries
  <2>1. /\ pc = "exec" /\ pc' = "reset" /\ state' = stateFile'
        /\ stateFile' = WithFailure(stateFile, step.id)
        /\ UNCHANGED <<workflowFile, workflow, step, crashes, faults, evaluated, aborted>>
    BY <1>9, <1>t DEF MissRegistry, ExhaustRetries, RecordStepFailure, Running
  <2>2. /\ Recorded(stateFile') = Recorded(stateFile) \cup {step.id}
        /\ stateFile'.completed = stateFile.completed /\ stateFile'.reason = stateFile.reason
    BY <2>1, <1>t DEF WithFailure, State, Recorded
  <2>3. PlannerSeesEveryStep' /\ AwaitsPlanner'
    BY <2>1, <2>2, <1>e DEF PlannerSeesEveryStep, AwaitsPlanner, Undisturbed
  <2>4. RecordsAreTerminal'
    BY <2>1, <2>2, <1>r DEF RecordsAreTerminal, Undisturbed, Recorded, TerminalIds, AllIds, Running
  <2>5. Undisturbed => Recorded(stateFile') \subseteq AllIds(workflowFile)
    BY <2>1, <2>2, <1>r, <1>p DEF Running, Undisturbed
  <2>6. workflow'.marked \subseteq Recorded(state') /\ step'.id \in Recorded(state')
    BY <2>1, <2>2, <1>m DEF Running
  <2>. QED  BY <2>1, <2>2, <2>3, <2>4, <2>5, <2>6, InsideStep DEF Running
<1>10. CASE ReopenAfterFailure
  <2>1. /\ pc = "reset" /\ pc' = "loop" /\ state' = stateFile'
        /\ stateFile' = Reopened(stateFile)
        /\ workflow' = [workflow EXCEPT !.marked = @ \cup {step.id}]
        /\ UNCHANGED <<workflowFile, crashes, faults, evaluated, aborted>>
    BY <1>10, <1>t DEF ReopenAfterFailure, BackToLoop, MarkTerminal, Running
  <2>2. /\ Recorded(stateFile') = Recorded(stateFile)
        /\ stateFile'.completed = stateFile.completed /\ stateFile'.reason = stateFile.reason
    BY <2>1, <1>t DEF Reopened, State, Recorded
  <2>3. PlannerSeesEveryStep' /\ AwaitsPlanner'
    BY <2>1, <2>2, <1>e DEF PlannerSeesEveryStep, AwaitsPlanner, Undisturbed
  <2>4. RecordsAreTerminal'
    BY <2>1, <2>2, <1>r, <1>k, <1>s DEF RecordsAreTerminal, Undisturbed, Recorded, TerminalIds,
                                        Running
  <2>5. step.id \in Recorded(stateFile)
    BY <2>1, <1>t DEF OutcomeInv, MarkedAreRecorded, Running
  <2>6. workflow'.marked \subseteq Recorded(state')
    BY <2>1, <2>2, <2>5, <1>m, <1>k, <1>s DEF Running
  <2>. QED  BY <2>1, <2>2, <2>3, <2>4, <2>6, <1>r, <1>k, <1>s, InsideStep DEF Running
<1>11. CASE AbortStep
  <2>1. /\ pc = "exec" /\ pc' = "idle" /\ aborted' = TRUE
        /\ stateFile' = WithFailure(stateFile, step.id)
        /\ UNCHANGED <<workflowFile, crashes, faults, evaluated>>
    BY <1>11, <1>t DEF AbortStep, SaveAndReturn, Running
  <2>2. /\ Recorded(stateFile') = Recorded(stateFile) \cup {step.id}
        /\ stateFile'.completed = stateFile.completed /\ stateFile'.reason = stateFile.reason
        /\ stateFile'.status = "FAILED"
    BY <2>1, <1>t DEF WithFailure, State, Recorded
  <2>. QED
    BY <2>1, <2>2, <1>n, ReturnStep DEF Running, Terminal, CompletedIsComplete, DeadlockIsReal
<1>12. CASE CompleteRaises
  <2>1. /\ pc' = "idle" /\ faults' = faults + 1
        /\ stateFile' = WithFailure(WithComplete(state, step.id), step.id)
    BY <1>12 DEF CompleteRaises, SaveAndReturn
  <2>2. stateFile'.status = "FAILED"
    BY <2>1, <1>t DEF WithFailure, WithComplete, State
  <2>. QED
    BY <2>1, <2>2, <1>t, FaultyStep DEF MarkedAreRecorded, ReasonComesLast, Running, Terminal
<1>13. CASE ContinueRun
  <2>1. /\ pc = "decide" /\ pc' = "loop" /\ evaluated' = evaluated \cup {step.id}
        /\ UNCHANGED <<workflowFile, stateFile, workflow, state, crashes, faults, aborted>>
    BY <1>13 DEF ContinueRun, BackToLoop, AskPlanner
  <2>2. PlannerSeesEveryStep' /\ AwaitsPlanner'
    BY <2>1, <1>e DEF PlannerSeesEveryStep, AwaitsPlanner, Undisturbed
  <2>3. RecordsAreTerminal'
    BY <2>1 DEF OutcomeInv, RecordsAreTerminal, Undisturbed, Recorded, TerminalIds, Running
  <2>. QED  BY <2>1, <2>2, <2>3, <1>r, <1>m, <1>t, InsideStep DEF Running, Recorded
(* A revision keeps what is terminal, hence everything recorded.             *)
<1>14. ASSUME NEW revised \in ReplanAnswers(workflow, step), Replan(revised)
       PROVE  OutcomeInv'
  <2>1. /\ pc = "decide" /\ pc' = "loop" /\ evaluated' = evaluated \cup {step.id}
        /\ workflow' = Revised(workflow, revised) /\ workflowFile' = SavedPlan(workflow')
        /\ UNCHANGED <<stateFile, state, crashes, faults, aborted>>
    BY <1>14 DEF Replan, BackToLoop, AskPlanner
  <2>2. /\ workflow'.marked = {} /\ workflow'.kept = TerminalIds(workflow)
        /\ TerminalIds(workflow') = TerminalIds(workflow)
        /\ TerminalIds(workflow) \subseteq AllIds(workflowFile')
    BY <2>1 DEF Revised, TerminalIds, SavedPlan, AllIds
  <2>3. stateFile.status = "IN_PROGRESS" /\ stateFile.reason = "none" /\ state = stateFile
    BY <2>1, <1>t, <1>n DEF Running
  <2>4. MarkedAreRecorded' /\ PlanOnDisk' /\ ReasonComesLast'
    BY <2>1, <2>2, <2>3 DEF MarkedAreRecorded, PlanOnDisk, ReasonComesLast
  <2>5. CompletedIsComplete' /\ DeadlockIsReal' /\ FailedMeansAborted'
    BY <2>1, <2>3 DEF CompletedIsComplete, DeadlockIsReal, FailedMeansAborted,
                      SingleFailureNeverAborts
  <2>6. PlannerSeesEveryStep' /\ AwaitsPlanner' /\ FirstCall'
    BY <2>1, <1>e DEF PlannerSeesEveryStep, AwaitsPlanner, FirstCall, Undisturbed, Running
  <2>7. Undisturbed => Recorded(stateFile) \subseteq TerminalIds(workflow)
    BY <2>1, <1>r DEF Running
  <2>8. RecordsAreTerminal'
    BY <2>1, <2>2, <2>3, <2>7 DEF RecordsAreTerminal, Undisturbed, Recorded, TerminalIds
  <2>9. RecordedStepsStayInPlan'
    BY <2>1, <2>2, <2>7 DEF RecordedStepsStayInPlan, RecordedStepsInPlan, Undisturbed, Recorded,
                            AllIds
  <2>. QED  BY <2>4, <2>5, <2>6, <2>8, <2>9 DEF OutcomeInv
<1>15. ASSUME NEW revised \in ReplanAnswers(workflow, step), ReplanUnsaved(revised)
       PROVE  OutcomeInv'
  <2>1. /\ pc = "decide" /\ pc' = "loop" /\ faults' = faults + 1
        /\ workflow' = Revised(workflow, revised) /\ UNCHANGED <<stateFile, state>>
    BY <1>15 DEF ReplanUnsaved, BackToLoop
  <2>2. MarkedAreRecorded' /\ ReasonComesLast'
    BY <2>1, <1>n DEF MarkedAreRecorded, ReasonComesLast, Revised, Running
  <2>. QED  BY <2>1, <2>2, <1>t, FaultyStep
<1>16. CASE EscalateHuman
  <2>1. /\ pc = "decide" /\ pc' = "idle" /\ evaluated' = evaluated \cup {step.id}
        /\ stateFile' = WithVerdict(state, "BLOCKED", "human_review_required")
        /\ UNCHANGED <<workflowFile, crashes, faults, aborted>>
    BY <1>16 DEF EscalateHuman, SaveAndReturn, AskPlanner
  <2>2. /\ stateFile'.status = "BLOCKED" /\ stateFile'.reason = "human_review_required"
        /\ stateFile'.completed = stateFile.completed
        /\ Recorded(stateFile') = Recorded(stateFile)
    BY <2>1, <1>v DEF Status, Reasons, Running
  <2>. QED  BY <2>1, <2>2, ReturnStep DEF Running, Terminal, CompletedIsComplete, DeadlockIsReal
<1>17. CASE TerminateRun
  <2>1. /\ pc = "decide" /\ pc' = "idle" /\ evaluated' = evaluated \cup {step.id}
        /\ stateFile' = WithVerdict(state, "COMPLETED", "early_termination")
        /\ UNCHANGED <<workflowFile, crashes, faults, aborted>>
    BY <1>17 DEF TerminateRun, SaveAndReturn, AskPlanner
  <2>2. /\ stateFile'.status = "COMPLETED" /\ stateFile'.reason = "early_termination"
        /\ stateFile'.completed = stateFile.completed
        /\ Recorded(stateFile') = Recorded(stateFile)
    BY <2>1, <1>v DEF Status, Reasons, Running
  <2>. QED  BY <2>1, <2>2, ReturnStep DEF Running, Terminal, CompletedIsComplete, DeadlockIsReal
(* A crash leaves the files, whose verdict is not final while a call runs.   *)
<1>18. CASE Crash
  <2>1. /\ pc \in Running /\ pc' = "idle" /\ crashes' = crashes + 1
        /\ UNCHANGED <<workflowFile, stateFile, faults>>
    BY <1>18 DEF Crash
  <2>2. stateFile.reason = "none" /\ stateFile.status \in {"FAILED", "IN_PROGRESS"}
    BY <2>1, <1>n, <1>t
  <2>3. MarkedAreRecorded' /\ PlanOnDisk' /\ ReasonComesLast'
    BY <2>1, <2>2 DEF MarkedAreRecorded, PlanOnDisk, ReasonComesLast, Running
  <2>4. CompletedIsComplete' /\ DeadlockIsReal'
    BY <2>1, <2>2 DEF CompletedIsComplete, DeadlockIsReal
  <2>5. ~(Undisturbed') /\ crashes' # 0
    BY <2>1, <1>t DEF Undisturbed
  <2>. QED
    BY <2>3, <2>4, <2>5 DEF OutcomeInv, FailedMeansAborted, PlannerSeesEveryStep, AwaitsPlanner,
                            FirstCall, RecordsAreTerminal, RecordedStepsStayInPlan
<1>19. CASE SaveRaises
  <2>1. /\ pc \in Running \/ stateFile.status \notin Terminal
        /\ pc' = "raised" /\ faults' = faults + 1 /\ UNCHANGED stateFile
    BY <1>19 DEF SaveRaises, MayExecute
  <2>2. MarkedAreRecorded' /\ ReasonComesLast'
    BY <2>1 DEF OutcomeInv, MarkedAreRecorded, ReasonComesLast, Running
  <2>. QED  BY <2>1, <2>2, <1>t, FaultyStep
<1>20. CASE UNCHANGED vars
  BY <1>20 DEF vars, OutcomeInv, MarkedAreRecorded, PlanOnDisk, ReasonComesLast,
       CompletedIsComplete, DeadlockIsReal, FailedMeansAborted, SingleFailureNeverAborts,
       PlannerSeesEveryStep, AwaitsPlanner, FirstCall, RecordsAreTerminal,
       RecordedStepsStayInPlan, RecordedStepsInPlan, Recorded, Undisturbed, AllIds, TerminalIds
<1>. QED
  BY <1>1, <1>2, <1>3, <1>4, <1>5, <1>6, <1>7, <1>8, <1>9, <1>10, <1>11, <1>12, <1>13, <1>14,
     <1>15, <1>16, <1>17, <1>18, <1>19, <1>20
  DEF Next, EngineStep, Fault

(* The strengthened invariant holds in every reachable state.                *)
THEOREM OutcomeInvHolds == Spec => []OutcomeInv
<1>1. Init => OutcomeInv
  BY InitOutcome
<1>2. IInv /\ IInv' /\ OutcomeInv /\ [Next]_vars => OutcomeInv'
  BY NextOutcome
<1>. QED  BY <1>1, <1>2, InvariantHolds, PTL DEF Spec

-----------------------------------------------------------------------------
(* What the verdicts mean                                                    *)

(* A workflow whose status is COMPLETED, and that no planner ended early,    *)
(* has an outcome for every step of the saved plan, if no save failed.       *)
THEOREM CompletedWorkflowsAreComplete == Spec => []CompletedIsComplete
<1>1. OutcomeInv => CompletedIsComplete
  BY DEF OutcomeInv
<1>. QED  BY <1>1, OutcomeInvHolds, PTL

(* deadlock_detected is never a false alarm unless a save failed: every step *)
(* left open waits for a step that did not complete, and there is one.       *)
THEOREM DeadlocksAreReal == Spec => []DeadlockIsReal
<1>1. OutcomeInv => DeadlockIsReal
  BY DEF OutcomeInv
<1>. QED  BY <1>1, OutcomeInvHolds, PTL

(* While the process lives and its saves succeed, FAILED is what a fatal or  *)
(* unexpected error leaves behind and nothing else does.                     *)
THEOREM FailuresAreFatal == Spec => []FailedMeansAborted
<1>1. OutcomeInv => FailedMeansAborted
  BY DEF OutcomeInv
<1>. QED  BY <1>1, OutcomeInvHolds, PTL

(* While the process lives and its saves succeed, no revision drops a step   *)
(* with an outcome from workflow.json.                                       *)
THEOREM RevisionsKeepRecords == Spec => []RecordedStepsStayInPlan
<1>1. OutcomeInv => RecordedStepsStayInPlan
  BY DEF OutcomeInv
<1>. QED  BY <1>1, OutcomeInvHolds, PTL

(* While the process lives and its saves succeed, no step starts and no      *)
(* workflow ends before the planner has evaluated every completed step.      *)
THEOREM PlannerMissesNothing == Spec => []PlannerSeesEveryStep
<1>1. OutcomeInv => PlannerSeesEveryStep
  BY DEF OutcomeInv
<1>. QED  BY <1>1, OutcomeInvHolds, PTL

=============================================================================
