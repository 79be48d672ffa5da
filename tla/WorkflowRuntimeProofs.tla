----------------------- MODULE WorkflowRuntimeProofs -----------------------
(* Theorems about WorkflowRuntime for every set of plans and proposals, every *)
(* bound on crashes and faults, and every value of the other constants.      *)
EXTENDS WorkflowRuntime, WellFoundedInduction, TLAPS

-----------------------------------------------------------------------------
(* The maximum of a bounded set of numbers                                   *)

Less == {p \in Nat \X Nat : p[1] < p[2]}

LEMMA LessIsWellFounded == IsWellFoundedOn(Less, Nat)
<1>1. Less = OpToRel(<, Nat)
  BY DEF Less, OpToRel
<1>. QED  BY <1>1, NatLessThanWellFounded

(* FiniteSetsExt's Max is what its name says on a bounded set.               *)
LEMMA MaxOfBounded ==
  ASSUME NEW S \in SUBSET Nat, S # {}, NEW b \in Nat, \A k \in S : k <= b
  PROVE  /\ Max(S) \in S
         /\ \A k \in S : k <= Max(S)
<1>. DEFINE Up == {n \in Nat : \A k \in S : k <= n}
<1>1. Up \subseteq Nat /\ Up # {}
  OBVIOUS
<1>2. PICK m \in Up : \A n \in Up : <<n, m>> \notin Less
  BY <1>1, LessIsWellFounded, WFMin
<1>3. ASSUME NEW n \in Up PROVE m <= n
  <2>1. \A x, y \in Nat : x < y => <<x, y>> \in Less
    BY DEF Less
  <2>2. m \in Nat /\ n \in Nat /\ <<n, m>> \notin Less
    BY <1>2
  <2>. QED  BY <2>1, <2>2
<1>4. m \in S
  <2>1. SUFFICES ASSUME m \notin S PROVE FALSE
    OBVIOUS
  <2>2. m \in Nat /\ \A k \in S : k \in Nat /\ k < m
    BY <2>1, <1>2
  <2>3. PICK k \in S : TRUE
    OBVIOUS
  <2>4. m # 0
    BY <2>2, <2>3
  <2>5. m - 1 \in Up
    BY <2>2, <2>4
  <2>. QED  BY <2>2, <2>4, <2>5, <1>3
<1>5. \E x \in S : \A y \in S : x >= y
  BY <1>4, <1>2
<1>. QED  BY <1>5 DEF Max

-----------------------------------------------------------------------------
(* The inductive invariant                                                   *)

(* Step numbers grow by at most one with each revision: the fallback step's  *)
(* number is one more than the highest of the plan.  A running call has seen *)
(* every revision on disk.                                                   *)
PlanBounded(w) == \A k \in AllIds(w) : k <= IdBound + w.count

IdsBounded ==
    /\ PlanBounded(workflowFile) /\ workflowFile.count <= MaxReplans
    /\ PlanBounded(workflow) /\ workflow.count <= MaxReplans
    /\ pc \in Running => workflowFile.count <= workflow.count
    /\ \A k \in workflow.marked : k <= IdBound + workflow.count
    /\ pc \in {"exec", "reset", "decide"} => step.id <= IdBound + workflow.count
    /\ \A k \in Recorded(stateFile) : k <= IdBound + MaxReplans

(* The step being executed has no outcome, and no step of a running workflow *)
(* has two: what CompleteRaises leaves behind is never loaded again.         *)
StepIsFresh ==
    /\ pc = "exec" => step.id \notin Recorded(state)
    /\ pc \in Running => stateFile.completed \cap stateFile.failed = {}

IInv == TypeOK /\ MemoryIsDurable /\ IdsBounded /\ StepIsFresh /\ OneOutcome

-----------------------------------------------------------------------------
(* Types of the operators on states and plans                                *)

LEMMA StateOperators ==
  ASSUME NEW s \in State, NEW id \in Nat, NEW st \in Status, NEW r \in Reasons
  PROVE  /\ WithSkip(s, id) \in State
         /\ WithComplete(s, id) \in State
         /\ WithFailure(s, id) \in State
         /\ WithVerdict(s, st, r) \in State
         /\ [s EXCEPT !.status = st] \in State
         /\ Reopened(s) \in State
BY DEF State, Status, Reasons, WithSkip, WithComplete, WithFailure, WithVerdict, Reopened

LEMMA ListedSteps ==
  ASSUME NEW list \in Seq(Step), NEW i \in DOMAIN list
  PROVE  list[i] \in Step /\ list[i].id \in Nat /\ list[i].deps \in SUBSET Nat
<1>1. list[i] \in Step
  OBVIOUS
<1>. QED  BY <1>1 DEF Step

LEMMA PlanOperators ==
  ASSUME NEW w \in MemPlan, NEW f \in Plan, NEW revised \in Seq(Step), NEW id \in Nat
  PROVE  /\ Revised(w, revised) \in MemPlan
         /\ SavedPlan(Revised(w, revised)) \in Plan
         /\ LoadedPlan(f) \in MemPlan
         /\ [w EXCEPT !.marked = @ \cup {id}] \in MemPlan
<1>1. Revised(w, revised) \in MemPlan
  BY DEF Revised, MemPlan, TerminalIds
<1>2. SavedPlan(Revised(w, revised)) \in Plan
  BY <1>1 DEF SavedPlan, MemPlan, Plan
<1>3. LoadedPlan(f) \in MemPlan
  BY DEF LoadedPlan, MemPlan, Plan
<1>4. [w EXCEPT !.marked = @ \cup {id}] \in MemPlan
  BY DEF MemPlan
<1>. QED  BY <1>1, <1>2, <1>3, <1>4

LEMMA AllIdsType ==
  ASSUME NEW w, w.list \in Seq(Step), w.kept \in SUBSET Nat
  PROVE  AllIds(w) \in SUBSET Nat
BY ListedSteps DEF AllIds

(* Every answer to a replan prompt is a list of steps whose numbers exceed   *)
(* the bound of the current plan by one at most.                             *)
LEMMA AnswerTypes ==
  ASSUME TypeOK, IdsBounded, NEW revised \in ReplanAnswers(workflow, step)
  PROVE  /\ revised \in Seq(Step)
         /\ \A i \in DOMAIN revised : revised[i].id <= IdBound + workflow.count + 1
<1>. DEFINE ids == {0} \cup AllIds(workflow)
            b == IdBound + workflow.count
<1>1. b \in Nat /\ ids \in SUBSET Nat /\ ids # {} /\ \A k \in ids : k <= b
  <2>1. /\ workflow.list \in Seq(Step) /\ workflow.kept \in SUBSET Nat
        /\ workflow.count \in Nat
    BY DEF TypeOK, MemPlan
  <2>2. IdBound \in Nat
    BY RuntimeAssumption DEF RuntimeAssumption
  <2>3. AllIds(workflow) \in SUBSET Nat /\ \A k \in AllIds(workflow) : k <= b
    BY <2>1, AllIdsType DEF IdsBounded, PlanBounded
  <2>. QED  BY <2>1, <2>2, <2>3
<1>2. Max(ids) \in Nat /\ Max(ids) <= b
  BY <1>1, MaxOfBounded
<1>3. CASE revised \in Proposals
  <2>1. revised \in Seq(Step) /\ IdBound \in Nat
        /\ \A i \in DOMAIN revised : revised[i].id <= IdBound
    BY <1>3, RuntimeAssumption DEF RuntimeAssumption
  <2>2. workflow.count \in Nat
    BY DEF TypeOK, MemPlan
  <2>. QED  BY <2>1, <2>2, ListedSteps
<1>4. CASE revised = Fallback(workflow, step)
  <2>1. NextStepId(workflow) \in Nat /\ NextStepId(workflow) <= b + 1
    BY <1>1, <1>2 DEF NextStepId
  <2>2. step.id \in Nat
    BY DEF TypeOK, Step
  <2>. DEFINE s == [id |-> NextStepId(workflow), deps |-> {step.id},
                    conditional |-> FALSE, tries |-> 1]
  <2>3. s \in Step
    BY <2>1, <2>2 DEF Step
  <2>4. revised = <<s>>
    BY <1>4 DEF Fallback
  <2>5. revised \in Seq(Step) /\ DOMAIN revised = {1} /\ revised[1] = s
    BY <2>3, <2>4
  <2>. QED  BY <2>1, <2>5
<1>. QED  BY <1>3, <1>4 DEF ReplanAnswers

-----------------------------------------------------------------------------
(* Init and the steps                                                        *)

LEMMA InitIInv == Init => IInv
<1>. SUFFICES ASSUME Init PROVE IInv
  OBVIOUS
<1>. USE DEF Init, NoPlan, NewState, NoStep
<1>0. InitialPlans \subseteq Seq(Step) /\ IdBound \in Nat /\ MaxReplans \in Nat
      /\ \A plan \in InitialPlans : \A i \in DOMAIN plan : plan[i].id <= IdBound
  BY RuntimeAssumption DEF RuntimeAssumption
<1>1. PICK plan \in InitialPlans :
        workflowFile = [list |-> plan, kept |-> {}, count |-> 0]
  OBVIOUS
<1>2. TypeOK
  <2>1. workflowFile \in Plan
    BY <1>0, <1>1 DEF Plan
  <2>2. stateFile \in State /\ state \in State
    BY DEF State, Status, Reasons
  <2>3. workflow \in MemPlan
    BY DEF MemPlan
  <2>4. step \in Step
    BY DEF Step
  <2>5. aborted \in BOOLEAN
    OBVIOUS
  <2>6. /\ pc \in Running \cup {"idle", "raised"}
        /\ attempts \in Nat /\ started \in Nat /\ crashes \in Nat /\ faults \in Nat
        /\ evaluated \in SUBSET Nat
    BY DEF Running
  <2>. QED  BY <2>1, <2>2, <2>3, <2>4, <2>5, <2>6 DEF TypeOK
<1>3. MemoryIsDurable /\ StepIsFresh /\ OneOutcome
  BY DEF MemoryIsDurable, StepIsFresh, OneOutcome, Running
<1>4. IdsBounded
  <2>1. PlanBounded(workflowFile)
    BY <1>0, <1>1 DEF PlanBounded, AllIds
  <2>2. PlanBounded(workflow)
    BY <1>0 DEF PlanBounded, AllIds
  <2>. QED  BY <1>0, <1>1, <2>1, <2>2 DEF IdsBounded, Recorded
<1>. QED  BY <1>2, <1>3, <1>4 DEF IInv

LEMMA BoundsAreNaturals ==
  /\ IdBound \in Nat /\ MaxReplans \in Nat
  /\ MaxSteps \in Nat /\ MaxCrashes \in Nat /\ MaxFaults \in Nat
BY RuntimeAssumption DEF RuntimeAssumption

(* Returning, raising and crashing leave nothing in memory: only the new     *)
(* content of state.json has to be looked at.                                *)
LEMMA ForgettingStep ==
  ASSUME IInv, ForgetMemory, pc' \in {"idle", "raised"}, workflowFile' = workflowFile,
         stateFile' \in State, crashes' \in Nat, faults' \in Nat,
         evaluated' \in SUBSET Nat, aborted' \in BOOLEAN,
         \A k \in Recorded(stateFile') : k <= IdBound + MaxReplans,
         OneOutcome'
  PROVE  IInv'
<1>. USE DEF ForgetMemory, NoPlan, NewState, NoStep
<1>1. TypeOK'
  <2>1. workflow' \in MemPlan
    BY DEF MemPlan
  <2>2. state' \in State
    BY DEF State, Status, Reasons
  <2>3. step' \in Step
    BY DEF Step
  <2>4. workflowFile' \in Plan
    BY DEF IInv, TypeOK
  <2>5. attempts' \in Nat /\ started' \in Nat /\ pc' \in Running \cup {"idle", "raised"}
    BY DEF Running
  <2>. QED  BY <2>1, <2>2, <2>3, <2>4, <2>5 DEF TypeOK
<1>2. MemoryIsDurable' /\ StepIsFresh'
  BY DEF MemoryIsDurable, StepIsFresh, Running
<1>3. IdsBounded'
  <2>1. PlanBounded(workflowFile)' /\ workflowFile'.count <= MaxReplans
    BY DEF IInv, IdsBounded, PlanBounded, AllIds
  <2>2. PlanBounded(workflow)' /\ workflow'.count <= MaxReplans
    BY BoundsAreNaturals DEF PlanBounded, AllIds
  <2>3. /\ \A k \in workflow'.marked : k <= IdBound + workflow'.count
        /\ step'.id <= IdBound + workflow'.count
    BY BoundsAreNaturals
  <2>. QED  BY <2>1, <2>2, <2>3 DEF IdsBounded, Recorded, Running
<1>. QED  BY <1>1, <1>2, <1>3 DEF IInv

(* A list element's number respects the plan's bound.                        *)
LEMMA NextStepBounded ==
  ASSUME IInv, NEW i \in DOMAIN workflow.list
  PROVE  /\ workflow.list[i] \in Step
         /\ workflow.list[i].id \in Nat
         /\ workflow.list[i].id <= IdBound + workflow.count
<1>1. workflow.list \in Seq(Step)
  BY DEF IInv, TypeOK, MemPlan
<1>2. workflow.list[i].id \in AllIds(workflow)
  BY DEF AllIds
<1>. QED  BY <1>1, <1>2, ListedSteps DEF IInv, IdsBounded, PlanBounded

(* A step of a running call that leaves the plan alone, apart from marking   *)
(* one of its steps.                                                         *)
LEMMA SamePlanStep ==
  ASSUME IInv, pc \in Running, pc' \in Running, workflowFile' = workflowFile,
         NEW id \in Nat, id <= IdBound + workflow.count,
         \/ workflow' = workflow
         \/ workflow' = [workflow EXCEPT !.marked = @ \cup {id}],
         step' \in Step,
         pc' \in {"exec", "reset", "decide"} => step'.id <= IdBound + workflow.count,
         attempts' \in Nat, started' \in Nat,
         crashes' \in Nat, faults' \in Nat,
         evaluated' \in SUBSET Nat, aborted' \in BOOLEAN,
         stateFile' \in State, state' = stateFile',
         stateFile'.status = (IF pc' = "reset" THEN "FAILED" ELSE "IN_PROGRESS"),
         Recorded(stateFile') \subseteq Recorded(stateFile) \cup {id},
         StepIsFresh', OneOutcome'
  PROVE  IInv'
<1>. workflow \in MemPlan /\ workflow.count \in Nat /\ workflow.count <= MaxReplans
  BY DEF IInv, TypeOK, MemPlan, IdsBounded
<1>1. /\ workflow' \in MemPlan
      /\ workflow'.list = workflow.list /\ workflow'.kept = workflow.kept
      /\ workflow'.count = workflow.count
      /\ workflow'.marked \subseteq workflow.marked \cup {id}
  BY DEF MemPlan
<1>2. TypeOK'
  <2>1. workflowFile' \in Plan
    BY DEF IInv, TypeOK
  <2>. QED  BY <1>1, <2>1 DEF TypeOK
<1>3. MemoryIsDurable'
  BY DEF MemoryIsDurable
<1>4. IdsBounded'
  <2>1. PlanBounded(workflowFile)' /\ workflowFile'.count <= MaxReplans
    BY DEF IInv, IdsBounded, PlanBounded, AllIds
  <2>2. PlanBounded(workflow)' /\ workflow'.count <= MaxReplans
    BY <1>1 DEF IInv, IdsBounded, PlanBounded, AllIds
  <2>3. \A k \in workflow'.marked : k <= IdBound + workflow'.count
    BY <1>1 DEF IInv, IdsBounded
  <2>4. id <= IdBound + MaxReplans
    BY BoundsAreNaturals
  <2>5. \A k \in Recorded(stateFile') : k <= IdBound + MaxReplans
    BY <2>4 DEF IInv, IdsBounded
  <2>6. workflowFile'.count <= workflow'.count
    BY <1>1 DEF IInv, IdsBounded
  <2>. QED  BY <1>1, <2>1, <2>2, <2>3, <2>5, <2>6 DEF IdsBounded, Recorded
<1>. QED  BY <1>2, <1>3, <1>4 DEF IInv

(* A revision replaces the plan in memory, and on disk if it can be saved.   *)
LEMMA RevisionStep ==
  ASSUME IInv, pc = "decide", BackToLoop, MayReplan,
         NEW revised \in ReplanAnswers(workflow, step),
         workflow' = Revised(workflow, revised),
         \/ workflowFile' = workflowFile
         \/ workflowFile' = SavedPlan(Revised(workflow, revised)),
         UNCHANGED <<stateFile, state, started, crashes, aborted>>,
         faults' \in Nat, faults' >= faults,
         evaluated' \in SUBSET Nat
  PROVE  IInv'
<1>. USE DEF BackToLoop, NoStep
<1>1. /\ revised \in Seq(Step)
      /\ \A i \in DOMAIN revised : revised[i].id <= IdBound + workflow.count + 1
  BY AnswerTypes DEF IInv
<1>2. /\ workflow \in MemPlan /\ workflow.count \in Nat
      /\ workflow.kept \in SUBSET Nat /\ workflow.marked \in SUBSET Nat
      /\ IdBound \in Nat
  BY BoundsAreNaturals DEF IInv, TypeOK, MemPlan
<1>3. Revised(workflow, revised) \in MemPlan /\ SavedPlan(Revised(workflow, revised)) \in Plan
  BY <1>1, <1>2, PlanOperators DEF IInv, TypeOK
<1>4. TypeOK'
  <2>1. workflowFile' \in Plan
    BY <1>3 DEF IInv, TypeOK
  <2>2. step' \in Step /\ attempts' \in Nat /\ pc' \in Running \cup {"idle", "raised"}
    BY DEF Step, Running
  <2>. QED  BY <1>3, <2>1, <2>2 DEF IInv, TypeOK
<1>5. MemoryIsDurable'
  BY DEF IInv, MemoryIsDurable, Running
<1>6. IdsBounded'
  <2>1. \A k \in TerminalIds(workflow) : k \in Nat /\ k <= IdBound + workflow.count
    BY <1>2 DEF IInv, IdsBounded, PlanBounded, AllIds, TerminalIds
  <2>2. \A k \in TerminalIds(workflow) : k <= IdBound + workflow.count + 1
    BY <1>2, <2>1
  <2>3. workflow.count + 1 <= MaxReplans
    BY <1>2, BoundsAreNaturals DEF MayReplan
  <2>. DEFINE ids == TerminalIds(workflow) \cup {revised[i].id : i \in DOMAIN revised}
              n == workflow.count + 1
  <2>9. \A k \in ids : k <= IdBound + n
    <3>1. \A i \in DOMAIN revised : revised[i].id \in Nat
      BY <1>1, ListedSteps
    <3>2. \A k \in ids : k \in Nat /\ k <= IdBound + workflow.count + 1
      BY <1>1, <2>1, <2>2, <3>1
    <3>3. IdBound + n = IdBound + workflow.count + 1
      BY <1>2
    <3>. QED  BY <3>2, <3>3
  <2>10. AllIds(Revised(workflow, revised)) = ids /\ Revised(workflow, revised).count = n
    BY DEF AllIds, Revised
  <2>4. PlanBounded(workflow)' /\ workflow'.count <= MaxReplans
    <3>1. AllIds(workflow') = ids /\ workflow'.count = n
      BY <2>10
    <3>. QED  BY <2>3, <2>9, <3>1 DEF PlanBounded, AllIds
  <2>5. PlanBounded(workflowFile)' /\ workflowFile'.count <= MaxReplans
    <3>1. CASE workflowFile' = workflowFile
      BY <3>1 DEF IInv, IdsBounded, PlanBounded, AllIds
    <3>2. CASE workflowFile' = SavedPlan(Revised(workflow, revised))
      <4>1. AllIds(workflowFile') = ids /\ workflowFile'.count = n
        BY <2>10, <3>2 DEF SavedPlan, AllIds
      <4>. QED  BY <2>3, <2>9, <4>1 DEF PlanBounded, AllIds
    <3>. QED  BY <3>1, <3>2
  <2>6. workflow'.marked = {} /\ step'.id = 0 /\ workflow'.count = workflow.count + 1
    BY DEF Revised
  <2>7. step'.id <= IdBound + workflow'.count
    BY <1>2, <2>6
  <2>8. \A k \in Recorded(stateFile') : k <= IdBound + MaxReplans
    BY DEF IInv, IdsBounded
  <2>11. workflowFile'.count <= workflow'.count
    <3>1. workflowFile.count \in Nat /\ workflowFile.count <= workflow.count
      BY DEF IInv, IdsBounded, TypeOK, Plan, Running
    <3>. QED  BY <1>2, <2>6, <3>1 DEF SavedPlan
  <2>. QED  BY <2>4, <2>5, <2>6, <2>7, <2>8, <2>11 DEF IdsBounded, Recorded
<1>7. StepIsFresh' /\ OneOutcome'
  BY DEF IInv, StepIsFresh, OneOutcome, TypeOK, Running
<1>. QED  BY <1>4, <1>5, <1>6, <1>7 DEF IInv

(* The invariant is kept by every step.                                      *)
LEMMA NextIInv == IInv /\ [Next]_vars => IInv'
<1>. SUFFICES ASSUME IInv, [Next]_vars PROVE IInv'
  OBVIOUS
<1>. USE DEF Save, files, memory, environment, observation
<1>t. /\ workflowFile \in Plan /\ stateFile \in State /\ state \in State
      /\ workflow \in MemPlan /\ step \in Step /\ step.id \in Nat
      /\ attempts \in Nat /\ started \in Nat /\ crashes \in Nat /\ faults \in Nat
      /\ evaluated \in SUBSET Nat
  BY DEF IInv, TypeOK, Step
<1>b. aborted \in BOOLEAN
  BY DEF IInv, TypeOK
<1>d. /\ pc \in Running => state = stateFile
      /\ pc \in Running =>
            state.status = (IF pc = "reset" THEN "FAILED" ELSE "IN_PROGRESS")
  BY DEF IInv, MemoryIsDurable
<1>k. \A k \in Recorded(stateFile) : k <= IdBound + MaxReplans
  BY DEF IInv, IdsBounded
<1>s. pc \in {"exec", "reset", "decide"} => step.id <= IdBound + workflow.count
  BY DEF IInv, IdsBounded
<1>o. OneOutcome /\ StepIsFresh
  BY DEF IInv
<1>z. pc \in {"exec", "reset", "decide"} => step.id <= IdBound + MaxReplans
  BY <1>s, <1>t, BoundsAreNaturals DEF IInv, IdsBounded, MemPlan
(* Steps that leave the step records alone.                                  *)
<1>r. ASSUME stateFile'.completed = stateFile.completed,
             stateFile'.failed = stateFile.failed,
             stateFile'.skipped = stateFile.skipped
      PROVE  /\ Recorded(stateFile') = Recorded(stateFile)
             /\ \A k \in Recorded(stateFile') : k <= IdBound + MaxReplans
             /\ (pc \in Running \/ stateFile.status # "FAILED") => OneOutcome'
  BY <1>r, <1>k, <1>o DEF Recorded, OneOutcome, StepIsFresh
(* Steps that leave both files alone and at most count a fault.              *)
<1>f. ASSUME UNCHANGED stateFile, faults' \in Nat, faults' >= faults, aborted' = aborted
      PROVE  OneOutcome'
  BY <1>f, <1>o, <1>t DEF OneOutcome
<1>v. ASSUME NEW st \in Status, NEW r \in Reasons, pc \in Running,
             stateFile' = WithVerdict(state, st, r)
      PROVE  /\ stateFile' \in State
             /\ OneOutcome'
             /\ \A k \in Recorded(stateFile') : k <= IdBound + MaxReplans
  <2>1. stateFile' \in State
    BY <1>v, <1>t, StateOperators
  <2>2. /\ stateFile'.completed = stateFile.completed
        /\ stateFile'.failed = stateFile.failed
        /\ stateFile'.skipped = stateFile.skipped
    BY <1>v, <1>t, <1>d DEF WithVerdict, State
  <2>. QED  BY <2>1, <2>2, <1>r, <1>v
<1>1. CASE Execute
  <2>1. workflow' = LoadedPlan(workflowFile) /\ workflowFile' = workflowFile
    BY <1>1 DEF Execute
  <2>2. workflow' \in MemPlan
    BY <2>1, <1>t DEF LoadedPlan, MemPlan, Plan
  <2>3. stateFile' = [stateFile EXCEPT !.status = "IN_PROGRESS"] /\ state' = stateFile'
    BY <1>1 DEF Execute
  <2>4. /\ stateFile' \in State /\ stateFile'.status = "IN_PROGRESS"
        /\ stateFile'.completed = stateFile.completed
        /\ stateFile'.failed = stateFile.failed
        /\ stateFile'.skipped = stateFile.skipped
    BY <2>3, <1>t DEF State, Status
  <2>5. stateFile.status # "FAILED" /\ pc' = "loop"
    BY <1>1 DEF Execute, MayExecute, Terminal
  <2>6. TypeOK'
    BY <1>1, <2>1, <2>2, <2>3, <2>4, <2>5, <1>t, <1>b DEF Execute, TypeOK, Running
  <2>7. MemoryIsDurable'
    BY <2>3, <2>4, <2>5 DEF MemoryIsDurable
  <2>8. IdsBounded'
    <3>1. PlanBounded(workflowFile)' /\ PlanBounded(workflow)' /\ workflow'.marked = {}
          /\ workflow'.count = workflowFile.count /\ workflow'.count <= MaxReplans
          /\ workflowFile.count \in Nat
      BY <2>1, <1>t DEF Plan, IInv, IdsBounded, PlanBounded, AllIds, LoadedPlan
    <3>. QED  BY <3>1, <2>1, <2>4, <2>5, <1>r DEF IdsBounded, Recorded
  <2>9. OneOutcome' /\ StepIsFresh'
    BY <2>4, <2>5, <1>r, <1>o DEF OneOutcome, StepIsFresh
  <2>. QED  BY <2>6, <2>7, <2>8, <2>9 DEF IInv
<1>2. CASE ExecuteFinished
  <2>1. /\ UNCHANGED <<workflowFile, stateFile, workflow, state, step, attempts, started>>
        /\ UNCHANGED <<crashes, faults, evaluated, aborted>>
        /\ pc' = "idle"
    BY <1>2 DEF ExecuteFinished
  <2>2. TypeOK'
    BY <2>1, <1>t, <1>b DEF TypeOK, Running
  <2>3. MemoryIsDurable' /\ StepIsFresh'
    BY <2>1 DEF MemoryIsDurable, StepIsFresh, Running
  <2>4. IdsBounded'
    BY <2>1 DEF IInv, IdsBounded, PlanBounded, AllIds, Recorded, Running
  <2>5. OneOutcome'
    BY <2>1, <1>t, <1>f
  <2>. QED  BY <2>2, <2>3, <2>4, <2>5 DEF IInv
<1>3. ASSUME NEW i \in DOMAIN workflow.list, SkipStep(i)
      PROVE  IInv'
  <2>. DEFINE id == workflow.list[i].id
  <2>1. id \in Nat /\ id <= IdBound + workflow.count
    BY NextStepBounded
  <2>2. /\ pc = "loop" /\ pc' = "loop" /\ id \notin Recorded(stateFile)
        /\ stateFile' = WithSkip(stateFile, id) /\ state' = stateFile'
        /\ workflow' = [workflow EXCEPT !.marked = @ \cup {id}]
        /\ UNCHANGED <<workflowFile, step, attempts, started, crashes, faults, evaluated, aborted>>
    BY <1>3, <1>d DEF SkipStep, NextRunnable, Runnable, AlreadyDone, MarkTerminal, Running
  <2>3. /\ stateFile' \in State
        /\ stateFile'.completed = stateFile.completed
        /\ stateFile'.failed = stateFile.failed
        /\ stateFile'.skipped = stateFile.skipped \cup {id}
        /\ stateFile'.status = stateFile.status
    BY <2>1, <2>2, <1>t DEF WithSkip, State
  <2>4. OneOutcome' /\ StepIsFresh'
    BY <2>2, <2>3, <1>o DEF OneOutcome, StepIsFresh, Recorded, Running
  <2>. QED  BY <2>1, <2>2, <2>3, <2>4, <1>t, <1>b, <1>d, SamePlanStep DEF Running, Recorded
<1>4. ASSUME NEW i \in DOMAIN workflow.list, StartStep(i)
      PROVE  IInv'
  <2>. DEFINE s == workflow.list[i]
  <2>1. s \in Step /\ s.id \in Nat /\ s.id <= IdBound + workflow.count
    BY NextStepBounded
  <2>2. /\ pc = "loop" /\ pc' = "exec" /\ s.id \notin Recorded(stateFile)
        /\ stateFile' = [stateFile EXCEPT !.status = "IN_PROGRESS"] /\ state' = stateFile'
        /\ step' = s /\ attempts' = 1 /\ started' = started + 1
        /\ UNCHANGED <<workflowFile, workflow, crashes, faults, evaluated, aborted>>
    BY <1>4, <1>d DEF StartStep, NextRunnable, Runnable, AlreadyDone, Running
  <2>3. /\ stateFile' \in State /\ stateFile'.status = "IN_PROGRESS"
        /\ stateFile'.completed = stateFile.completed
        /\ stateFile'.failed = stateFile.failed
        /\ stateFile'.skipped = stateFile.skipped
    BY <2>2, <1>t DEF State, Status
  <2>4. OneOutcome' /\ StepIsFresh'
    BY <2>2, <2>3, <1>r, <1>o DEF StepIsFresh, Recorded, Running
  <2>. QED  BY <2>1, <2>2, <2>3, <2>4, <1>t, <1>b, SamePlanStep DEF Running, Recorded
<1>5. ASSUME NEW i \in DOMAIN workflow.list, HitCeiling(i)
      PROVE  IInv'
  <2>1. /\ pc = "loop" /\ pc' = "idle" /\ ForgetMemory
        /\ stateFile' = WithVerdict(state, "BLOCKED", "max_steps_reached")
        /\ UNCHANGED <<workflowFile, crashes, faults, evaluated, aborted>>
    BY <1>5 DEF HitCeiling, SaveAndReturn
  <2>. QED  BY <2>1, <1>v, <1>t, <1>b, ForgettingStep DEF Status, Reasons, Running
<1>6. CASE FinishRun
  <2>1. /\ pc = "loop" /\ pc' = "idle" /\ ForgetMemory
        /\ stateFile' = FinishVerdict /\ state.status = "IN_PROGRESS"
        /\ UNCHANGED <<workflowFile, crashes, faults, evaluated, aborted>>
    BY <1>6, <1>d DEF FinishRun, SaveAndReturn, Running
  <2>2. CASE Remaining = {}
    <3>1. stateFile' = WithVerdict(state, "COMPLETED", state.reason) /\ state.reason \in Reasons
      BY <2>1, <2>2, <1>t DEF FinishVerdict, State
    <3>. QED  BY <2>1, <3>1, <1>v, <1>t, <1>b, ForgettingStep DEF Status, Running
  <2>3. CASE Remaining # {}
    <3>1. stateFile' = WithVerdict(state, "BLOCKED", "deadlock_detected")
      BY <2>1, <2>3 DEF FinishVerdict
    <3>. QED  BY <2>1, <3>1, <1>v, <1>t, <1>b, ForgettingStep DEF Status, Reasons, Running
  <2>. QED  BY <2>2, <2>3
<1>7. CASE RetryStep
  <2>1. /\ pc = "exec" /\ pc' = "exec" /\ attempts' = attempts + 1
        /\ UNCHANGED <<workflowFile, stateFile, workflow, state, step, started>>
        /\ UNCHANGED <<crashes, faults, evaluated, aborted>>
    BY <1>7 DEF RetryStep
  <2>2. state' = stateFile' /\ stateFile'.status = "IN_PROGRESS"
    BY <2>1, <1>d DEF Running
  <2>3. OneOutcome' /\ StepIsFresh'
    BY <2>1, <1>f, <1>t, <1>o DEF StepIsFresh, Running
  <2>. QED  BY <2>1, <2>2, <2>3, <1>t, <1>b, <1>s, SamePlanStep DEF Running, Recorded
<1>8. CASE CompleteStep
  <2>1. /\ pc = "exec" /\ pc' = "decide"
        /\ stateFile' = WithComplete(stateFile, step.id) /\ state' = stateFile'
        /\ workflow' = [workflow EXCEPT !.marked = @ \cup {step.id}]
        /\ UNCHANGED <<workflowFile, step, attempts, started, crashes, faults, evaluated, aborted>>
    BY <1>8, <1>d DEF CompleteStep, GoToPlanner, MarkTerminal, Running
  <2>2. /\ stateFile' \in State
        /\ stateFile'.completed = stateFile.completed \cup {step.id}
        /\ stateFile'.failed = stateFile.failed
        /\ stateFile'.skipped = stateFile.skipped
        /\ stateFile'.status = stateFile.status
    BY <2>1, <1>t DEF WithComplete, State
  <2>3. step.id \notin Recorded(stateFile) /\ stateFile.status = "IN_PROGRESS"
    BY <2>1, <1>o, <1>d DEF StepIsFresh, Running
  <2>4. OneOutcome' /\ StepIsFresh'
    BY <2>1, <2>2, <2>3, <1>o DEF OneOutcome, StepIsFresh, Recorded, Running
  <2>. QED  BY <2>1, <2>2, <2>3, <2>4, <1>t, <1>b, <1>s, SamePlanStep DEF Running, Recorded
<1>9. CASE MissRegistry \/ ExhaustRetries
  <2>1. /\ pc = "exec" /\ pc' = "reset"
        /\ stateFile' = WithFailure(stateFile, step.id) /\ state' = stateFile'
        /\ UNCHANGED <<workflowFile, workflow, step, attempts, started>>
        /\ UNCHANGED <<crashes, faults, evaluated, aborted>>
    BY <1>9, <1>d DEF MissRegistry, ExhaustRetries, RecordStepFailure, Running
  <2>2. /\ stateFile' \in State
        /\ stateFile'.failed = stateFile.failed \cup {step.id}
        /\ stateFile'.completed = stateFile.completed
        /\ stateFile'.skipped = stateFile.skipped
        /\ stateFile'.status = "FAILED"
    BY <2>1, <1>t DEF WithFailure, State, Status
  <2>3. step.id \notin Recorded(stateFile)
    BY <2>1, <1>o, <1>d DEF StepIsFresh, Running
  <2>4. OneOutcome' /\ StepIsFresh'
    BY <2>1, <2>2, <2>3, <1>o DEF OneOutcome, StepIsFresh, Recorded, Running
  <2>. QED  BY <2>1, <2>2, <2>4, <1>t, <1>b, <1>s, SamePlanStep DEF Running, Recorded
<1>10. CASE ReopenAfterFailure
  <2>1. /\ pc = "reset" /\ pc' = "loop"
        /\ stateFile' = Reopened(stateFile) /\ state' = stateFile'
        /\ workflow' = [workflow EXCEPT !.marked = @ \cup {step.id}]
        /\ step' = NoStep /\ attempts' = 0
        /\ UNCHANGED <<workflowFile, started, crashes, faults, evaluated, aborted>>
    BY <1>10, <1>d DEF ReopenAfterFailure, BackToLoop, MarkTerminal, Running
  <2>2. /\ stateFile' \in State /\ stateFile'.status = "IN_PROGRESS"
        /\ stateFile'.completed = stateFile.completed
        /\ stateFile'.failed = stateFile.failed
        /\ stateFile'.skipped = stateFile.skipped
    BY <2>1, <1>t DEF Reopened, State, Status
  <2>3. OneOutcome' /\ StepIsFresh'
    BY <2>1, <2>2, <1>o DEF OneOutcome, StepIsFresh, Recorded, Running
  <2>4. step' \in Step
    BY <2>1 DEF NoStep, Step
  <2>. QED  BY <2>1, <2>2, <2>3, <2>4, <1>t, <1>b, <1>s, SamePlanStep DEF Running, Recorded
<1>11. CASE AbortStep
  <2>1. /\ pc = "exec" /\ pc' = "idle" /\ ForgetMemory /\ aborted' = TRUE
        /\ stateFile' = WithFailure(stateFile, step.id)
        /\ UNCHANGED <<workflowFile, crashes, faults, evaluated>>
    BY <1>11, <1>d DEF AbortStep, SaveAndReturn, Running
  <2>2. /\ stateFile' \in State
        /\ stateFile'.failed = stateFile.failed \cup {step.id}
        /\ stateFile'.completed = stateFile.completed
        /\ stateFile'.skipped = stateFile.skipped
    BY <2>1, <1>t DEF WithFailure, State, Status
  <2>3. step.id \notin Recorded(stateFile)
    BY <2>1, <1>o, <1>d DEF StepIsFresh, Running
  <2>4. OneOutcome'
    BY <2>1, <2>2, <2>3, <1>o DEF OneOutcome, StepIsFresh, Recorded, Running
  <2>5. \A k \in Recorded(stateFile') : k <= IdBound + MaxReplans
    BY <2>1, <2>2, <1>k, <1>z DEF Recorded
  <2>. QED  BY <2>1, <2>2, <2>4, <2>5, <1>t, ForgettingStep
<1>12. CASE CompleteRaises
  <2>1. /\ pc = "exec" /\ pc' = "idle" /\ ForgetMemory /\ aborted' = TRUE
        /\ stateFile' = WithFailure(WithComplete(stateFile, step.id), step.id)
        /\ faults' = faults + 1
        /\ UNCHANGED <<workflowFile, crashes, evaluated>>
    BY <1>12, <1>d DEF CompleteRaises, SaveAndReturn, Running
  <2>2. /\ stateFile' \in State
        /\ stateFile'.failed = stateFile.failed \cup {step.id}
        /\ stateFile'.completed = stateFile.completed \cup {step.id}
        /\ stateFile'.skipped = stateFile.skipped
        /\ stateFile'.status = "FAILED"
    BY <2>1, <1>t DEF WithFailure, WithComplete, State, Status
  <2>3. step.id \notin Recorded(stateFile)
    BY <2>1, <1>o, <1>d DEF StepIsFresh, Running
  <2>4. OneOutcome'
    BY <2>1, <2>2, <2>3, <1>o, <1>t DEF OneOutcome, StepIsFresh, Recorded, Running
  <2>5. \A k \in Recorded(stateFile') : k <= IdBound + MaxReplans
    BY <2>1, <2>2, <1>k, <1>z DEF Recorded
  <2>. QED  BY <2>1, <2>2, <2>4, <2>5, <1>t, ForgettingStep
<1>13. CASE ContinueRun
  <2>1. /\ pc = "decide" /\ pc' = "loop" /\ step' = NoStep /\ attempts' = 0
        /\ evaluated' = evaluated \cup {step.id}
        /\ UNCHANGED <<workflowFile, stateFile, workflow, state, started>>
        /\ UNCHANGED <<crashes, faults, aborted>>
    BY <1>13 DEF ContinueRun, BackToLoop, AskPlanner
  <2>2. state' = stateFile' /\ stateFile'.status = "IN_PROGRESS"
    BY <2>1, <1>d DEF Running
  <2>3. OneOutcome' /\ StepIsFresh'
    BY <2>1, <1>f, <1>t, <1>o DEF StepIsFresh, Running
  <2>4. step' \in Step
    BY <2>1 DEF NoStep, Step
  <2>. QED  BY <2>1, <2>2, <2>3, <2>4, <1>t, <1>b, <1>s, SamePlanStep DEF Running, Recorded
<1>14. ASSUME NEW revised \in ReplanAnswers(workflow, step),
              Replan(revised) \/ ReplanUnsaved(revised)
       PROVE  IInv'
  <2>1. /\ pc = "decide" /\ BackToLoop /\ MayReplan
        /\ evaluated' = evaluated \cup {step.id}
        /\ workflow' = Revised(workflow, revised)
        /\ \/ workflowFile' = workflowFile
           \/ workflowFile' = SavedPlan(Revised(workflow, revised))
        /\ UNCHANGED <<stateFile, state, started, crashes, aborted>>
        /\ faults' = faults \/ faults' = faults + 1
    BY <1>14 DEF Replan, ReplanUnsaved, AskPlanner
  <2>2. faults' \in Nat /\ faults' >= faults
    BY <2>1, <1>t
  <2>3. evaluated' \in SUBSET Nat
    BY <2>1, <1>t
  <2>. QED  BY <2>1, <2>2, <2>3, RevisionStep
<1>15. CASE EscalateHuman
  <2>1. /\ pc = "decide" /\ pc' = "idle" /\ ForgetMemory
        /\ stateFile' = WithVerdict(state, "BLOCKED", "human_review_required")
        /\ evaluated' = evaluated \cup {step.id}
        /\ UNCHANGED <<workflowFile, crashes, faults, aborted>>
    BY <1>15 DEF EscalateHuman, SaveAndReturn, AskPlanner
  <2>. QED  BY <2>1, <1>v, <1>t, <1>b, ForgettingStep DEF Status, Reasons, Running
<1>16. CASE TerminateRun
  <2>1. /\ pc = "decide" /\ pc' = "idle" /\ ForgetMemory
        /\ stateFile' = WithVerdict(state, "COMPLETED", "early_termination")
        /\ evaluated' = evaluated \cup {step.id}
        /\ UNCHANGED <<workflowFile, crashes, faults, aborted>>
    BY <1>16 DEF TerminateRun, SaveAndReturn, AskPlanner
  <2>. QED  BY <2>1, <1>v, <1>t, <1>b, ForgettingStep DEF Status, Reasons, Running
<1>17. CASE Crash \/ SaveRaises
  <2>1. /\ pc' \in {"idle", "raised"} /\ ForgetMemory
        /\ UNCHANGED <<workflowFile, stateFile, aborted>>
        /\ crashes' \in {crashes, crashes + 1} /\ faults' \in {faults, faults + 1}
        /\ evaluated' \in {evaluated, evaluated \cup {step.id}}
    BY <1>17 DEF Crash, SaveRaises
  <2>2. crashes' \in Nat /\ faults' \in Nat /\ faults' >= faults
    BY <2>1, <1>t
  <2>3. evaluated' \in SUBSET Nat
    BY <2>1, <1>t
  <2>. QED  BY <2>1, <2>2, <2>3, <1>f, <1>k, <1>t, <1>b, ForgettingStep
<1>18. CASE UNCHANGED vars
  BY <1>18 DEF vars, IInv, TypeOK, MemoryIsDurable, IdsBounded, PlanBounded, AllIds,
               StepIsFresh, OneOutcome, Recorded
<1>. QED
  BY <1>1, <1>2, <1>3, <1>4, <1>5, <1>6, <1>7, <1>8, <1>9, <1>10, <1>11, <1>12,
     <1>13, <1>14, <1>15, <1>16, <1>17, <1>18
  DEF Next, EngineStep, Fault

(* The invariant holds in every reachable state, and with it the types, the  *)
(* equality of the engine's memory and its file while a call runs, and the   *)
(* single outcome of each step, for every plan, proposal and bound.          *)
THEOREM InvariantHolds == Spec => []IInv
<1>. QED  BY InitIInv, NextIInv, PTL DEF Spec

(* Every variable keeps its type.                                            *)
THEOREM TypesHold == Spec => []TypeOK
<1>1. IInv => TypeOK
  BY DEF IInv
<1>. QED  BY <1>1, InvariantHolds, PTL

(* While a call runs, a restart would load the records it works with.        *)
THEOREM MemoryStaysDurable == Spec => []MemoryIsDurable
<1>1. IInv => MemoryIsDurable
  BY DEF IInv
<1>. QED  BY <1>1, InvariantHolds, PTL

(* No step gets a second outcome, save the one that aborts on a lost save.   *)
THEOREM StepsHaveOneOutcome == Spec => []OneOutcome
<1>1. IInv => OneOutcome
  BY DEF IInv
<1>. QED  BY <1>1, InvariantHolds, PTL

-----------------------------------------------------------------------------
(* The refinement: every step of the engine is a step of the ledger or       *)
(* leaves the ledger alone.                                                  *)

LEMMA LedgerInitially == Init => Ledger!LedgerInit
BY DEF Init, Ledger!LedgerInit, LedgerStatus, NewState

LEMMA LedgerStep ==
  ASSUME IInv, [Next]_vars
  PROVE  [Ledger!LedgerNext]_(Ledger!ledgerVars)
<1>. USE DEF Save, files, memory, environment, observation
<1>t. /\ stateFile \in State /\ state \in State /\ step.id \in Nat
      /\ workflow.count \in Nat /\ workflow.count <= MaxReplans
  BY DEF IInv, TypeOK, Step, MemPlan, IdsBounded
<1>d. /\ pc \in Running => state = stateFile
      /\ pc \in Running =>
            state.status = (IF pc = "reset" THEN "FAILED" ELSE "IN_PROGRESS")
  BY DEF IInv, MemoryIsDurable
<1>f. pc = "exec" => step.id \notin Recorded(state)
  BY DEF IInv, StepIsFresh
<1>n. ASSUME NEW id \in Nat, id <= IdBound + workflow.count
      PROVE  id \in 0..(IdBound + MaxReplans)
  BY <1>n, <1>t, BoundsAreNaturals
<1>s. pc \in {"exec", "reset", "decide"} => step.id \in 0..(IdBound + MaxReplans)
  <2>1. pc \in {"exec", "reset", "decide"} => step.id <= IdBound + workflow.count
    BY DEF IInv, IdsBounded
  <2>. QED  BY <2>1, <1>n, <1>t
(* The moves of the ledger, in the words of the engine.                      *)
<1>stutter. ASSUME LedgerStatus' = LedgerStatus,
                   stateFile'.completed = stateFile.completed,
                   stateFile'.failed = stateFile.failed,
                   stateFile'.skipped = stateFile.skipped
            PROVE  UNCHANGED Ledger!ledgerVars
  BY <1>stutter DEF Ledger!ledgerVars
<1>close. ASSUME LedgerStatus = "IN_PROGRESS", LedgerStatus' \in Terminal,
                 stateFile'.completed = stateFile.completed,
                 stateFile'.failed = stateFile.failed,
                 stateFile'.skipped = stateFile.skipped
          PROVE  Ledger!LedgerNext
  BY <1>close DEF Ledger!LedgerNext, Ledger!Close, Terminal
<1>record. ASSUME NEW id \in 0..(IdBound + MaxReplans), id \notin Recorded(stateFile),
                  LedgerStatus = "IN_PROGRESS", Ledger!RecordOutcome(id) \/ Ledger!RecordAndAbort(id)
           PROVE  Ledger!LedgerNext
  BY <1>record DEF Ledger!LedgerNext
<1>verdict. ASSUME NEW st \in Terminal, NEW r \in Reasons, pc \in Running \ {"reset"},
                   pc' = "idle", stateFile' = WithVerdict(state, st, r)
            PROVE  Ledger!LedgerNext
  <2>1. /\ LedgerStatus = "IN_PROGRESS" /\ LedgerStatus' = st
        /\ stateFile'.completed = stateFile.completed
        /\ stateFile'.failed = stateFile.failed
        /\ stateFile'.skipped = stateFile.skipped
    BY <1>verdict, <1>t, <1>d DEF LedgerStatus, WithVerdict, State, Terminal
  <2>. QED  BY <2>1, <1>close
<1>1. CASE Execute
  <2>1. /\ pc \in {"idle", "raised"} /\ pc' = "loop"
        /\ stateFile.status \in {"NOT_STARTED", "IN_PROGRESS"}
        /\ stateFile' = [stateFile EXCEPT !.status = "IN_PROGRESS"]
    BY <1>1, <1>t DEF Execute, MayExecute, Terminal, State, Status
  <2>2. /\ LedgerStatus = stateFile.status /\ LedgerStatus' = "IN_PROGRESS"
        /\ stateFile'.completed = stateFile.completed
        /\ stateFile'.failed = stateFile.failed
        /\ stateFile'.skipped = stateFile.skipped
    BY <2>1, <1>t DEF LedgerStatus, State
  <2>. QED  BY <2>1, <2>2, <1>stutter DEF Ledger!LedgerNext, Ledger!Open
<1>2. CASE ExecuteFinished
  BY <1>2, <1>stutter DEF ExecuteFinished, LedgerStatus
<1>3. ASSUME NEW i \in DOMAIN workflow.list, SkipStep(i)
      PROVE  Ledger!LedgerNext
  <2>. DEFINE id == workflow.list[i].id
  <2>1. id \in 0..(IdBound + MaxReplans)
    BY NextStepBounded, <1>n
  <2>2. /\ pc = "loop" /\ pc' = "loop" /\ id \notin Recorded(stateFile)
        /\ stateFile' = WithSkip(stateFile, id)
    BY <1>3, <1>d DEF SkipStep, NextRunnable, Runnable, AlreadyDone, Running
  <2>3. /\ LedgerStatus = "IN_PROGRESS" /\ LedgerStatus' = LedgerStatus
        /\ stateFile'.completed = stateFile.completed
        /\ stateFile'.failed = stateFile.failed
        /\ stateFile'.skipped = stateFile.skipped \cup {id}
    BY <2>2, <1>t, <1>d DEF WithSkip, State, LedgerStatus, Running
  <2>4. Ledger!RecordOutcome(id)
    BY <2>2, <2>3 DEF Ledger!RecordOutcome, Ledger!Recorded, Recorded
  <2>. QED  BY <2>1, <2>2, <2>3, <2>4, <1>record
<1>4. ASSUME NEW i \in DOMAIN workflow.list, StartStep(i)
      PROVE  UNCHANGED Ledger!ledgerVars
  <2>1. /\ pc = "loop" /\ pc' = "exec"
        /\ stateFile' = [stateFile EXCEPT !.status = "IN_PROGRESS"]
    BY <1>4, <1>d DEF StartStep, Running
  <2>. QED  BY <2>1, <1>t, <1>d, <1>stutter DEF LedgerStatus, State, Running
<1>5. ASSUME NEW i \in DOMAIN workflow.list, HitCeiling(i)
      PROVE  Ledger!LedgerNext
  BY <1>5, <1>verdict DEF HitCeiling, SaveAndReturn, Terminal, Reasons, Running
<1>6. CASE FinishRun
  <2>1. /\ pc = "loop" /\ pc' = "idle" /\ stateFile' = FinishVerdict
        /\ state.status = "IN_PROGRESS" /\ state.reason \in Reasons
    BY <1>6, <1>d, <1>t DEF FinishRun, SaveAndReturn, Running, State
  <2>2. CASE Remaining = {}
    BY <2>1, <2>2, <1>verdict DEF FinishVerdict, Terminal, Running
  <2>3. CASE Remaining # {}
    BY <2>1, <2>3, <1>verdict DEF FinishVerdict, Terminal, Running, Reasons
  <2>. QED  BY <2>2, <2>3
<1>7. CASE RetryStep
  BY <1>7, <1>stutter DEF RetryStep, LedgerStatus
<1>8. CASE CompleteStep
  <2>1. /\ pc = "exec" /\ pc' = "decide" /\ step.id \notin Recorded(stateFile)
        /\ stateFile' = WithComplete(stateFile, step.id)
    BY <1>8, <1>d, <1>f DEF CompleteStep, GoToPlanner, Running
  <2>2. /\ LedgerStatus = "IN_PROGRESS" /\ LedgerStatus' = LedgerStatus
        /\ stateFile'.completed = stateFile.completed \cup {step.id}
        /\ stateFile'.failed = stateFile.failed
        /\ stateFile'.skipped = stateFile.skipped
    BY <2>1, <1>t, <1>d DEF WithComplete, State, LedgerStatus, Running
  <2>3. Ledger!RecordOutcome(step.id)
    BY <2>1, <2>2 DEF Ledger!RecordOutcome, Ledger!Recorded, Recorded
  <2>. QED  BY <2>1, <2>2, <2>3, <1>record, <1>s
<1>9. CASE MissRegistry \/ ExhaustRetries
  <2>1. /\ pc = "exec" /\ pc' = "reset" /\ step.id \notin Recorded(stateFile)
        /\ stateFile' = WithFailure(stateFile, step.id)
    BY <1>9, <1>d, <1>f DEF MissRegistry, ExhaustRetries, RecordStepFailure, Running
  <2>2. /\ LedgerStatus = "IN_PROGRESS" /\ LedgerStatus' = LedgerStatus
        /\ stateFile'.completed = stateFile.completed
        /\ stateFile'.failed = stateFile.failed \cup {step.id}
        /\ stateFile'.skipped = stateFile.skipped
    BY <2>1, <1>t, <1>d DEF WithFailure, State, LedgerStatus, Running
  <2>3. Ledger!RecordOutcome(step.id)
    BY <2>1, <2>2 DEF Ledger!RecordOutcome, Ledger!Recorded, Recorded
  <2>. QED  BY <2>1, <2>2, <2>3, <1>record, <1>s
<1>10. CASE ReopenAfterFailure
  <2>1. pc = "reset" /\ pc' = "loop" /\ stateFile' = Reopened(stateFile)
    BY <1>10, <1>d DEF ReopenAfterFailure, BackToLoop, Running
  <2>. QED  BY <2>1, <1>t, <1>stutter DEF LedgerStatus, Reopened, State
<1>11. CASE AbortStep \/ CompleteRaises
  <2>1. /\ pc = "exec" /\ pc' = "idle" /\ step.id \notin Recorded(stateFile)
        /\ \/ stateFile' = WithFailure(stateFile, step.id)
           \/ stateFile' = WithFailure(WithComplete(stateFile, step.id), step.id)
    BY <1>11, <1>d, <1>f DEF AbortStep, CompleteRaises, SaveAndReturn, Running
  <2>2. /\ LedgerStatus = "IN_PROGRESS" /\ LedgerStatus' = "FAILED"
        /\ stateFile'.completed \in {stateFile.completed, stateFile.completed \cup {step.id}}
        /\ stateFile'.failed = stateFile.failed \cup {step.id}
        /\ stateFile'.skipped = stateFile.skipped
    BY <2>1, <1>t, <1>d DEF WithFailure, WithComplete, State, LedgerStatus, Running
  <2>3. Ledger!RecordAndAbort(step.id)
    BY <2>1, <2>2 DEF Ledger!RecordAndAbort, Ledger!Recorded, Recorded
  <2>. QED  BY <2>1, <2>2, <2>3, <1>record, <1>s
<1>12. CASE ContinueRun
  BY <1>12, <1>stutter DEF ContinueRun, BackToLoop, LedgerStatus
<1>13. ASSUME NEW revised \in ReplanAnswers(workflow, step),
              Replan(revised) \/ ReplanUnsaved(revised)
       PROVE  UNCHANGED Ledger!ledgerVars
  BY <1>13, <1>stutter DEF Replan, ReplanUnsaved, BackToLoop, LedgerStatus
<1>14. CASE EscalateHuman
  BY <1>14, <1>verdict DEF EscalateHuman, SaveAndReturn, Terminal, Reasons, Running
<1>15. CASE TerminateRun
  BY <1>15, <1>verdict DEF TerminateRun, SaveAndReturn, Terminal, Reasons, Running
(* A crash between the two saves of a failed step closes the workflow.       *)
<1>16. CASE Crash \/ SaveRaises
  <2>1. pc' \in {"idle", "raised"} /\ stateFile' = stateFile
    BY <1>16 DEF Crash, SaveRaises
  <2>2. LedgerStatus' = stateFile.status
    BY <2>1 DEF LedgerStatus
  <2>3. CASE pc = "reset"
    BY <2>1, <2>2, <2>3, <1>d, <1>close DEF LedgerStatus, Terminal, Running
  <2>4. CASE pc # "reset"
    BY <2>1, <2>2, <2>4, <1>stutter DEF LedgerStatus
  <2>. QED  BY <2>3, <2>4
<1>17. CASE UNCHANGED vars
  BY <1>17, <1>stutter DEF vars, LedgerStatus
<1>. QED
  BY <1>1, <1>2, <1>3, <1>4, <1>5, <1>6, <1>7, <1>8, <1>9, <1>10, <1>11, <1>12,
     <1>13, <1>14, <1>15, <1>16, <1>17
  DEF Next, EngineStep, Fault

(* state.json implements the ledger through crashes, failing saves, retries  *)
(* and revisions.                                                            *)
THEOREM LedgerIsImplemented == Spec => ImplementsLedger
<1>1. IInv /\ [Next]_vars => [Ledger!LedgerNext]_(Ledger!ledgerVars)
  BY LedgerStep
<1>. QED
  BY <1>1, LedgerInitially, InvariantHolds, PTL DEF Spec, ImplementsLedger, Ledger!LedgerSpec

-----------------------------------------------------------------------------
(* Action properties                                                         *)

(* No step of the engine or of its environment removes a step record: the    *)
(* ledger's steps never do.                                                  *)
THEOREM RecordsAreKept == Spec => RecordsNeverRemoved
<1>. DEFINE Kept == /\ stateFile.completed \subseteq stateFile'.completed
                    /\ stateFile.failed \subseteq stateFile'.failed
                    /\ stateFile.skipped \subseteq stateFile'.skipped
<1>1. ASSUME IInv, [Next]_vars PROVE Kept
  <2>1. [Ledger!LedgerNext]_(Ledger!ledgerVars)
    BY <1>1, LedgerStep
  <2>. QED
    BY <2>1 DEF Ledger!LedgerNext, Ledger!ledgerVars, Ledger!Open, Ledger!Close,
                Ledger!RecordOutcome, Ledger!RecordAndAbort
<1>2. IInv /\ [Next]_vars => [Kept]_vars
  BY <1>1
<1>. QED  BY <1>2, InvariantHolds, PTL DEF Spec, RecordsNeverRemoved

(* A step is started only with its dependencies durably completed and        *)
(* without a durable outcome of its own.                                     *)
THEOREM StartsAreJustified == Spec => StartIsJustified
<1>. DEFINE Justified == pc # "exec" /\ pc' = "exec" =>
                            /\ step'.id \notin Recorded(stateFile)
                            /\ step'.deps \subseteq stateFile.completed
<1>1. ASSUME IInv, Next PROVE Justified
  <2>. SUFFICES ASSUME pc # "exec", pc' = "exec"
                PROVE  /\ step'.id \notin Recorded(stateFile)
                       /\ step'.deps \subseteq stateFile.completed
    OBVIOUS
  <2>1. PICK i \in DOMAIN workflow.list : StartStep(i)
    BY <1>1
    DEF Next, EngineStep, Fault, Execute, ExecuteFinished, SkipStep, HitCeiling, FinishRun,
        SaveAndReturn, RetryStep, CompleteStep, GoToPlanner, MissRegistry, ExhaustRetries,
        RecordStepFailure, ReopenAfterFailure, BackToLoop, AbortStep, CompleteRaises,
        ContinueRun, Replan, ReplanUnsaved, EscalateHuman, TerminateRun, Crash, SaveRaises
  <2>2. state = stateFile
    BY <2>1, <1>1 DEF StartStep, IInv, MemoryIsDurable, Running
  <2>. QED  BY <2>1, <2>2 DEF StartStep, NextRunnable, Runnable, AlreadyDone, DepsDone
<1>2. IInv /\ [Next]_vars => [Justified]_vars
  BY <1>1
<1>. QED  BY <1>2, InvariantHolds, PTL DEF Spec, StartIsJustified

(* A finished workflow's files never change again.                           *)
THEOREM FinishedIsFinal == Spec => TerminalIsFinal
<1>. DEFINE Final == stateFile.status \in Terminal /\ pc # "reset" => UNCHANGED files
<1>1. ASSUME IInv, Next PROVE Final
  <2>. SUFFICES ASSUME stateFile.status \in Terminal, pc # "reset"
                PROVE  UNCHANGED files
    OBVIOUS
  <2>1. pc \notin Running
    BY <1>1 DEF IInv, MemoryIsDurable, Terminal
  <2>2. ExecuteFinished \/ SaveRaises
    BY <1>1, <2>1
    DEF Next, EngineStep, Fault, Running, MayExecute, Execute, SkipStep, StartStep, HitCeiling,
        FinishRun, RetryStep, CompleteStep, MissRegistry, ExhaustRetries, ReopenAfterFailure,
        AbortStep, CompleteRaises, ContinueRun, Replan, ReplanUnsaved, EscalateHuman,
        TerminateRun, Crash
  <2>. QED  BY <2>2 DEF ExecuteFinished, SaveRaises
<1>2. IInv /\ [Next]_vars => [Final]_vars
  BY <1>1
<1>. QED  BY <1>2, InvariantHolds, PTL DEF Spec, TerminalIsFinal

(* The saved plan changes only by revisions, which are counted and capped.   *)
THEOREM RevisionsAreBounded == Spec => RevisionsBounded
<1>. DEFINE Bounded == workflowFile' # workflowFile =>
                          /\ workflowFile.count < workflowFile'.count
                          /\ workflowFile'.count <= MaxReplans
<1>1. ASSUME IInv, IInv', Next PROVE Bounded
  <2>. SUFFICES ASSUME workflowFile' # workflowFile
                PROVE  /\ workflowFile.count < workflowFile'.count
                       /\ workflowFile'.count <= MaxReplans
    OBVIOUS
  <2>1. PICK revised \in ReplanAnswers(workflow, step) : Replan(revised)
    BY <1>1
    DEF Next, EngineStep, Fault, Execute, ExecuteFinished, files, SkipStep, StartStep, HitCeiling,
        FinishRun, RetryStep, CompleteStep, MissRegistry, ExhaustRetries, RecordStepFailure,
        ReopenAfterFailure, AbortStep, CompleteRaises, ContinueRun, ReplanUnsaved, EscalateHuman,
        TerminateRun, Crash, SaveRaises
  <2>2. workflowFile'.count = workflow.count + 1
    BY <2>1 DEF Replan, SavedPlan, Revised
  <2>3. pc = "decide"
    BY <2>1 DEF Replan
  <2>4. workflowFile.count \in Nat /\ workflow.count \in Nat
    BY <1>1 DEF IInv, TypeOK, Plan, MemPlan
  <2>5. workflowFile.count <= workflow.count /\ workflowFile'.count <= MaxReplans
    BY <1>1, <2>3 DEF IInv, IdsBounded, Running
  <2>. QED  BY <2>2, <2>4, <2>5
<1>2. IInv /\ IInv' /\ [Next]_vars => [Bounded]_vars
  BY <1>1
<1>. QED  BY <1>2, InvariantHolds, PTL DEF Spec, RevisionsBounded

=============================================================================
