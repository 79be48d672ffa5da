# Kozmo Programs (Cobalt): a TLA+ verification development

Cobalt turns a list of supplier names into vendor profiles. A programme goes
through processes that share files under `WORKSPACE_ROOT/<programme>/`:

1. *intake* decides for each name whether it is a vendor and builds its
   workspace,
2. *enrichment* runs a workflow of steps for each vendor of the register,
3. *relationship and spend* (RS) adds a second part to each profile,
4. *analysis* scores the vendor; a fifth process, plan and actions, is called by
   the server but its module is not in the repository.

What makes this hard is not computation but recovery. Every process promises
to survive a dying process, failing tools and failing writes, and files are the
only memory. The modules here model that control: what is written, in which
order, and what a restart makes of it. Paths below are relative to
`src/src/cobalt/`.

## Inventory

| Component | State | Operations | Hard behaviour | Correct when |
|---|---|---|---|---|
| `runtime/` engine, plan, execution state | `workflow.json`, `state.json`, the in-memory copies of both | `execute_workflow`, `record_step_*`, `apply_revision`, load, save | two files, several saves per step, a crash between any two, retries, revisions while running, failing saves | records never get lost, nothing done is done again, dependencies hold, verdicts mean what they say, every workflow settles |
| `agents/planning_agent.py` planner | none (reads `workflow.json`) | `create_workflow`, `evaluate_step`, `replan` | answers of a language model are validated, limit checked on disk and in memory | at most three revisions, only acceptable answers |
| `orchestrator/intake_orchestrator.py` | `checkpoint.json`, four reports, decision lists in memory | `run_intake` | crash and resume, failures swallowed at several levels, reports rewritten | nothing processed twice, nothing forgotten, reports agree |
| `tools/entity_decision_and_shell_creation.py`, `workspace/builder.py` | `{slug}_profile.md` | `decide_and_create`, `build_workspace`, `write_vendor_profile`, `write_rs_profile` | partial failure between files, read-modify-write | a registered vendor has a profile, enrichment is not erased |
| `core/atomic_write.py` | the file, its `.tmp`, the blob, the database | `atomic_write`, `append_md` | several threads, refused replacements, crash | readers see whole documents |
| `orchestrator/enrichment_orchestrator.py` | run cache, enrichment files | `run_enrichment`, `enrich_all_confirmed` | step results restored from a cache or lost | a result for each vendor, no vendor twice |
| `orchestrator/rs_orchestrator.py`, `analysis_orchestrator.py` | profile parts, `analysis_result.md`, history files, ledger | gates, tools in order, writes | stale gates, partial writes | gates see what they decide on |
| `run_server.py` | `_runs`, one queue and one thread per run | start, stream, log handler | concurrent runs of one programme, several clients of one queue | every client sees the end of a run |
| `db/` | SQL projection | `sync_to_db` after every write | failures swallowed | projection follows the files |
| `intake/`, `tools/source_intake.py`, `core/name_matching.py` | none | cleaning, keys, deduplication, resolution | two notions of "same name" | equal names meet |
| `core/` scores, `tools/` scoring | none | pure functions | boundaries | thresholds partition |
| `core/` clients, `agents/research_agent.py`, `agents/analysis_agent.py` | caches | network calls | fail or answer | failures stay local |

Interactions: the server's pipeline thread calls the orchestrators one after
the other. Intake writes the register, all later processes read it. The
enrichment orchestrator gives the engine a registry of step callables and the
planning agent as its planner (the RS orchestrator's planner always continues).
Every component writes its files through `atomic_write`.

## Modules

| Module | Models |
|---|---|
| `WorkflowRuntime` | `RuntimeEngine.execute_workflow`, `WorkflowDefinition`, `ExecutionState`, the planner's `evaluate_step` and `replan`, crashes, failing saves |
| `WorkflowLedger` | abstract specification: what `state.json` promises its readers |
| `Intake` | `run_intake` with checkpoint, reports and profiles, and the enrichment of registered vendors |
| `AtomicWrite` | `atomic_write` by several threads on one path |
| `VendorWorkspace` | the files of one vendor that three orchestrators share: profile, analysis result, history |
| `EnrichmentRun`, `RsRun`, `AnalysisRun` | `run_enrichment`, `run_rs` and `run_analysis` over those files |
| `VendorPipeline` | the composition of the three: runs that follow one another or overlap, days, crashes |
| `RunServer` | `run_server.py`: pipeline threads, queues, log handlers, streams |
| `ToolRun` | how the tools of a workflow hand their results on |
| `SourceCollection`, `AttributeExtraction`, `LifecycleMapping`, `ProfileCreation` | the tools of the ENRICHMENT workflow |
| `SpendCollection`, `SpendClassification`, `RsAssembly` | the tools of the RS workflow |
| `VendorInquiry`, `VendorFindings` | the tools of the ANALYSIS workflow |
| `VendorTools` | the composition of the tools |
| `MC...` | small instances of the module of that name |
| `WorkflowRuntimeProofs`, `WorkflowOutcomeProofs` | theorems about `WorkflowRuntime`: its records, then its verdicts |
| `IntakeProofs`, `AtomicWriteProofs`, `VendorPipelineProofs`, `RunServerProofs` | theorems about the module of that name |
| `VendorToolsProofs`, `VendorScoreProofs` | theorems about `VendorTools`: its evidence, then its numbers |

Three modules look at the same workflows from three sides. `WorkflowRuntime` has the
engine in full and steps that only succeed or fail; `VendorPipeline` has the files
and what the orchestrators do before and after a workflow; `VendorTools` has what
happens inside the steps, from the first source to the document.

A few definitions in the component modules are deliberate errors
(`SwappedVerdict`, `NeverSkip`, `FirstReported` and the like). No specification
uses them: each stands before the definition it spoils, and `PROJECT.json`
lists under `mutants` which property notices it.

### WorkflowRuntime

`workflowFile` and `stateFile` are the two files; `workflow`, `state`, `step`,
`attempts` and `started` are the local variables of `execute_workflow`, empty when no
call runs. `pc` follows the engine's thread: `loop` (choosing a step), `exec`
(retry loop), `reset` (between the two saves of a step that failed alone),
`decide` (the planner), `idle`, and `raised` after an exception left the
call. Each action is the code from one observable point to the next, normally one
save: `Execute`, `SkipStep`, `StartStep`, `HitCeiling`, `FinishRun`, `CompleteStep`,
`RetryStep`, `MissRegistry`, `ExhaustRetries`, `ReopenAfterFailure`, `AbortStep`,
`CompleteRaises`, `ContinueRun`, `Replan`, `ReplanUnsaved`, `EscalateHuman`,
`TerminateRun`, `Crash`, `SaveRaises`.

Abstractions. A step is its number, its dependencies, whether it has a
condition and its attempts. Whether a condition holds, a step succeeds, and
what the planner decides are choices. A plan is split into `kept` (ids that a
revision preserved, which the engine can never select again) and `list` (the
rest, in order), with `marked` for the terminal statuses in memory;
`workflow.json` needs no statuses because whenever it is saved all steps of `list`
are pending. An LLM answer is a member of `Proposals`, filtered by the
validation of the code. `evaluated` and `aborted` are observation
variables: no guard reads them.

### Intake

`checkpointFile`, `reports`, `built` and `enriched` are on disk; `checkpoint`,
`source`, `index` and `decisions` are local to the call. A candidate is a
comparison key and a recommendation; `TRIAGE` takes the path of `INVESTIGATE`,
as in the code, whose `else` branch covers both. A vendor is named by its key.
`DISCARDED` comes only from the `DISCARD` route, since `decide_and_create` never
returns it. `source` stays after the call for the properties, and `confirmedEver`
is an observation variable. What screening, resolution, validation and the
decision rules answer is a choice.

### AtomicWrite

POSIX names and nodes: `path` and `tmp` refer to nodes, a thread that has opened
`tmp` keeps its node when the name moves. A document is a model value, a node
holds a set of them: none (just opened), one (whole), several (a short text over
a longer one), or `Part` of one. The validator and `input_name` are functions of the
document; `Texts` are those passed as a string, whose name nobody checks, and
`NoName` is the name of a dict without one. Opening and writing, the two halves of
`write_text`, are steps of their own.

Every call of the file system may fail: the `mkdir` and the read of the existing name
in `BeginWrite`, the open (`OpenFails`), the write (`WriteFails`, which may leave a part),
the unlink (`UnlinkFails`), the replace by a `PermissionError` (`ReplaceDenied`) or
otherwise (`ReplaceFails`). Only `PermissionError` and a rejecting validator are handled by the code; every
other error leaves the call with the temporary file in place (`Escape`). `overlapped`,
`unread` (an existing name could not be read, so nothing was checked) and `dropped`
(a crash or an error left the temporary file) are observation variables.

### VendorPipeline

`profile` is `{id}_profile.md`: whether it exists, its `status`, the date and
score of its older, flat format, the enrichment part (there or not), the relationship part
(version, date, `pcs_total`, status) and the number of events of each kind in
its change log. `analysis` is `analysis_result.md`, `history` the number of runs
in `score_history.json`. A writer reads the profile in one step (`seen`) and writes it
in another, so other runs may write in between, as in `write_vendor_profile` and
`write_rs_profile`. `pc` follows each run through `run_enrichment` (gate, tools,
write, failure record, log), `run_rs` (gates, tools, write, ledger entry,
fallback) and `run_analysis` (gates, tools, result, history). `today` moves by
days; ages at which the gates call something stale are constants. Every gate
decides from what it reads at that moment, and a crash kills all runs, since they are
threads of one process. Tools, writes and ledger entries may fail, and so may each
read: `read_md`, `_read_md_frontmatter` and `_load_history_json` answer an error as if
the file were empty (`Readings`), and their callers go on, blocked or ungated or with a
document that has only their own part. A gate that reads the profile three times may
fail at each of the three. `MaxFaults` bounds the steps in which something fails. The
finer calls inside a step, such as the entries of a log, fail as one.

Abstractions. One vendor; the batches of the orchestrators work on vendors one after
the other and isolate their failures. The score is counted in steps of one
contribution. `overlapped` and `misread` are observation variables: the properties are about runs
that follow one another (`AnalysisHasItsInputs`) and of these, where it says
`ReadsInTurn`, about a run none of whose reads failed, because runs that overlap do lose each other's
updates and a run that cannot read the profile overwrites it. Runs that come after such a run are covered. Freshness of an analysis is asked or not: the server forces it, the command
line may not.

### RunServer

One action per observable point of `_pipeline_thread`: `Request` (`api_run`),
`Bootstrap`, `StepDone`, `StepRaises`, `IsolatedStepRaises`, `Finish` (the verdict
and the sentinel of the `finally` block), `Cleanup`; `Log` is a record that passes all
attached handlers; `Connect` and `Take` are a client of `api_stream`. Events that
nothing separates are one message. `sent` is an observation variable. The fifth
step can only raise, because `pa_orchestrator` is not in the repository.

### VendorTools

`stage` names the tool that runs next, `work` is `run_cache`, `result` the document
the last tool delivers. The initial states are those of the three workflows.

* Enrichment. `CollectSource` asks one source after the other, in the order of
  `SourceScope`; an item is a type and the topics its text speaks of.
  `ExtractAttributes` is the model's answer, put right by `PostProcessed`; a field is
  a value (there or not), a confidence (or `ABSENT`, if the model did not list it) and the
  sequence of conflicts reported about it, of which `SettledBy` takes the last, as the
  code's dictionary does. `MapRelationships`
  finds signals by source priority and scores silence. `CreateProfile` reconciles,
  infers, finds gaps and flags, and lists the tasks; the orchestrator's append to the
  triage queue may raise (`lost`).
* Relationship and spend. Rows come from three arrival modes with amount, dates
  and match, and a sum is over places in the list of rows; documents are read one by one (`ReadDocument`, `ReadingRaises`);
  `AggregateSpend`, `ClassifyRelationship` and `AssembleProfile` compute what the code
  computes, in thousandths and hundredths. A ledger entry that fails after the profile was
  written makes the run FAILED without flags (`Reported`), and without flags nobody is
  told; an entry in the queue that fails is only logged.
* Analysis. Three tiers of questions (`AskAll`, `AskWeak`, `AskCritical`), scores
  with Python's rounding, trends, findings with the model's calibration, next best
  action, state. `Report` is what is left behind: the report and the rows of tasks, each of
  which may fail with a warning, the latter only if a database is configured.

Answers of the language model are arbitrary, as far as the code lets them be, for one
field or question at a time, the others all alike (`OddFields`, `OddQuestions`).

## Runs

| Run | Bounds | Shows |
|---|---|---|
| `runtime` | the enrichment plan and a plan with a condition and an independent step, 5 proposals, 3 revisions, 5 steps per call, 2 crashes, 1 failing save | all properties of `WorkflowRuntime`, the refinement of `WorkflowLedger`, settlement |
| `runtime_failed_step_crash` | 1 crash | violated: see finding 1 |
| `runtime_plan_after_restart` | 1 crash | violated: finding 2 |
| `intake` | 3 keys, a list with a confirmation and an investigation and a list with a repeated key, 2 crashes, 1 failure | all properties of `Intake` |
| `intake_register_after_resume` | 1 crash | violated: finding 3 |
| `intake_totals` | no crash, no failure | violated: finding 4 |
| `atomic_write` | 2 threads, 3 calls, 4 documents (a dict with a name, one without, an invalid one, a text with another name), 1 crash, 4 refusals or failures | all properties of `AtomicWrite` |
| `atomic_write_shared_tmp` | 2 threads, 2 calls | violated: finding 5 |
| `vendor_pipeline` | 2 threads, 3 runs, 2 days, ages of 1 day, 1 crash, 1 failing step (of reads, a tool or a write) | parts, change log and history are kept by runs that can read, fresh parts stay, an analysis has its inputs |
| `vendor_pipeline_failed_assembly` | 1 thread, 2 runs, 1 failure | violated: finding 6 |
| `run_server` | 2 runs, 2 clients, 1 log record, 1 failing step | the end is the last message, the verdict is right, a streamed run ends |
| `vendor_tools` | 3 topics of texts, 2 answering sources, 3 amounts, 2 arrival modes, 2 documents of 4 kinds, 3 histories, up to 2 conflicts per field and that of the size, 1 failing call | what evidence may turn into, in all three workflows, and which tasks reach a human |

Why the bounds are enough to be interesting. Two crashes let a restart be
interrupted again. Three revisions reach the code's own limit, so the downgrade of a
fourth happens; five steps per call are fewer than the plan and its revisions can
ask for, so the ceiling is hit. The proposals are one per way in which an answer
can be odd: empty, new id, reused id of a pending step, the same id twice, a
dependency on a step the answer drops. The step `COLLECT_SOURCES` has two
attempts, so a retry and its exhaustion both happen. Four refusals exhaust the
attempts of one replacement. `runtime`, `intake` and `vendor_tools` check for deadlock; in the
others the number of calls, runs or requests is bounded, and the system stops
when they are used up, so deadlock is not checked there.

In `vendor_pipeline` the third run is what sees the effects of a failure of the first
after a second one repaired them, and two days with ages of one day reach both
sides of every gate, the boundary day included. In `vendor_tools` two sources that
answer are enough for a conflict between them and for silence beside a sign of
life; rows of three dates and files of three rows reach each degree of completeness;
the four kinds of documents differ in what the classification asks of them. Two
clients are what it takes for one to miss the end.

### Findings

1. *A step that fails alone can abort the workflow.* `record_step_failure`
   stores the status `FAILED`, and a second save puts `IN_PROGRESS` back. A crash
   in between leaves a terminal status, and the next call returns at once
   (`runtime/runtime_engine.py:192`, `:216`; the comments there say the workflow is
   not aborted). `FailedMeansAborted` holds without crashes and failing saves.
2. *Revisions after a restart lose completed steps.* Statuses in `workflow.json`
   are as old as its last revision. A restarted engine that revises its plan drops the
   steps completed since then, though `workspace_layout.md:123` promises to preserve
   them; their ids may be given to new steps, which then never run.
   `RecordedStepsStayInPlan` holds without crashes and failing saves. That
   no step runs twice holds in every case (`StartIsJustified`).
3. *The register of a resumed intake is incomplete.* It is written from the lists
   of the last call. `UninterruptedRegisterIsComplete` is what does hold.
4. *Totals of a completed checkpoint need not add up* when two candidates
   have the same comparison key, contrary to what a test asserts.
5. *Overlapping writes of one path are not atomic*, because they share
   the temporary file. `ReadersSeeWholeDocuments` is what holds without overlap.

6. *A failed assembly erases the relationship part.* Version, score and
   date are replaced (`tools/rs_profile_assembler.py:469`), against the specification
   of the tool. The new date makes the part fresh, so that it is not repaired
   for 30 days, and the analysis counts from 0. `FreshRelationshipsStay` is what
   holds: nothing else replaces a fresh part.

Observed while modelling, and stated where a property would otherwise not hold:

* only the last conflict reported about a field counts
  (`tools/enriched_profile_creator.py:186`): a contradiction of two registries gets no task
  when another conflict of the model, or that of employees and revenue, follows it; nor
  does one about a list or a field the model does not list (`:192`), or about a size band that is
  inferred from the number of employees (`tools/attribute_extractor.py:398`). These are
  the exceptions in `RisksReachHumans`;
* a conflict of employees and revenue leaves the field's confidence as it was
  (`tools/attribute_extractor.py:391`), and the confidence of lists disregards conflicts
  (`:333`): `DisputedIsNotTrusted` is about the other conflicts and fields;
* a profile that cannot be read is taken for an empty one and overwritten, with the parts
  of the other processes (`core/file_system.py:142`, `workspace/builder.py:319`, `:368`), and
  a history that cannot be read is begun anew (`orchestrator/analysis_orchestrator.py:592`): exception in
  `PartsAreKept` and `FreshRelationshipsStay`;
* an error in `write_text`, or one of `replace` other than `PermissionError`, leaves the
  temporary file (`core/atomic_write.py:206`, `:221`): exception in `NoTmpLeftBehind`;
* the immutable name is checked for dicts only, and not if the file cannot be read
  (`core/atomic_write.py:199`, `:69`): exceptions in `NameIsKept`;
* tasks get lost. A failed ledger entry makes an RS run fail without flags, so that
  nothing is queued (`orchestrator/rs_orchestrator.py:668`); a failed entry in the queue is
  logged (`:522`) or raises (`orchestrator/enrichment_orchestrator.py:349`); without
  `DATABASE_URL` an analysis queues nothing (`orchestrator/analysis_orchestrator.py:659`) and a report or rows
  that cannot be written leave its run COMPLETED (`:676`, `:826`). `RisksReachHumans`,
  `WeakDataIsFlagged` and `CriticalSilenceIsLoud` except these by name (`lost`, `database`);
* a search that failed counts as silence of the vendor
  (`tools/relationship_and_lifecycle_mapper.py:746`);
* uploaded rows are matched without the vendor's name, so those that name a vendor never
  match (`tools/structured_data_collector.py:545`), and a check-in raises on 29 February
  (`:428`);
* the model is never asked for the type of a relationship, since
  `_llm_classify` calls it with arguments it does not take
  (`tools/relationship_classifier.py:242`);
* the relationship an analysis loads has no contracts (`orchestrator/analysis_orchestrator.py:163`)
  and no days to renewal, so the rules about renewals never apply;
* of a vendor's trends only that of the first dimension changes its state
  (`orchestrator/analysis_orchestrator.py:787`), and a turn for the better is titled
  as one for the worse;
* the prompt budget of the extraction keeps news and drops official sources
  (`tools/attribute_extractor.py:268`), an order the model leaves out since the answer
  is arbitrary;
* a readiness gate that says not to proceed does not stop an enrichment; only "skip" does.

### Fairness

`WorkflowRuntime`: weak fairness of the engine's own steps (a started call runs
on; step callables and sleeps return) and of `Execute` (who drives a workflow calls
again after an interruption, as the recovery contract of `workspace_layout.md` asks).
None for crashes, faults or any particular outcome. `Intake`: the same of
`RunStep` and `StartIntake`. `AtomicWrite`: weak fairness of each thread's steps.
`RunServer`: weak
fairness of each pipeline thread (steps return or raise) and of a connected client's
reading; none for requests and connections. `VendorPipeline` states fairness of each run's
steps for the violating run only: its passing run checks safety.
Crashes and faults are bounded in number, so the liveness properties say: after
the last of them, the system gets done.

## Proofs

Every safety invariant and every action property of the passing runs is a theorem, for
all values of the constants. TLC checks them on small instances; the proofs have any
number of threads, vendors, rows, crashes and failures.

| Module | Theorem | States |
|---|---|---|
| `WorkflowRuntimeProofs` | `InvariantHolds` | `Spec => []IInv` |
| | `TypesHold`, `MemoryStaysDurable`, `StepsHaveOneOutcome` | `TypeOK`, `MemoryIsDurable`, `OneOutcome` |
| | `RecordsAreKept`, `StartsAreJustified`, `FinishedIsFinal`, `RevisionsAreBounded` | `RecordsNeverRemoved`, `StartIsJustified`, `TerminalIsFinal`, `RevisionsBounded` |
| | `LedgerIsImplemented` | `ImplementsLedger` |
| `WorkflowOutcomeProofs` | `OutcomeInvHolds` | `Spec => []OutcomeInv` |
| | `CompletedWorkflowsAreComplete`, `DeadlocksAreReal`, `FailuresAreFatal` | `CompletedIsComplete`, `DeadlockIsReal`, `FailedMeansAborted` |
| | `RevisionsKeepRecords`, `PlannerMissesNothing` | `RecordedStepsStayInPlan`, `PlannerSeesEveryStep` |
| `IntakeProofs` | `InvariantHolds` | `Spec => []IInv` |
| | `RegisteredVendorsHaveProfiles`, `CompletedMeansCovered`, `ReportsAreOfOneRun`, `UndisturbedRegisterIsComplete` | `RegisteredHaveProfiles`, `CompletedCoversSource`, `ReportsAgree`, `UninterruptedRegisterIsComplete` |
| | `NothingIsReworked`, `OutcomesAreKept`, `EnrichmentIsKept` | `NoRework`, `CheckpointOnlyGrows`, `EnrichmentSurvives` |
| `AtomicWriteProofs` | `InvariantHolds` | `Spec => []IInv` |
| | `DocumentsStayWhole`, `NoLitter`, `BlobIsTheFile`, `NamesAreKept` | `ReadersSeeWholeDocuments`, `NoTmpLeftBehind`, `BlobFollowsFile`, `NameIsKept` |
| `VendorPipelineProofs` | `InvariantHolds` | `Spec => []IInv` |
| | `AnalysesHaveInputs`, `NothingIsLost`, `FreshRelationshipsAreKept` | `AnalysisHasItsInputs`, `PartsAreKept`, `FreshRelationshipsStay` |
| `RunServerProofs` | `InvariantHolds` | `Spec => []IInv` |
| | `EndComesLast`, `VerdictsAreRight` | `EndIsLast`, `VerdictIsRight` |
| `VendorToolsProofs` | `InvariantHolds` | `Spec => []IInv` |
| | `EnrichedProfilesHaveEvidence`, `RisksAreTasks`, `DisputesAreShown`, `SilenceIsReported` | `EvidenceBeforeProfile`, `RisksReachHumans`, `DisputedIsNotTrusted`, `CriticalSilenceIsLoud` |
| `VendorScoreProofs` | `NumbersHold` | `Spec => []NumbersInv` |
| | `DependenciesAreBacked`, `WeakDataShows`, `FailuresDoNotFlatter` | `DependencyIsBacked`, `WeakDataIsFlagged`, `FailuresNeverFlatter` |

The proofs use the named assumptions of the modules and nothing else: constants have
their types, the sets of threads, runs and clients are finite, step numbers are at
most `IdBound`, amounts are integers, scores of a history lie between 0 and 100.

Each module rests on one inductive invariant, since the properties are not inductive
themselves.

* *Records of a workflow.* That `CompleteStep` or `ExhaustRetries` adds a second
  outcome is excluded only because the step being executed has none yet
  (`StepIsFresh`), and that is a fact about `state.json` only because memory and file
  agree while a call runs (`MemoryIsDurable`). `IdsBounded` bounds the step numbers
  by the number of revisions: each fallback step adds one number, and revisions are
  capped, so that all ids stay among the `StepIds` of the ledger. It also keeps the
  count on disk at most the count in memory, which a failed save of a revision can
  separate. Action properties and the refinement follow step by step: every action of
  `Next` is a step of the ledger under the mapping `LedgerStatus` or leaves it alone.
* *Verdicts of a workflow.* They are computed from statuses in memory, so they are right
  because of how these relate to the records. While a call runs a marked step has a
  record (`MarkedAreRecorded`), and unless a save failed the plan in memory is the
  one on disk (`PlanOnDisk`): that is what `CompletedIsComplete` and `DeadlockIsReal`
  rest on, whatever crashes. The converse (`RecordsAreTerminal`) is what a crash between
  two saves destroys, see findings 1 and 2; therefore the last three theorems are
  about a process that lives and saves that succeed.
* *Intake.* The profile comes before anything that names its vendor
  (`ProfilesComeFirst`), the checkpoint in memory holds at least that on file
  (`CheckpointsAgree`), the loop's position is covered by it (`LoopCovers`).
  `NoRework` and `CheckpointOnlyGrows` need no more than that, in spite of failing saves.
  Without failures, what any report or profile got is in the checkpoint file
  (`ConfirmedAreDurable`), so no restart builds an enriched vendor again. A first run
  that nothing disturbs still holds in memory all it confirmed (`UndisturbedRun`), which
  is what its register is written from.
* *Atomic writes.* The two names never share a node and only a writing thread has a
  handle (`NamesAreApart`), and a temporary file has an owner who renames or removes it,
  or was left by a crash or an error and not taken up since (`TmpHasOwner`): these hold for overlapping calls, too.
  The rest is about a thread that is alone (`AloneInOrder`): its handle is that of the
  temporary file, never of the node under the path, what it validated is what it
  replaces the file with, and the name of a dict was checked against the document that is
  still there, unless it could not be read (`NameWasChecked`). A lemma shows by counting
  that there is always a node left to create a file with.
* *Pipeline.* While runs follow one another, at most one is under way, and if it misread
  nothing, what it read is what is on file (`ReadIsCurrent`) and the relationship it
  gathers for is still due (`GatheringIsDue`). That an analysis under way has its
  inputs (`AnalysingHasInputs`) survives failed reads, too: the gate asks for a reading
  with the part, and such a reading is the file itself. A day that passes, a crash or a failure at any point keeps them.
* *Server.* What a run has put so far follows from where its thread is
  (`SentFollowsThread`), and in its queue the sentinel stands behind all its messages
  (`SentinelBehind`), since its thread says nothing after it; what other runs log may
  follow. A lemma shows that a run is requested once.
* *Evidence.* At each stage the memory the tools share has what later tools rely on:
  disputes of listed fields show in the confidence before the reconciliation (`FieldsAreSound`), flags
  are those of the lifecycle found (`LifecycleIsFlagged`), a critical question without
  an answer is a finding before the narrative is asked for (`SilenceIsFound`). Which writes
  of tasks fail is free in every step, as it is in the runs.
* *Numbers.* A summary agrees with what one would count in the rows (`SummaryAgrees`),
  a class with its summary (`ClassIsOfTheSummary`), a score with the answers
  (`CriIsOfThePairs`). Sums are folds over finite sets, which are recursive functions.
  What a sum is bounded by is shown without an induction rule: if it failed for some
  set, it would for a smallest, and that is contradictory (`LeastNumber`,
  `SumExists`, `SumIsBounded`). From these `FailedQuestionLowersCri` bounds the
  weighted score that one failed critical question leaves, after the roundings, and
  `DependencyNeedsCharges` the class of a vendor without charges, for amounts of any
  size.

Only model-checked: liveness (`EventuallySettles`, `EventuallyCompleted`,
`CallsReturn`, `StreamedRunsEnd`), which needs fairness and is out of the prover's
reach. The runs that expect a violation have no theorem, for what they state is false.

## Not modelled

* The text of prompts, plans, reports and profiles; logging; the renderer.
* Network clients, language model calls, searches: their outcome is a choice.
* `append_md` beyond its failure, the blob listing, the SQL handlers.
* `evidence_validator` and `commercial_analyser`: the one only feeds a prompt and a
  history nothing decides by, the other always gives the same answer (see
  `VendorInquiry`).
* Subsidiaries, brands and former names of the lifecycle mapper; sums by period and
  category and anomalies of the spend aggregator: they are shown, not decided by.
* The rules of names and keys (screening, resolution, deduplication), conditions of
  plans and the investigation rules R01 to R14: functions on strings.
* A malformed `workflow.json`, `state.json` or `checkpoint.json`: with one
  writing thread `AtomicWrite` excludes it.
* Two engines on the same workflow files.
* Generated and passive parts: schemas, static files, user interface, migrations.

## Plan

1. done: `WorkflowLedger`, `WorkflowRuntime`, its proofs, `Intake`, `AtomicWrite`.
2. done: the pipeline of a vendor, the server, the tools.
3. done: theorems for every safety and action property of the passing runs.
4. An abstract specification of the checkpoint of an intake and of a vendor's file,
   with proofs that `Intake` and `VendorPipeline` implement them; lemmas that say of
   more helpers what they return.
5. `PlanRules` (R01 to R14) and `NameKeys`, if strings can be abstracted without
   losing what the rules tell apart.
