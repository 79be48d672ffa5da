-------------------------------- MODULE ToolRun --------------------------------
(***************************************************************************)
(* One run of one of the three workflows whose tools are modelled step by   *)
(* step: ENRICHMENT, RS and ANALYSIS.  The tools hand their results to each *)
(* other in memory, run_cache, here "work"; the last tool of a workflow     *)
(* writes its document, here "result", and the run ends.  The orchestrators *)
(* around the tools, their gates and their files are VendorPipeline's.      *)
(***************************************************************************)
EXTENDS Integers, Sequences, FiniteSetsExt

CONSTANT MaxFaults      \* bound: calls that fail in one run

ASSUME ToolRunAssumption == MaxFaults \in Nat

VARIABLES
    stage,      \* the tool that runs next
    work,       \* what the tools of this run have produced
    result,     \* what the last tool wrote and returned
    faults

vars == <<stage, work, result, faults>>

NoResult == [process |-> "none"]

(* A dictionary with new entries, which hide old ones of the same key.       *)
Updated(dict, entries) ==
    [k \in (DOMAIN dict) \cup (DOMAIN entries) |->
        IF k \in DOMAIN entries THEN entries[k] ELSE dict[k]]

(* run_cache[...] = ...; return {...}: the next tool is run by the engine.   *)
Produce(produced, next) ==
    /\ work' = Updated(work, produced)
    /\ stage' = next

(* The last tool of a workflow has written its document.                     *)
Deliver(document) ==
    /\ result' = document
    /\ stage' = "done"

(* A call of a service, or of the file system, that fails.                   *)
AFault == faults < MaxFaults /\ faults' = faults + 1
NoFault == UNCHANGED faults

(* The orchestrator's own writes after the last tool; those that fail at the *)
(* end of one run count as one failure.                                      *)
FaultIf(fails) == IF fails THEN AFault ELSE NoFault

(* The tasks that are written to the queue a human works from.               *)
Queued(tasks, lost) == IF "queue" \in lost THEN {} ELSE tasks

=============================================================================
