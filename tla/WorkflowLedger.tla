--------------------------- MODULE WorkflowLedger ---------------------------
(* What state.json promises to whoever reads it, without the engine behind   *)
(* it: a workflow is opened once, while it is open each step gets at most    *)
(* one outcome and keeps it, and once the workflow is closed nothing in the  *)
(* ledger changes any more.  The one exception is the step during which the  *)
(* workflow is aborted, which may be recorded as completed and as failed.    *)
EXTENDS Naturals

CONSTANT StepIds

VARIABLES status, completed, failed, skipped

ledgerVars == <<status, completed, failed, skipped>>

Recorded == completed \cup failed \cup skipped

LedgerInit ==
    /\ status = "NOT_STARTED"
    /\ completed = {} /\ failed = {} /\ skipped = {}

Open ==
    /\ status = "NOT_STARTED"
    /\ status' = "IN_PROGRESS"
    /\ UNCHANGED <<completed, failed, skipped>>

(* A new step gets exactly one outcome; the workflow stays open.             *)
RecordOutcome(s) ==
    /\ status = "IN_PROGRESS"
    /\ s \notin Recorded
    /\ \/ completed' = completed \cup {s} /\ UNCHANGED <<failed, skipped>>
       \/ failed' = failed \cup {s} /\ UNCHANGED <<completed, skipped>>
       \/ skipped' = skipped \cup {s} /\ UNCHANGED <<completed, failed>>
    /\ UNCHANGED status

(* The step's failure is the workflow's failure.                             *)
RecordAndAbort(s) ==
    /\ status = "IN_PROGRESS"
    /\ s \notin Recorded
    /\ failed' = failed \cup {s}
    /\ completed' \in {completed, completed \cup {s}}
    /\ status' = "FAILED"
    /\ UNCHANGED skipped

Close ==
    /\ status = "IN_PROGRESS"
    /\ status' \in {"COMPLETED", "BLOCKED", "FAILED"}
    /\ UNCHANGED <<completed, failed, skipped>>

LedgerNext ==
    \/ Open
    \/ Close
    \/ \E s \in StepIds : RecordOutcome(s) \/ RecordAndAbort(s)

LedgerSpec == LedgerInit /\ [][LedgerNext]_ledgerVars

=============================================================================
