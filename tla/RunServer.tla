------------------------------- MODULE RunServer -------------------------------
(***************************************************************************)
(* run_server.py: every POST of /api/run starts a pipeline thread with a    *)
(* queue of its own and attaches a log handler for that queue to the one    *)
(* logger of all runs; the clients of /api/run/<id>/stream take what is in  *)
(* the queue.  What the orchestrators do inside a step is VendorPipeline's  *)
(* and Intake's matter; here a step returns or raises.  The events of one   *)
(* step that nothing separates are one message.                             *)
(***************************************************************************)
EXTENDS Naturals, SequencesExt

CONSTANTS
    Runs, Clients,
    MaxLogs,        \* bound: log records of all runs together
    MaxFaults       \* bound: steps that raise

ASSUME RunServerAssumption ==
    IsFiniteSet(Runs) /\ IsFiniteSet(Clients) /\ {MaxLogs, MaxFaults} \subseteq Nat

VARIABLES
    status,         \* _runs[run_id]["status"], "absent" before the request
    pc,             \* of each pipeline thread
    queue,          \* of each run
    handlers,       \* the runs whose handler is attached to the logger
    stream,         \* the run each client reads, a set of at most one
    left,           \* the clients whose stream has ended
    sent,           \* observation: the kinds of message each run's thread has put
    logs, faults

vars == <<status, pc, queue, handlers, stream, left, sent, logs, faults>>

(* The sentinel None is of kind "end".                                       *)
Message(r, kind) == [run |-> r, kind |-> kind]

Steps == <<"intake", "enrichment", "rs", "analysis", "pa">>
StepNames == ToSet(Steps)
NextOf(s) == IF s = "pa" THEN "finish"
             ELSE Steps[1 + CHOOSE i \in DOMAIN Steps : Steps[i] = s]

-----------------------------------------------------------------------------

Init ==
    /\ status = [r \in Runs |-> "absent"]
    /\ pc = [r \in Runs |-> "none"]
    /\ queue = [r \in Runs |-> <<>>]
    /\ handlers = {}
    /\ stream = [c \in Clients |-> {}]
    /\ left = {}
    /\ sent = [r \in Runs |-> {}]
    /\ logs = 0 /\ faults = 0

(* ev(): put_nowait on a queue without a bound.                              *)
Put(r, kinds) ==
    /\ queue' = [queue EXCEPT ![r] = @ \o [i \in DOMAIN kinds |-> Message(r, kinds[i])]]
    /\ sent' = [sent EXCEPT ![r] = @ \cup ToSet(kinds)]

GoTo(r, label) == pc' = [pc EXCEPT ![r] = label]

Fault == faults < MaxFaults /\ faults' = faults + 1

(* api_run: also for a programme that has a run already.                     *)
Request(r) ==
    /\ status[r] = "absent"
    /\ status' = [status EXCEPT ![r] = "running"]
    /\ handlers' = handlers \cup {r}
    /\ GoTo(r, "bootstrap")
    /\ UNCHANGED <<queue, stream, left, sent, logs, faults>>

(* The rows of the user and of the programme; an error is the pipeline's.    *)
Bootstrap(r) ==
    /\ pc[r] = "bootstrap"
    /\ \/ GoTo(r, "intake") /\ Put(r, <<"running">>) /\ UNCHANGED faults
       \/ GoTo(r, "abort") /\ Fault /\ UNCHANGED <<queue, sent>>
    /\ UNCHANGED <<status, handlers, stream, left, logs>>

(* The step is done, and the next one running.                               *)
StepDone(r) ==
    /\ pc[r] \in StepNames \ {"pa"}
    /\ Put(r, <<pc[r]>>)
    /\ GoTo(r, NextOf(pc[r]))
    /\ UNCHANGED <<status, handlers, stream, left, logs, faults>>

(* The first three steps end the pipeline when they raise.                   *)
Isolated == {"analysis", "pa"}

StepRaises(r) ==
    /\ pc[r] \in StepNames \ Isolated
    /\ Fault
    /\ GoTo(r, "abort")
    /\ UNCHANGED <<status, queue, handlers, stream, left, sent, logs>>

(* Analysis and the fifth step have a handler of their own.  The fifth step  *)
(* imports a module the repository does not have, so it always raises.       *)
AbortOnFailure(s) == "abort"
AfterFailure(s) == NextOf(s)

IsolatedStepRaises(r) ==
    /\ pc[r] \in Isolated
    /\ IF pc[r] = "pa" THEN UNCHANGED faults ELSE Fault
    /\ Put(r, <<"error">>)
    /\ GoTo(r, AfterFailure(pc[r]))
    /\ UNCHANGED <<status, handlers, stream, left, logs>>

(* pipeline_done or pipeline_error, then the sentinel of the finally block.  *)
SentinelFirst(kind) == <<"end", kind>>
SentinelOfDone(kind) == IF kind = "pipeline_done" THEN <<kind, "end">> ELSE <<kind>>
LastMessages(kind) == <<kind, "end">>

Finish(r) ==
    /\ pc[r] \in {"finish", "abort"}
    /\ Put(r, LastMessages(IF pc[r] = "finish" THEN "pipeline_done" ELSE "pipeline_error"))
    /\ GoTo(r, "cleanup")
    /\ UNCHANGED <<status, handlers, stream, left, logs, faults>>

(* _run's finally block.                                                     *)
Cleanup(r) ==
    /\ pc[r] = "cleanup"
    /\ handlers' = handlers \ {r}
    /\ status' = [status EXCEPT ![r] = "done"]
    /\ GoTo(r, "done")
    /\ UNCHANGED <<queue, stream, left, sent, logs, faults>>

(* A record of a "cobalt" logger, written by the thread of r while a step    *)
(* runs, goes through every attached handler; other names are suppressed.    *)
Log(r) ==
    /\ pc[r] \in StepNames
    /\ logs < MaxLogs /\ logs' = logs + 1
    /\ queue' = [q \in Runs |-> IF q \in handlers THEN Append(queue[q], Message(r, "log"))
                                                  ELSE queue[q]]
    /\ UNCHANGED <<status, pc, handlers, stream, left, sent, faults>>

(* api_stream, also after the run: _runs keeps every run.                    *)
Connect(c, r) ==
    /\ stream[c] = {} /\ c \notin left
    /\ status[r] # "absent"
    /\ stream' = [stream EXCEPT ![c] = {r}]
    /\ UNCHANGED <<status, pc, queue, handlers, left, sent, logs, faults>>

(* The generator takes a message off the queue; the sentinel ends it.  With  *)
(* no message for 25 seconds it sends a ping and waits on.                   *)
Take(c) ==
    \E r \in stream[c] :
        LET message == Head(queue[r]) IN
        /\ queue[r] # <<>>
        /\ queue' = [queue EXCEPT ![r] = Tail(@)]
        /\ IF message.kind = "end" THEN left' = left \cup {c} /\ stream' = [stream EXCEPT ![c] = {}]
                                  ELSE UNCHANGED <<left, stream>>
        /\ UNCHANGED <<status, pc, handlers, sent, logs, faults>>

Thread(r) ==
    Bootstrap(r) \/ StepDone(r) \/ StepRaises(r) \/ IsolatedStepRaises(r)
        \/ Finish(r) \/ Cleanup(r)

Next ==
    \/ \E r \in Runs : Request(r) \/ Thread(r) \/ Log(r)
    \/ \E c \in Clients : Take(c) \/ \E r \in Runs : Connect(c, r)

Spec == Init /\ [][Next]_vars

(* Threads run and a client that is connected reads.                         *)
FairSpec ==
    /\ Spec
    /\ \A r \in Runs : WF_vars(Thread(r))
    /\ \A c \in Clients : WF_vars(Take(c))

-----------------------------------------------------------------------------
(* Properties                                                                *)

(* The sentinel was put and is no longer in the queue: a client took it.     *)
Ended(r) == "end" \in sent[r] /\ Message(r, "end") \notin ToSet(queue[r])

(* Everything a run has to say comes before its sentinel: once a client was  *)
(* told the end of a run, what is left in its queue are records of other     *)
(* runs, whose threads write to it until this one has cleaned up.            *)
EndIsLast == \A r \in Runs : Ended(r) => \A m \in ToSet(queue[r]) : m.run # r

(* One verdict per run: an error before the analysis is reported as          *)
(* pipeline_error, and neither a failed analysis nor the missing fifth step  *)
(* keeps a pipeline that got that far from pipeline_done.                    *)
VerdictIsRight ==
    \A r \in Runs :
        pc[r] \in {"cleanup", "done"} =>
            /\ "pipeline_done" \in sent[r] <=> "rs" \in sent[r]
            /\ "pipeline_error" \in sent[r] <=> "rs" \notin sent[r]

(* A run that somebody streams comes to its end for one of its clients.  (A  *)
(* second client of the same run may wait for ever: the queue holds one      *)
(* sentinel.)                                                                *)
StreamedRunsEnd ==
    \A r \in Runs : (\E c \in Clients : r \in stream[c]) ~> Ended(r)

=============================================================================
