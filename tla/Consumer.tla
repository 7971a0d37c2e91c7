------------------------------ MODULE Consumer ------------------------------
(***************************************************************************)
(* The stream consumers of app/workers/consumer.py working on the jobs of  *)
(* Submission through the group of Broker: polling, reclaiming, and one    *)
(* asyncio task per delivery running _process_single_message, with a step  *)
(* for every await whose effect other tasks can see.  run_intelligence_    *)
(* worker (app/routers/intelligence.py) is the part from Analyse to        *)
(* RecordFailure.                                                          *)
(*                                                                         *)
(* Semaphore and circuit breaker are in LlmGate.  Here a task waits for    *)
(* either as long as the scheduler likes, and so does the loop before it   *)
(* polls.                                                                  *)
(*                                                                         *)
(* Slots bounds the tasks alive at once and MaxFaults the crashes and      *)
(* failed Redis calls of a behaviour; the program bounds neither.          *)
(***************************************************************************)
EXTENDS Submission

CONSTANTS
    Workers,       \* consumer processes (embedded or stand-alone)
    Slots,         \* names for live asyncio tasks
    MaxRetries,    \* MAX_RATE_LIMIT_RETRIES
    MaxFaults,
    NoJob, NoWorker

ASSUME ConsumerAssumption ==
    /\ MaxRetries \in Nat \ {0}
    /\ MaxFaults \in Nat
    /\ NoJob \notin Jobs
    /\ NoWorker \notin Workers

VARIABLES
    worker,        \* [Workers -> {"down", "up", "draining"}]
    task,          \* the tasks of all workers
    faults         \* faults so far

vars == <<brokerVars, jobVars, worker, task, faults>>

PC == {"idle", "inspect", "quarantine", "dlq_append", "dlq_ack", "mark",
       "analyse", "publish", "record_failure", "ack", "progress"}

\* checked: the batch members _update_batch_progress has seen concluded
NoTask == [pc |-> "idle", worker |-> NoWorker, job |-> NoJob,
           attempt |-> 1, checked |-> {}]

NewTask(w, j) == [pc |-> "inspect", worker |-> w, job |-> j,
                  attempt |-> 1, checked |-> {}]

Task == [pc: PC, worker: Workers \cup {NoWorker}, job: Jobs \cup {NoJob},
         attempt: 1..MaxRetries, checked: SUBSET Batch]

TypeOK ==
    /\ BrokerTypeOK
    /\ SubmissionTypeOK
    /\ worker \in [Workers -> {"down", "up", "draining"}]
    /\ task \in [Slots -> Task]
    /\ faults \in 0..MaxFaults

Init ==
    /\ BrokerInit
    /\ SubmissionInit
    /\ worker = [w \in Workers |-> "down"]
    /\ task = [t \in Slots |-> NoTask]
    /\ faults = 0

Live(t) == task[t].pc # "idle"

Fault == faults < MaxFaults /\ faults' = faults + 1

-----------------------------------------------------------------------------
(* The worker process: initialize, run, shutdown.                          *)

\* Lifespan of the API process, main.py; failing there is only logged.
ApiBootstrap ==
    /\ ~group
    /\ EnsureConsumerGroup
    /\ UNCHANGED <<jobVars, worker, task, faults>>

Start(w) ==
    /\ worker[w] = "down"
    /\ EnsureConsumerGroup
    /\ worker' = [worker EXCEPT ![w] = "up"]
    /\ UNCHANGED <<jobVars, task, faults>>

\* SIGTERM clears self.running: no more reads, the tasks drain
Stop(w) ==
    /\ worker[w] = "up"
    /\ Fault
    /\ worker' = [worker EXCEPT ![w] = "draining"]
    /\ UNCHANGED <<brokerVars, jobVars, task>>

Shutdown(w) ==
    /\ worker[w] = "draining"
    /\ \A t \in Slots : task[t].worker # w
    /\ worker' = [worker EXCEPT ![w] = "down"]
    /\ UNCHANGED <<brokerVars, jobVars, task, faults>>

Crash(w) ==
    /\ worker[w] # "down"
    /\ Fault
    /\ worker' = [worker EXCEPT ![w] = "down"]
    /\ task' = [t \in Slots |-> IF task[t].worker = w THEN NoTask ELSE task[t]]
    /\ UNCHANGED <<brokerVars, jobVars>>

\* asyncio.create_task(self._process_single_message(...))
Dispatch(w, j) ==
    \E t \in Slots :
        /\ ~Live(t)
        /\ task' = [task EXCEPT ![t] = NewTask(w, j)]

Poll(w, j) ==
    /\ worker[w] = "up"
    /\ ReadNew(j)
    /\ Dispatch(w, j)
    /\ UNCHANGED <<jobVars, worker, faults>>

Reclaim(w, j) ==
    /\ worker[w] = "up"
    /\ ReclaimAbandonedJob(j)
    /\ Dispatch(w, j)
    /\ UNCHANGED <<jobVars, worker, faults>>

\* Redis delivered, but the reply was lost or self.running was cleared
\* meanwhile: the entry is pending and nobody works on it.
DeliveryLost(w, j) ==
    /\ worker[w] # "down"
    /\ Fault
    /\ ReadNew(j) \/ ReclaimAbandonedJob(j)
    /\ UNCHANGED <<jobVars, worker, task>>

-----------------------------------------------------------------------------
(* _process_single_message                                                 *)

At(t, pc) == task[t].pc = pc

Goto(t, pc) == task' = [task EXCEPT ![t].pc = pc]

Finish(t) == task' = [task EXCEPT ![t] = NoTask]

\* Mutant: no poison-pill check
InspectNothing(t) ==
    /\ At(t, "inspect")
    /\ Goto(t, "mark")
    /\ UNCHANGED <<brokerVars, jobVars, worker, faults>>

\* Mutant: >= instead of >
InspectOffByOne(t) ==
    /\ At(t, "inspect")
    /\ IF MessageDeliveryCount(task[t].job) >= MaxDelivery
       THEN Goto(t, "quarantine")
       ELSE Goto(t, "mark")
    /\ UNCHANGED <<brokerVars, jobVars, worker, faults>>

\* A failing query counts as one delivery (get_message_delivery_count).
Inspect(t) ==
    /\ At(t, "inspect")
    /\ IF MessageDeliveryCount(task[t].job) > MaxDelivery
       THEN Goto(t, "quarantine")
       ELSE Goto(t, "mark")
    /\ UNCHANGED <<brokerVars, jobVars, worker, faults>>

InspectFails(t) ==
    /\ At(t, "inspect")
    /\ Fault
    /\ Goto(t, "mark")
    /\ UNCHANGED <<brokerVars, jobVars, worker>>

Quarantine(t) ==
    /\ At(t, "quarantine")
    /\ SetStatus(task[t].job, "dead_lettered")
    /\ Goto(t, "dlq_append")
    /\ UNCHANGED <<brokerVars, worker, faults>>

RouteToDlq(t) ==
    /\ At(t, "dlq_append")
    /\ DlqAppend(task[t].job)
    /\ Goto(t, "dlq_ack")
    /\ UNCHANGED <<jobVars, worker, faults>>

AckQuarantined(t) ==
    /\ At(t, "dlq_ack")
    /\ XAck(task[t].job)
    /\ Finish(t)
    /\ UNCHANGED <<jobVars, worker, faults>>

\* Mutant: the message is acknowledged when it is picked up
MarkProcessingAndAck(t) ==
    /\ At(t, "mark")
    /\ SetStatus(task[t].job, "processing")
    /\ XAck(task[t].job)
    /\ Goto(t, "analyse")
    /\ UNCHANGED <<worker, faults>>

MarkProcessing(t) ==
    /\ At(t, "mark")
    /\ SetStatus(task[t].job, "processing")
    /\ Goto(t, "analyse")
    /\ UNCHANGED <<brokerVars, worker, faults>>

\* The SET to "processing" failed and the error is swallowed.
MarkSwallowed(t) ==
    /\ At(t, "mark")
    /\ Fault
    /\ Goto(t, "analyse")
    /\ UNCHANGED <<brokerVars, jobVars, worker>>

\* The graph returned: SET job_id to the completed payload.
Analyse(t) ==
    /\ At(t, "analyse")
    /\ SetStatus(task[t].job, "completed")
    /\ Goto(t, "publish")
    /\ UNCHANGED <<brokerVars, worker, faults>>

\* Trace, cache, WebSocket and webhook: nothing here is a job state.
Publish(t) ==
    /\ At(t, "publish")
    /\ Goto(t, "ack")
    /\ UNCHANGED <<brokerVars, jobVars, worker, faults>>

\* Any exception in the body, even after the completed payload was written
RunRaises(t) ==
    /\ task[t].pc \in {"analyse", "publish"}
    /\ Goto(t, "record_failure")
    /\ UNCHANGED <<brokerVars, jobVars, worker, faults>>

\* The failed payload is written and run_intelligence_worker returns.
RecordFailure(t) ==
    /\ At(t, "record_failure")
    /\ SetStatus(task[t].job, "failed")
    /\ Goto(t, "ack")
    /\ UNCHANGED <<brokerVars, worker, faults>>

\* The payload is written, but a later call of the handler raises.
RecordFailureRaises(t) ==
    /\ At(t, "record_failure")
    /\ SetStatus(task[t].job, "failed")
    /\ UNCHANGED <<brokerVars, worker, task, faults>>

\* A task that goes back to its handler after a rate limit
Retried(k) == [k EXCEPT !.pc = "analyse", !.attempt = @ + 1]

\* Mutant: rate-limit retries without a limit
RateLimitedForever(t) ==
    /\ At(t, "record_failure")
    /\ task' = [task EXCEPT ![t] = Retried(@)]
    /\ UNCHANGED <<brokerVars, jobVars, worker, faults>>

\* The handler raised, before its SET or after, and an exception escapes:
\* a rate limit is retried, anything else ends the task unacknowledged.
RateLimited(t) ==
    /\ At(t, "record_failure")
    /\ task[t].attempt < MaxRetries
    /\ task' = [task EXCEPT ![t] = Retried(@)]
    /\ UNCHANGED <<brokerVars, jobVars, worker, faults>>

GiveUp(t) ==
    /\ At(t, "record_failure")
    /\ Finish(t)
    /\ UNCHANGED <<brokerVars, jobVars, worker, faults>>

Ack(t) ==
    /\ At(t, "ack")
    /\ XAck(task[t].job)
    /\ IF task[t].job \in Batch THEN Goto(t, "progress") ELSE Finish(t)
    /\ UNCHANGED <<jobVars, worker, faults>>

\* Mutant: any job key that exists counts as concluded
CheckBatchJobExists(t) ==
    /\ At(t, "progress")
    /\ \E j \in Batch \ task[t].checked :
           task' = [task EXCEPT ![t].checked = @ \cup {j}]
    /\ UNCHANGED <<brokerVars, jobVars, worker, faults>>

\* _update_batch_progress reads one job key after the other ...
CheckBatchJob(t) ==
    /\ At(t, "progress")
    /\ \E j \in Batch \ task[t].checked :
           IF status[j] \in Terminal
           THEN task' = [task EXCEPT ![t].checked = @ \cup {j}]
           ELSE Finish(t)
    /\ UNCHANGED <<brokerVars, jobVars, worker, faults>>

\* ... and writes the batch key if it has seen them all concluded.
CompleteBatch(t) ==
    /\ At(t, "progress")
    /\ task[t].checked = Batch
    /\ batchStatus' = "completed"
    /\ Finish(t)
    /\ UNCHANGED <<brokerVars, status, outcome, worker, faults>>

\* A Redis call outside the inner handlers raises: the task is gone.
TaskDies(t) ==
    /\ Live(t)
    /\ Fault
    /\ Finish(t)
    /\ UNCHANGED <<brokerVars, jobVars, worker>>

TaskStep(t) ==
    \/ Inspect(t) \/ Quarantine(t) \/ RouteToDlq(t) \/ AckQuarantined(t)
    \/ MarkProcessing(t) \/ Analyse(t) \/ Publish(t) \/ RunRaises(t)
    \/ RecordFailure(t) \/ RecordFailureRaises(t) \/ RateLimited(t) \/ GiveUp(t)
    \/ Ack(t) \/ CheckBatchJob(t) \/ CompleteBatch(t)

TaskFault(t) == InspectFails(t) \/ MarkSwallowed(t) \/ TaskDies(t)

-----------------------------------------------------------------------------
ClientStep ==
    \/ \E j \in Jobs : Submit(j) /\ UNCHANGED <<worker, task, faults>>
    \/ PrewarmBatch /\ UNCHANGED <<worker, task, faults>>

WorkerStep(w) ==
    \/ Start(w) \/ Stop(w) \/ Shutdown(w) \/ Crash(w)
    \/ \E j \in Jobs : Poll(w, j) \/ Reclaim(w, j) \/ DeliveryLost(w, j)

Next ==
    \/ ClientStep
    \/ ApiBootstrap
    \/ \E w \in Workers : WorkerStep(w)
    \/ \E t \in Slots : TaskStep(t) \/ TaskFault(t)

Spec == Init /\ [][Next]_vars

(***************************************************************************)
(* Fairness.  asyncio runs every ready task, and the container runtime     *)
(* restarts a worker that is down.  Every due pass of the loop of run      *)
(* reclaims all that is idle; Reclaim needs strong fairness because it is  *)
(* disabled while all Slots are taken.  Poll is not fair: the breaker may  *)
(* keep it from ever running (IngestionResumes in LlmGate).                *)
(***************************************************************************)
Fairness ==
    /\ \A w \in Workers :
           /\ WF_vars(Start(w))
           /\ WF_vars(Shutdown(w))
           /\ \A j \in Jobs : SF_vars(Reclaim(w, j))
    /\ \A t \in Slots : WF_vars(TaskStep(t))

FairSpec == Spec /\ Fairness
=============================================================================
