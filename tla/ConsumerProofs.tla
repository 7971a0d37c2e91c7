--------------------------- MODULE ConsumerProofs ---------------------------
(***************************************************************************)
(* Proofs about Consumer, for every set of jobs, workers and task slots    *)
(* and every value of the limits.                                          *)
(***************************************************************************)
EXTENDS ConsumerProperties, TLAPS

-----------------------------------------------------------------------------
(* Type correctness.                                                       *)

\* Every operation of broker.py keeps stream, group and PEL typed.
LEMMA BrokerOpsTyped ==
    ASSUME BrokerTypeOK, NEW j \in Jobs,
           \/ EnsureConsumerGroup
           \/ EnqueueIntelligenceJob(j)
           \/ ReadNew(j)
           \/ ReclaimAbandonedJob(j)
           \/ XAck(j)
           \/ DlqAppend(j)
    PROVE  BrokerTypeOK'
<1> USE BrokerAssumption DEF BrokerTypeOK
<1>1. CASE EnsureConsumerGroup
  BY <1>1 DEF EnsureConsumerGroup
<1>2. CASE EnqueueIntelligenceJob(j)
  BY <1>2 DEF EnqueueIntelligenceJob
<1>3. CASE ReadNew(j)
  BY <1>3 DEF ReadNew, CountDelivery, Exhausted
<1>4. CASE ReclaimAbandonedJob(j)
  BY <1>4 DEF ReclaimAbandonedJob, CountDelivery, Exhausted
<1>5. CASE XAck(j)
  BY <1>5 DEF XAck
<1>6. CASE DlqAppend(j)
  BY <1>6 DEF DlqAppend
<1>. QED
  BY <1>1, <1>2, <1>3, <1>4, <1>5, <1>6

\* So does creating the group, also when no job exists.
LEMMA EnsureGroupTyped ==
    ASSUME BrokerTypeOK, EnsureConsumerGroup
    PROVE  BrokerTypeOK'
BY DEF BrokerTypeOK, EnsureConsumerGroup

\* Writing a job key keeps the keys typed.
LEMMA SetStatusTyped ==
    ASSUME SubmissionTypeOK, NEW j \in Jobs, NEW s \in Status, SetStatus(j, s)
    PROVE  SubmissionTypeOK'
BY DEF SubmissionTypeOK, SetStatus, Status, Terminal

\* Moving, ending and dispatching a task keeps the tasks typed.
LEMMA GotoTyped ==
    ASSUME TypeOK, NEW t \in Slots, NEW pc \in PC, Goto(t, pc)
    PROVE  task' \in [Slots -> Task]
<1>1. [task[t] EXCEPT !.pc = pc] \in Task
  BY DEF TypeOK, Task
<1>. QED
  BY <1>1 DEF TypeOK, Goto

\* The idle slot is a task.
LEMMA NoTaskTyped == NoTask \in Task
BY ConsumerAssumption DEF NoTask, Task, PC

\* A rate limit that is retried changes step and attempt of a task only.
LEMMA RetriedTyped ==
    ASSUME NEW k \in Task, k.attempt < MaxRetries
    PROVE  /\ Retried(k) \in Task
           /\ Retried(k).pc = "analyse" /\ Retried(k).job = k.job
           /\ Retried(k).worker = k.worker /\ Retried(k).checked = k.checked
<1>1. k.attempt + 1 \in 1..MaxRetries
  BY ConsumerAssumption DEF Task
<1>. QED
  BY <1>1 DEF Retried, Task, PC

\* Ending a task keeps the tasks typed.
LEMMA FinishTyped ==
    ASSUME TypeOK, NEW t \in Slots, Finish(t)
    PROVE  task' \in [Slots -> Task]
BY NoTaskTyped DEF TypeOK, Finish

\* Dispatching a delivered entry keeps the tasks typed.
LEMMA DispatchTyped ==
    ASSUME TypeOK, NEW w \in Workers, NEW j \in Jobs, Dispatch(w, j)
    PROVE  task' \in [Slots -> Task]
<1>1. NewTask(w, j) \in Task
  BY ConsumerAssumption DEF NewTask, Task, PC
<1>. QED
  BY <1>1 DEF TypeOK, Dispatch

\* A task at work has a job, because its entry was delivered.
LEMMA LiveTaskHasJob ==
    ASSUME TypeOK, TaskInv, NEW t \in Slots, Live(t)
    PROVE  task[t].job \in Jobs
<1>1. task[t].job \in Delivered
  BY DEF TaskInv, TaskOK
<1>2. Delivered \subseteq Jobs
  BY DEF Delivered, TypeOK, BrokerTypeOK
<1>. QED
  BY <1>1, <1>2

\* No step of clients, workers, tasks or faults breaks a type.
LEMMA TypeInductive ==
    ASSUME TypeOK, TaskInv, [Next]_vars
    PROVE  TypeOK'
<1> USE DEF TypeOK
<1>1. CASE ClientStep
  <2>1. ASSUME NEW j \in Jobs, PrewarmJob(j), UNCHANGED <<worker, task, faults>>
        PROVE  TypeOK'
    BY <2>1, SetStatusTyped DEF PrewarmJob, brokerVars, BrokerTypeOK, Status
  <2>2. ASSUME NEW j \in Jobs, PublishJob(j) \/ PublishBatchJob(j),
               UNCHANGED <<worker, task, faults>>
        PROVE  TypeOK'
    <3>1. EnqueueIntelligenceJob(j) /\ UNCHANGED jobVars
      BY <2>2 DEF PublishJob, PublishBatchJob
    <3>. QED
      BY <2>2, <3>1, BrokerOpsTyped DEF jobVars, SubmissionTypeOK
  <2>3. ASSUME PrewarmBatch, UNCHANGED <<worker, task, faults>>
        PROVE  TypeOK'
    BY <2>3 DEF PrewarmBatch, brokerVars, BrokerTypeOK, SubmissionTypeOK
  <2>. QED
    BY <1>1, <2>1, <2>2, <2>3 DEF ClientStep, Submit
<1>2. CASE ApiBootstrap
  BY <1>2, EnsureGroupTyped DEF ApiBootstrap, jobVars, SubmissionTypeOK
<1>3. ASSUME NEW w \in Workers, WorkerStep(w)
      PROVE  TypeOK'
  <2>1. CASE Start(w)
    BY <2>1, EnsureGroupTyped DEF Start, jobVars, SubmissionTypeOK
  <2>2. CASE Stop(w)
    BY <2>2, ConsumerAssumption
       DEF Stop, Fault, brokerVars, jobVars, BrokerTypeOK, SubmissionTypeOK
  <2>3. CASE Shutdown(w)
    BY <2>3 DEF Shutdown, brokerVars, jobVars, BrokerTypeOK, SubmissionTypeOK
  <2>4. CASE Crash(w)
    BY <2>4, NoTaskTyped, ConsumerAssumption
       DEF Crash, Fault, brokerVars, jobVars, BrokerTypeOK, SubmissionTypeOK
  <2>5. ASSUME NEW j \in Jobs, Poll(w, j) \/ Reclaim(w, j)
        PROVE  TypeOK'
    BY <2>5, BrokerOpsTyped, DispatchTyped
       DEF Poll, Reclaim, jobVars, SubmissionTypeOK
  <2>6. ASSUME NEW j \in Jobs, DeliveryLost(w, j)
        PROVE  TypeOK'
    BY <2>6, BrokerOpsTyped, ConsumerAssumption
       DEF DeliveryLost, Fault, jobVars, SubmissionTypeOK
  <2>. QED
    BY <1>3, <2>1, <2>2, <2>3, <2>4, <2>5, <2>6 DEF WorkerStep
<1>4. ASSUME NEW t \in Slots, TaskStep(t) \/ TaskFault(t)
      PROVE  TypeOK'
  <2> USE DEF PC
  <2>1. Live(t)
    BY <1>4 DEF At, TaskStep, TaskFault, Live, Inspect, Quarantine, RouteToDlq,
       AckQuarantined, MarkProcessing, Analyse, Publish, RunRaises,
       RecordFailure, RecordFailureRaises, RateLimited, GiveUp, Ack,
       CheckBatchJob, CompleteBatch, InspectFails, MarkSwallowed, TaskDies
  <2>2. task[t].job \in Jobs
    BY <2>1, LiveTaskHasJob
  <2>3. CASE Inspect(t) \/ Publish(t) \/ RunRaises(t) \/ GiveUp(t)
    BY <2>3, GotoTyped, FinishTyped
       DEF Inspect, Publish, RunRaises, GiveUp, brokerVars, jobVars,
           BrokerTypeOK, SubmissionTypeOK
  <2>4. CASE \/ Quarantine(t) \/ MarkProcessing(t) \/ Analyse(t)
             \/ RecordFailure(t) \/ RecordFailureRaises(t)
    BY <2>2, <2>4, GotoTyped, SetStatusTyped
       DEF Quarantine, MarkProcessing, Analyse, RecordFailure,
           RecordFailureRaises, brokerVars, BrokerTypeOK, Status, Terminal
  <2>5. CASE RouteToDlq(t) \/ AckQuarantined(t) \/ Ack(t)
    BY <2>2, <2>5, GotoTyped, FinishTyped, BrokerOpsTyped
       DEF RouteToDlq, AckQuarantined, Ack, jobVars, SubmissionTypeOK
  <2>6. CASE RateLimited(t)
    <3>1. Retried(task[t]) \in Task
      BY <2>6, RetriedTyped DEF RateLimited
    <3>. QED
      BY <2>6, <3>1
         DEF RateLimited, brokerVars, jobVars, BrokerTypeOK, SubmissionTypeOK
  <2>7. CASE CheckBatchJob(t)
    <3>1. \A j \in Batch : [task[t] EXCEPT !.checked = @ \cup {j}] \in Task
      BY DEF Task
    <3>. QED
      BY <2>7, <3>1, GotoTyped, FinishTyped
         DEF CheckBatchJob, brokerVars, jobVars, BrokerTypeOK, SubmissionTypeOK
  <2>8. CASE CompleteBatch(t)
    BY <2>8, GotoTyped, FinishTyped
       DEF CompleteBatch, brokerVars, BrokerTypeOK, SubmissionTypeOK
  <2>9. CASE TaskFault(t)
    BY <2>9, GotoTyped, FinishTyped, ConsumerAssumption
       DEF TaskFault, InspectFails, MarkSwallowed, TaskDies, Fault, brokerVars,
           jobVars, BrokerTypeOK, SubmissionTypeOK
  <2>. QED
    BY <1>4, <2>3, <2>4, <2>5, <2>6, <2>7, <2>8, <2>9 DEF TaskStep
<1>5. CASE UNCHANGED vars
  BY <1>5 DEF vars, brokerVars, jobVars, BrokerTypeOK, SubmissionTypeOK
<1>. QED
  BY <1>1, <1>2, <1>3, <1>4, <1>5 DEF Next

-----------------------------------------------------------------------------
(* How the broker operations move the set of delivered jobs.               *)

\* Only stream and positions say what was delivered.
LEMMA DeliveredFixed ==
    ASSUME UNCHANGED <<stream, groupStart, cursor>>
    PROVE  Delivered' = Delivered
BY DEF Delivered

\* Creating the group, once or again, delivers nothing.
LEMMA DeliveredByEnsure ==
    ASSUME BrokerTypeOK, StreamInv, EnsureConsumerGroup
    PROVE  Delivered' = Delivered
<1>1. CASE group
  BY <1>1 DEF EnsureConsumerGroup, Delivered
<1>2. CASE ~group
  <2>1. Delivered = {}
    BY <1>2 DEF Delivered, StreamInv, BrokerTypeOK
  <2>2. Delivered' = {}
    BY <1>2 DEF Delivered, EnsureConsumerGroup, BrokerTypeOK
  <2>. QED
    BY <2>1, <2>2
<1>. QED
  BY <1>1, <1>2

\* Publishing delivers nothing.
LEMMA DeliveredByEnqueue ==
    ASSUME BrokerTypeOK, NEW j \in Jobs, EnqueueIntelligenceJob(j)
    PROVE  Delivered' = Delivered
<1>1. \A i \in 1..Len(stream) : stream'[i] = stream[i]
  BY DEF EnqueueIntelligenceJob, BrokerTypeOK
<1>2. groupStart' = groupStart /\ cursor' = cursor
  BY DEF EnqueueIntelligenceJob
<1>3. \A i \in groupStart + 1..cursor : i \in 1..Len(stream)
  BY DEF BrokerTypeOK
<1>. QED
  BY <1>1, <1>2, <1>3 DEF Delivered

\* XREADGROUP delivers exactly the entry it returns, for the first time.
LEMMA DeliveredByRead ==
    ASSUME BrokerTypeOK, StreamInv, NEW j \in Jobs, ReadNew(j)
    PROVE  /\ Delivered' = Delivered \cup {j}
           /\ j \notin Delivered
<1>1. groupStart + 1..cursor + 1 = (groupStart + 1..cursor) \cup {cursor + 1}
  BY DEF BrokerTypeOK, StreamInv
<1>2. Delivered' = Delivered \cup {j}
  BY <1>1 DEF Delivered, ReadNew
<1>3. \A i \in groupStart + 1..cursor :
        i \in 1..Len(stream) /\ i # cursor + 1
  BY DEF BrokerTypeOK
<1>4. cursor + 1 \in 1..Len(stream)
  BY DEF BrokerTypeOK, ReadNew
<1>5. j \notin Delivered
  BY <1>3, <1>4 DEF Delivered, ReadNew, StreamInv
<1>. QED
  BY <1>2, <1>5

\* What was delivered are jobs.
LEMMA DeliveredAreJobs ==
    ASSUME BrokerTypeOK
    PROVE  Delivered \subseteq Jobs
BY DEF Delivered, BrokerTypeOK

\* A delivered job has its key, and its batch key if it has a batch.
LEMMA DeliveredHaveKeys ==
    ASSUME BrokerTypeOK, KeysInv, NEW j \in Delivered
    PROVE  status[j] # "none" /\ (j \in Batch => batchStatus # "none")
<1>1. PICK i \in groupStart + 1..cursor : j = stream[i]
  BY DEF Delivered
<1>2. i \in 1..Len(stream)
  BY <1>1 DEF BrokerTypeOK
<1>. QED
  BY <1>1, <1>2 DEF KeysInv

-----------------------------------------------------------------------------
(* Facts no step takes back.  A task keeps what it relies on while the     *)
(* others move: the rely half of the inductive invariant.                  *)

Grow ==
    /\ Delivered \subseteq Delivered'
    /\ \A j \in Jobs : Exhausted(j) => Exhausted(j)'
    /\ \A j \in Jobs : dlq[j] > 0 => dlq'[j] > 0
    /\ \A j \in Jobs : outcome[j] \subseteq outcome'[j]

\* No operation of the broker takes a fact back.
LEMMA GrowBroker ==
    ASSUME BrokerTypeOK, StreamInv, NEW j \in Jobs,
           \/ EnsureConsumerGroup
           \/ EnqueueIntelligenceJob(j)
           \/ ReadNew(j)
           \/ ReclaimAbandonedJob(j)
           \/ XAck(j)
           \/ DlqAppend(j),
           UNCHANGED jobVars
    PROVE  Grow
<1> USE DEF Grow, jobVars, Exhausted
<1>1. CASE EnsureConsumerGroup
  BY <1>1, DeliveredByEnsure DEF EnsureConsumerGroup
<1>2. CASE EnqueueIntelligenceJob(j)
  BY <1>2, DeliveredByEnqueue DEF EnqueueIntelligenceJob
<1>3. CASE ReadNew(j)
  BY <1>3, DeliveredByRead DEF ReadNew, CountDelivery, BrokerTypeOK
<1>4. CASE ReclaimAbandonedJob(j)
  BY <1>4, DeliveredFixed DEF ReclaimAbandonedJob, CountDelivery, BrokerTypeOK
<1>5. CASE XAck(j)
  BY <1>5, DeliveredFixed DEF XAck
<1>6. CASE DlqAppend(j)
  BY <1>6, DeliveredFixed DEF DlqAppend, BrokerTypeOK
<1>. QED
  BY <1>1, <1>2, <1>3, <1>4, <1>5, <1>6

\* Neither does writing a job key ...
LEMMA GrowStatus ==
    ASSUME SubmissionTypeOK, NEW j \in Jobs, NEW s \in Status,
           SetStatus(j, s), UNCHANGED brokerVars
    PROVE  Grow
BY DeliveredFixed DEF Grow, SetStatus, SubmissionTypeOK, brokerVars, Exhausted

\* ... nor a step that touches nothing of the data.
LEMMA GrowQuiet ==
    ASSUME UNCHANGED <<brokerVars, status, outcome>>
    PROVE  Grow
BY DeliveredFixed DEF Grow, brokerVars, Exhausted

\* A slot without a task relies on nothing.
LEMMA IdleTask ==
    ASSUME NEW t \in Slots, (task[t] = NoTask)'
    PROVE  TaskOK(t)'
BY DEF TaskOK, NoTask, Live, At

\* A task that does not move keeps its part of the invariant.
LEMMA Untouched ==
    ASSUME TypeOK, NEW u \in Slots, TaskOK(u), task'[u] = task[u], Grow
    PROVE  TaskOK(u)'
<1>1. Live(u) => task[u].job \in Jobs
  BY DeliveredAreJobs DEF TaskOK, TypeOK
<1>2. task[u].checked \subseteq Jobs
  BY SubmissionAssumption DEF TypeOK, Task
<1>. QED
  BY <1>1, <1>2 DEF TaskOK, Grow, Live, At, Analysed

\* So only the tasks that move need a proof.
LEMMA TaskInvFromMoved ==
    ASSUME TypeOK, TaskInv, Grow, NEW t \in Slots, TaskOK(t)',
           NEW r, task' = [task EXCEPT ![t] = r]
    PROVE  TaskInv'
<1> SUFFICES ASSUME NEW u \in Slots
             PROVE  TaskOK(u)'
  BY DEF TaskInv
<1>1. CASE u = t
  BY <1>1
<1>2. CASE u # t
  BY <1>2, Untouched DEF TaskInv, TypeOK
<1>. QED
  BY <1>1, <1>2

-----------------------------------------------------------------------------
(* The invariant without its task part, operation by operation.            *)

DataInv ==
    /\ StreamInv
    /\ KeysInv
    /\ OutcomeInv
    /\ NoEntryLost
    /\ QuarantineOnlyExhausted
    /\ BatchCompletedSound

\* A step that leaves broker and keys alone keeps the data invariant.
LEMMA QuietData ==
    ASSUME DataInv, UNCHANGED <<brokerVars, jobVars>>
    PROVE  DataInv'
<1>1. Delivered' = Delivered /\ Settled' = Settled
  BY DeliveredFixed DEF brokerVars, Settled
<1>. QED
  BY <1>1 DEF DataInv, brokerVars, jobVars, StreamInv, KeysInv, OutcomeInv,
     NoEntryLost, Evidence, Analysed, QuarantineOnlyExhausted, Exhausted,
     BatchCompletedSound

\* A job key may be written if a result is only written for a delivered job.
LEMMA StatusData ==
    ASSUME TypeOK, DataInv, NEW j \in Jobs, NEW s \in Status \ {"none"},
           SetStatus(j, s), UNCHANGED brokerVars,
           s \in Terminal => j \in Delivered
    PROVE  DataInv'
<1>1. Delivered' = Delivered /\ Settled' = Settled
  BY DeliveredFixed DEF brokerVars, Settled
<1>2. \A k \in Jobs : outcome[k] \subseteq outcome'[k]
  BY DEF SetStatus, TypeOK, SubmissionTypeOK
<1>3. StreamInv'
  BY <1>1 DEF DataInv, StreamInv, brokerVars
<1>4. KeysInv'
  BY SubmissionAssumption
     DEF DataInv, KeysInv, brokerVars, SetStatus, TypeOK, SubmissionTypeOK,
         BrokerTypeOK
<1>5. OutcomeInv'
  BY <1>1 DEF DataInv, OutcomeInv, brokerVars, SetStatus, TypeOK,
     SubmissionTypeOK
<1>6. NoEntryLost'
  <2>1. \A k \in Settled : k \in Jobs
    BY DeliveredAreJobs DEF Settled, TypeOK
  <2>. QED
    BY <1>1, <1>2, <2>1
       DEF DataInv, NoEntryLost, Evidence, Analysed, brokerVars
<1>7. QuarantineOnlyExhausted'
  BY DEF DataInv, QuarantineOnlyExhausted, Exhausted, brokerVars
<1>8. BatchCompletedSound'
  BY <1>2, SubmissionAssumption DEF DataInv, BatchCompletedSound, SetStatus
<1>. QED
  BY <1>3, <1>4, <1>5, <1>6, <1>7, <1>8 DEF DataInv

\* The batch key may be written "completed" once all its jobs concluded.
LEMMA BatchData ==
    ASSUME DataInv, UNCHANGED <<brokerVars, status, outcome>>,
           batchStatus' # "none",
           \A j \in Batch : status[j] # "none",
           batchStatus' = "completed" => \A j \in Batch : outcome[j] # {}
    PROVE  DataInv'
<1>1. Delivered' = Delivered /\ Settled' = Settled
  BY DeliveredFixed DEF brokerVars, Settled
<1>. QED
  BY <1>1 DEF DataInv, brokerVars, StreamInv, KeysInv, OutcomeInv, NoEntryLost,
     Evidence, Analysed, QuarantineOnlyExhausted, Exhausted,
     BatchCompletedSound

\* A job may be published once, after its keys were written.
LEMMA EnqueueData ==
    ASSUME TypeOK, DataInv, NEW j \in Jobs, EnqueueIntelligenceJob(j),
           UNCHANGED jobVars, ~InStream(j), status[j] # "none",
           j \in Batch => batchStatus # "none"
    PROVE  DataInv'
<1>1. Delivered' = Delivered /\ Settled' = Settled
  BY DeliveredByEnqueue DEF Settled, EnqueueIntelligenceJob, TypeOK
<1>2. /\ Len(stream') = Len(stream) + 1
      /\ \A i \in 1..Len(stream) : stream'[i] = stream[i]
      /\ stream'[Len(stream) + 1] = j
  BY DEF EnqueueIntelligenceJob, TypeOK, BrokerTypeOK
<1>3. \A i \in 1..Len(stream') : i \in 1..Len(stream) \/ i = Len(stream) + 1
  BY <1>2 DEF TypeOK, BrokerTypeOK
<1>4. StreamInv'
  BY <1>1, <1>2, <1>3
     DEF DataInv, StreamInv, InStream, EnqueueIntelligenceJob
<1>5. KeysInv'
  BY <1>2, <1>3 DEF DataInv, KeysInv, jobVars
<1>6. OutcomeInv' /\ NoEntryLost' /\ QuarantineOnlyExhausted'
  BY <1>1 DEF DataInv, OutcomeInv, NoEntryLost, Evidence, Analysed,
     QuarantineOnlyExhausted, Exhausted, jobVars, EnqueueIntelligenceJob
<1>7. BatchCompletedSound'
  BY DEF DataInv, BatchCompletedSound, jobVars
<1>. QED
  BY <1>4, <1>5, <1>6, <1>7 DEF DataInv

\* The group may be created at any moment.
LEMMA EnsureData ==
    ASSUME TypeOK, DataInv, EnsureConsumerGroup, UNCHANGED jobVars
    PROVE  DataInv'
<1>1. Delivered' = Delivered /\ Settled' = Settled
  BY DeliveredByEnsure DEF Settled, EnsureConsumerGroup, TypeOK, DataInv
<1>2. StreamInv'
  BY <1>1 DEF DataInv, StreamInv, EnsureConsumerGroup, TypeOK, BrokerTypeOK
<1>. QED
  BY <1>1, <1>2 DEF DataInv, EnsureConsumerGroup, jobVars, KeysInv, OutcomeInv,
     NoEntryLost, Evidence, Analysed, QuarantineOnlyExhausted, Exhausted,
     BatchCompletedSound

\* The next entry may be delivered at any moment.
LEMMA ReadData ==
    ASSUME TypeOK, DataInv, NEW j \in Jobs, ReadNew(j), UNCHANGED jobVars
    PROVE  DataInv'
<1>1. Delivered' = Delivered \cup {j}
  BY DeliveredByRead DEF TypeOK, DataInv
<1>2. Settled' \subseteq Settled
  BY <1>1 DEF Settled, ReadNew
<1>3. StreamInv'
  BY <1>1 DEF DataInv, StreamInv, ReadNew, TypeOK, BrokerTypeOK
<1>4. \A k \in Jobs : Exhausted(k) => Exhausted(k)'
  BY DEF ReadNew, CountDelivery, Exhausted, TypeOK, BrokerTypeOK
<1>. QED
  BY <1>1, <1>2, <1>3, <1>4
     DEF DataInv, ReadNew, jobVars, KeysInv, OutcomeInv, NoEntryLost, Evidence,
         Analysed, QuarantineOnlyExhausted, BatchCompletedSound

\* A pending entry may be claimed at any moment, by anybody.
LEMMA ReclaimData ==
    ASSUME TypeOK, DataInv, NEW j \in Jobs, ReclaimAbandonedJob(j),
           UNCHANGED jobVars
    PROVE  DataInv'
<1>1. Delivered' = Delivered /\ Settled' = Settled
  BY DeliveredFixed DEF Settled, ReclaimAbandonedJob
<1>2. \A k \in Jobs : Exhausted(k) => Exhausted(k)'
  BY DEF ReclaimAbandonedJob, CountDelivery, Exhausted, TypeOK, BrokerTypeOK
<1>. QED
  BY <1>1, <1>2
     DEF DataInv, ReclaimAbandonedJob, jobVars, StreamInv, KeysInv, OutcomeInv,
         NoEntryLost, Evidence, Analysed, QuarantineOnlyExhausted,
         BatchCompletedSound

\* An entry may be acknowledged when there is evidence of how its job ended.
LEMMA AckData ==
    ASSUME TypeOK, DataInv, NEW j \in Jobs, XAck(j), UNCHANGED jobVars,
           Evidence(j)
    PROVE  DataInv'
<1>1. Delivered' = Delivered
  BY DeliveredFixed DEF XAck
<1>2. Settled' \subseteq Settled \cup {j}
  BY <1>1 DEF Settled, XAck
<1>. QED
  BY <1>1, <1>2
     DEF DataInv, XAck, jobVars, StreamInv, KeysInv, OutcomeInv, NoEntryLost,
         Evidence, Analysed, QuarantineOnlyExhausted, Exhausted,
         BatchCompletedSound

\* A delivered job may be dead-lettered when its deliveries are exhausted.
LEMMA DlqData ==
    ASSUME TypeOK, DataInv, NEW j \in Delivered, DlqAppend(j),
           UNCHANGED jobVars, Exhausted(j)
    PROVE  DataInv'
<1>1. Delivered' = Delivered /\ Settled' = Settled
  BY DeliveredFixed DEF Settled, DlqAppend
<1>2. Delivered \subseteq Jobs
  BY DeliveredAreJobs DEF TypeOK
<1>3. \A k \in Jobs : dlq'[k] = IF k = j THEN dlq[k] + 1 ELSE dlq[k]
  BY <1>2 DEF DlqAppend, TypeOK, BrokerTypeOK
<1>4. StreamInv' /\ KeysInv' /\ BatchCompletedSound'
  BY <1>1 DEF DataInv, DlqAppend, jobVars, StreamInv, KeysInv,
     BatchCompletedSound
<1>5. OutcomeInv' /\ QuarantineOnlyExhausted'
  BY <1>1, <1>3 DEF DataInv, DlqAppend, jobVars, OutcomeInv,
     QuarantineOnlyExhausted, Exhausted
<1>6. NoEntryLost'
  <2>1. Settled \subseteq Jobs
    BY <1>2 DEF Settled
  <2>2. \A k \in Jobs : dlq[k] > 0 => dlq'[k] > 0
    BY <1>3 DEF TypeOK, BrokerTypeOK
  <2>. QED
    BY <1>1, <2>1, <2>2
       DEF DataInv, jobVars, NoEntryLost, Evidence, Analysed
<1>. QED
  BY <1>4, <1>5, <1>6 DEF DataInv

-----------------------------------------------------------------------------
(* The inductive step.                                                     *)

\* The invariant holds in the empty system.
LEMMA InitInv == Init => IInv
<1> SUFFICES ASSUME Init
             PROVE  IInv
  OBVIOUS
<1> USE DEF Init, BrokerInit, SubmissionInit
<1>1. Delivered = {}
  BY DEF Delivered
<1>2. TypeOK
  <2>1. BrokerTypeOK
    <3>1. stream \in Seq(Jobs) /\ Len(stream) = 0
      OBVIOUS
    <3>2. 0 \in 0..MaxDelivery + 1
      BY BrokerAssumption
    <3>3. group \in BOOLEAN
      OBVIOUS
    <3>4. deliveries \in [Jobs -> 0..MaxDelivery + 1]
      BY <3>2
    <3>. QED
      BY <3>1, <3>3, <3>4 DEF BrokerTypeOK
  <2>2. SubmissionTypeOK
    BY DEF SubmissionTypeOK, Status, Terminal
  <2>. QED
    BY <2>1, <2>2, NoTaskTyped, ConsumerAssumption DEF TypeOK
<1>3. StreamInv /\ KeysInv /\ OutcomeInv
  BY <1>1 DEF StreamInv, KeysInv, OutcomeInv, Terminal
<1>4. TaskInv
  BY DEF TaskInv, TaskOK, NoTask, Live, At
<1>5. NoEntryLost /\ QuarantineOnlyExhausted /\ BatchCompletedSound
  BY <1>1 DEF NoEntryLost, Settled, QuarantineOnlyExhausted, BatchCompletedSound
<1>. QED
  BY <1>2, <1>3, <1>4, <1>5 DEF IInv

\* The command edge keeps the invariant.
LEMMA ClientInductive ==
    ASSUME IInv, ClientStep
    PROVE  DataInv' /\ Grow
<1> USE DEF IInv
<1>0. DataInv
  BY DEF DataInv
<1>1. ASSUME NEW j \in Jobs, PrewarmJob(j)
      PROVE  DataInv' /\ Grow
  <2>1. /\ "queued" \in Status \ {"none"}
        /\ "queued" \notin Terminal
    BY DEF Status, Terminal
  <2>. QED
    BY <1>0, <1>1, <2>1, StatusData, GrowStatus DEF PrewarmJob, TypeOK
<1>2. ASSUME NEW j \in Jobs, PublishJob(j) \/ PublishBatchJob(j)
      PROVE  DataInv' /\ Grow
  <2>1. /\ EnqueueIntelligenceJob(j)
        /\ UNCHANGED jobVars
        /\ ~InStream(j)
        /\ j \in Batch => batchStatus # "none"
    BY <1>2 DEF PublishJob, PublishBatchJob
  <2>2. status[j] # "none"
    BY <1>0, <1>2 DEF PublishJob, PublishBatchJob, DataInv, KeysInv
  <2>. QED
    BY <1>0, <2>1, <2>2, EnqueueData, GrowBroker DEF TypeOK
<1>3. ASSUME PrewarmBatch
      PROVE  DataInv' /\ Grow
  BY <1>0, <1>3, BatchData, GrowQuiet DEF PrewarmBatch
<1>. QED
  BY <1>1, <1>2, <1>3 DEF ClientStep, Submit

\* Starting, stopping and crashing workers, polls and reclaims keep it.
LEMMA WorkerInductive ==
    ASSUME IInv, NEW w \in Workers, WorkerStep(w)
    PROVE  DataInv' /\ Grow /\ TaskInv'
<1> USE DEF IInv
<1>0. DataInv
  BY DEF DataInv
<1>1. CASE Start(w)
  <2>1. DataInv' /\ Grow
    <3>1. EnsureConsumerGroup /\ UNCHANGED jobVars
      BY <1>1 DEF Start
    <3>2. Grow
      BY <3>1, DeliveredByEnsure
         DEF Grow, EnsureConsumerGroup, jobVars, Exhausted, TypeOK
    <3>. QED
      BY <1>0, <3>1, <3>2, EnsureData
  <2>. QED
    BY <1>1, <2>1, Untouched DEF Start, TaskInv
<1>2. CASE Stop(w) \/ Shutdown(w)
  <2>1. DataInv' /\ Grow
    BY <1>0, <1>2, QuietData, GrowQuiet DEF Stop, Shutdown, jobVars
  <2>. QED
    BY <1>2, <2>1, Untouched DEF Stop, Shutdown, TaskInv
<1>3. CASE Crash(w)
  <2>1. DataInv' /\ Grow
    BY <1>0, <1>3, QuietData, GrowQuiet DEF Crash, jobVars
  <2>2. ASSUME NEW u \in Slots
        PROVE  TaskOK(u)'
    <3>1. task'[u] = NoTask \/ task'[u] = task[u]
      BY <1>3 DEF Crash
    <3>. QED
      BY <2>1, <3>1, IdleTask, Untouched DEF TaskInv
  <2>. QED
    BY <2>1, <2>2 DEF TaskInv
<1>4. ASSUME NEW j \in Jobs, Poll(w, j) \/ Reclaim(w, j)
      PROVE  DataInv' /\ Grow /\ TaskInv'
  <2>1. /\ ReadNew(j) \/ ReclaimAbandonedJob(j)
        /\ Dispatch(w, j)
        /\ UNCHANGED jobVars
    BY <1>4 DEF Poll, Reclaim
  <2>2. DataInv' /\ Grow
    BY <1>0, <2>1, ReadData, ReclaimData, GrowBroker DEF TypeOK
  <2>3. j \in Delivered'
    BY <2>1, DeliveredByRead, DeliveredFixed
       DEF ReclaimAbandonedJob, StreamInv, TypeOK
  <2>4. PICK t \in Slots : ~Live(t) /\ task' = [task EXCEPT ![t] = NewTask(w, j)]
    BY <2>1 DEF Dispatch
  <2>5. TaskOK(t)'
    BY <2>3, <2>4 DEF TaskOK, NewTask, Live, At, TypeOK
  <2>. QED
    BY <2>2, <2>4, <2>5, TaskInvFromMoved
<1>5. ASSUME NEW j \in Jobs, DeliveryLost(w, j)
      PROVE  DataInv' /\ Grow /\ TaskInv'
  <2>1. DataInv' /\ Grow
    BY <1>0, <1>5, ReadData, ReclaimData, GrowBroker DEF DeliveryLost, TypeOK
  <2>. QED
    BY <1>5, <2>1, Untouched DEF DeliveryLost, TaskInv
<1>. QED
  BY <1>1, <1>2, <1>3, <1>4, <1>5 DEF WorkerStep

\* So does every step and every fault of a task.
LEMMA TaskInductive ==
    ASSUME IInv, NEW t \in Slots, TaskStep(t) \/ TaskFault(t)
    PROVE  DataInv' /\ Grow /\ TaskInv'
<1> USE DEF IInv
<1>0. DataInv
  BY DEF DataInv
<1>1. Live(t)
  BY DEF At, TaskStep, TaskFault, Live, Inspect, Quarantine, RouteToDlq,
     AckQuarantined, MarkProcessing, Analyse, Publish, RunRaises,
     RecordFailure, RecordFailureRaises, RateLimited, GiveUp, Ack,
     CheckBatchJob, CompleteBatch, InspectFails, MarkSwallowed, TaskDies
<1>2. TaskOK(t)
  BY DEF TaskInv
<1>. PICK j : j = task[t].job
  OBVIOUS
<1>3. j \in Delivered /\ j \in Jobs
  BY <1>1, <1>2, DeliveredAreJobs DEF TaskOK, TypeOK
\* A finished task owes nothing; one that moves keeps job, worker, checked.
<1>4. ASSUME Grow, Finish(t)
      PROVE  TaskInv'
  <2>1. TaskOK(t)'
    BY <1>4, IdleTask DEF Finish, TypeOK
  <2>. QED
    BY <1>4, <2>1, TaskInvFromMoved DEF Finish
<1>5. ASSUME Grow, NEW pc \in PC, Goto(t, pc),
             pc \in {"quarantine", "dlq_append", "dlq_ack"} => Exhausted(j)',
             pc = "dlq_ack" => dlq'[j] > 0,
             pc \in {"publish", "ack"} => Analysed(j)'
      PROVE  TaskInv'
  <2> DEFINE r == [task[t] EXCEPT !.pc = pc]
  <2>1. /\ task' = [task EXCEPT ![t] = r]
        /\ task'[t] = r
        /\ r.pc = pc /\ r.job = j /\ r.worker = task[t].worker
        /\ r.checked = task[t].checked
    BY <1>5 DEF Goto, TypeOK, Task
  <2>2. \A k \in task[t].checked : outcome'[k] # {}
    BY <1>2, <1>5, SubmissionAssumption DEF TaskOK, Grow, TypeOK, Task
  <2>3. TaskOK(t)'
    BY <1>1, <1>2, <1>3, <1>5, <2>1, <2>2 DEF TaskOK, Live, At, Grow
  <2>. QED
    BY <1>5, <2>1, <2>3, TaskInvFromMoved
<1>6. CASE Inspect(t) \/ InspectFails(t) \/ MarkSwallowed(t) \/ Publish(t)
           \/ RunRaises(t) \/ GiveUp(t) \/ TaskDies(t)
  <2>1. DataInv' /\ Grow
    BY <1>0, <1>6, QuietData, GrowQuiet
       DEF Inspect, InspectFails, MarkSwallowed, Publish, RunRaises, GiveUp,
           TaskDies, jobVars
  <2>2. CASE Inspect(t)
    <3>1. deliveries' = deliveries
      BY <2>2 DEF Inspect, brokerVars
    <3>2. MessageDeliveryCount(j) > MaxDelivery => Exhausted(j)'
      BY <3>1, BrokerAssumption DEF MessageDeliveryCount, Exhausted
    <3>. QED
      BY <1>5, <2>1, <2>2, <3>2 DEF Inspect, PC
  <2>3. CASE Publish(t)
    <3>1. Analysed(j)'
      BY <1>2, <2>3 DEF Publish, At, TaskOK, Analysed, jobVars
    <3>. QED
      BY <1>5, <2>1, <2>3, <3>1 DEF Publish, PC
  <2>4. CASE InspectFails(t) \/ MarkSwallowed(t) \/ RunRaises(t)
    BY <1>5, <2>1, <2>4 DEF InspectFails, MarkSwallowed, RunRaises, PC
  <2>5. CASE GiveUp(t) \/ TaskDies(t)
    BY <1>4, <2>1, <2>5 DEF GiveUp, TaskDies
  <2>. QED
    BY <1>6, <2>1, <2>2, <2>3, <2>4, <2>5
<1>7. CASE RateLimited(t) \/ CheckBatchJob(t)
  <2>1. DataInv' /\ Grow
    BY <1>0, <1>7, QuietData, GrowQuiet DEF RateLimited, CheckBatchJob, jobVars
  <2>2. CASE RateLimited(t)
    <3> DEFINE r == Retried(task[t])
    <3>1. /\ task' = [task EXCEPT ![t] = r]
          /\ task'[t] = r
          /\ r.pc = "analyse" /\ r.job = j /\ r.worker = task[t].worker
          /\ r.checked = task[t].checked
      BY <2>2, RetriedTyped DEF RateLimited, TypeOK
    <3>2. TaskOK(t)'
      BY <1>1, <1>2, <1>3, <2>1, <2>2, <3>1
         DEF RateLimited, TaskOK, Live, At, Grow, jobVars
    <3>. QED
      BY <2>1, <3>1, <3>2, TaskInvFromMoved
  <2>3. ASSUME CheckBatchJob(t), NEW k \in Batch, status[k] \in Terminal,
               task' = [task EXCEPT ![t].checked = @ \cup {k}]
        PROVE  TaskInv'
    <3> DEFINE r == [task[t] EXCEPT !.checked = @ \cup {k}]
    <3>1. /\ task' = [task EXCEPT ![t] = r]
          /\ task'[t] = r
          /\ r.pc = "progress" /\ r.job = j /\ r.worker = task[t].worker
          /\ r.checked = task[t].checked \cup {k}
      BY <2>3 DEF CheckBatchJob, At, TypeOK, Task
    <3>2. outcome[k] # {}
      BY <2>3, SubmissionAssumption DEF OutcomeInv
    <3>3. TaskOK(t)'
      BY <1>1, <1>2, <1>3, <2>1, <2>3, <3>1, <3>2
         DEF CheckBatchJob, TaskOK, Live, At, Grow, jobVars
    <3>. QED
      BY <2>1, <3>1, <3>3, TaskInvFromMoved
  <2>. QED
    BY <1>4, <1>7, <2>1, <2>2, <2>3 DEF CheckBatchJob
<1>8. CASE Quarantine(t)
  <2>1. "dead_lettered" \in Status \ {"none"}
    BY DEF Status, Terminal
  <2>2. DataInv' /\ Grow
    BY <1>0, <1>3, <1>8, <2>1, StatusData, GrowStatus DEF Quarantine, TypeOK
  <2>3. Exhausted(j)'
    BY <1>2, <1>8 DEF TaskOK, Quarantine, At, Exhausted, brokerVars
  <2>. QED
    BY <1>5, <1>8, <2>2, <2>3 DEF Quarantine, PC
<1>9. CASE RouteToDlq(t)
  <2>1. Exhausted(j)
    BY <1>2, <1>9 DEF TaskOK, RouteToDlq, At
  <2>2. DataInv' /\ Grow
    BY <1>0, <1>3, <1>9, <2>1, DlqData, GrowBroker DEF RouteToDlq, TypeOK
  <2>3. Exhausted(j)' /\ dlq'[j] > 0
    BY <1>3, <1>9, <2>1
       DEF RouteToDlq, DlqAppend, Exhausted, TypeOK, BrokerTypeOK
  <2>. QED
    BY <1>5, <1>9, <2>2, <2>3 DEF RouteToDlq, PC
<1>10. CASE AckQuarantined(t)
  <2>1. Evidence(j)
    BY <1>2, <1>10 DEF TaskOK, AckQuarantined, At, Evidence
  <2>2. DataInv' /\ Grow
    BY <1>0, <1>3, <1>10, <2>1, AckData, GrowBroker DEF AckQuarantined, TypeOK
  <2>. QED
    BY <1>4, <1>10, <2>2 DEF AckQuarantined
<1>11. CASE MarkProcessing(t)
  <2>1. "processing" \in Status \ {"none"} /\ "processing" \notin Terminal
    BY DEF Status, Terminal
  <2>2. DataInv' /\ Grow
    BY <1>0, <1>3, <1>11, <2>1, StatusData, GrowStatus DEF MarkProcessing, TypeOK
  <2>. QED
    BY <1>5, <1>11, <2>2 DEF MarkProcessing, PC
<1>12. CASE Analyse(t) \/ RecordFailure(t) \/ RecordFailureRaises(t)
  <2>1. {"completed", "failed"} \subseteq Status \ {"none"}
    BY DEF Status, Terminal
  <2>2. DataInv' /\ Grow
    BY <1>0, <1>3, <1>12, <2>1, StatusData, GrowStatus
       DEF Analyse, RecordFailure, RecordFailureRaises, TypeOK
  <2>3. Analysed(j)'
    BY <1>3, <1>12
       DEF Analyse, RecordFailure, RecordFailureRaises, SetStatus, Terminal,
           Analysed, TypeOK, SubmissionTypeOK
  <2>4. CASE Analyse(t) \/ RecordFailure(t)
    BY <1>5, <2>2, <2>3, <2>4 DEF Analyse, RecordFailure, PC
  <2>5. CASE RecordFailureRaises(t)
    BY <2>2, <2>5, Untouched DEF RecordFailureRaises, TaskInv
  <2>. QED
    BY <1>12, <2>2, <2>4, <2>5
<1>13. CASE Ack(t)
  <2>1. Evidence(j)
    BY <1>2, <1>13 DEF TaskOK, Ack, At, Evidence
  <2>2. DataInv' /\ Grow
    BY <1>0, <1>3, <1>13, <2>1, AckData, GrowBroker DEF Ack, TypeOK
  <2>. QED
    BY <1>4, <1>5, <1>13, <2>2 DEF Ack, PC
<1>14. CASE CompleteBatch(t)
  <2>1. \A k \in Batch : outcome[k] # {}
    BY <1>2, <1>14 DEF TaskOK, CompleteBatch
  <2>2. \A k \in Delivered : status[k] # "none"
    BY DeliveredHaveKeys DEF TypeOK
  <2>3. \A k \in Batch : status[k] # "none"
    BY <2>1, <2>2, SubmissionAssumption DEF OutcomeInv
  <2>4. DataInv' /\ Grow
    BY <1>0, <1>14, <2>1, <2>3, BatchData, GrowQuiet DEF CompleteBatch
  <2>. QED
    BY <1>4, <1>14, <2>4 DEF CompleteBatch
<1>. QED
  BY <1>6, <1>7, <1>8, <1>9, <1>10, <1>11, <1>12, <1>13, <1>14
     DEF TaskStep, TaskFault

\* IInv is inductive: whatever tasks and workers interleave.
THEOREM InvInductive == IInv /\ [Next]_vars => IInv'
<1> SUFFICES ASSUME IInv, [Next]_vars
             PROVE  IInv'
  OBVIOUS
<1>1. TypeOK'
  BY TypeInductive DEF IInv
<1>2. DataInv' /\ TaskInv'
  <2>1. CASE ClientStep
    BY <2>1, ClientInductive, Untouched DEF ClientStep, IInv, TaskInv
  <2>2. CASE ApiBootstrap
    <3>1. EnsureConsumerGroup /\ UNCHANGED <<jobVars, task>>
      BY <2>2 DEF ApiBootstrap
    <3>2. Grow
      BY <3>1, DeliveredByEnsure
         DEF IInv, TypeOK, Grow, EnsureConsumerGroup, jobVars, Exhausted
    <3>3. DataInv'
      BY <3>1, EnsureData DEF IInv, DataInv
    <3>. QED
      BY <3>1, <3>2, <3>3, Untouched DEF IInv, TaskInv
  <2>3. CASE \E w \in Workers : WorkerStep(w)
    BY <2>3, WorkerInductive
  <2>4. CASE \E t \in Slots : TaskStep(t) \/ TaskFault(t)
    BY <2>4, TaskInductive
  <2>5. CASE UNCHANGED vars
    BY <2>5, QuietData, GrowQuiet, Untouched
       DEF vars, jobVars, IInv, DataInv, TaskInv
  <2>. QED
    BY <2>1, <2>2, <2>3, <2>4, <2>5 DEF Next
<1>. QED
  BY <1>1, <1>2 DEF IInv, DataInv

-----------------------------------------------------------------------------
(* The theorems.                                                           *)

\* IInv holds in every reachable state.
THEOREM Invariance == Spec => []IInv
<1>. QED
  BY InitInv, InvInductive, PTL DEF Spec

\* Every variable of the pipeline keeps its type.
THEOREM TypeCorrect == Spec => []TypeOK
<1>1. IInv => TypeOK
  BY DEF IInv
<1>. QED
  BY <1>1, Invariance, PTL

\* No delivered entry is acknowledged without evidence of how it ended.
THEOREM NothingLost == Spec => []NoEntryLost
<1>1. IInv => NoEntryLost
  BY DEF IInv
<1>. QED
  BY <1>1, Invariance, PTL

\* Nothing is dead-lettered before its deliveries are exhausted.
THEOREM QuarantineSound == Spec => []QuarantineOnlyExhausted
<1>1. IInv => QuarantineOnlyExhausted
  BY DEF IInv
<1>. QED
  BY <1>1, Invariance, PTL

\* A batch reported completed consists of concluded jobs.
THEOREM BatchSound == Spec => []BatchCompletedSound
<1>1. IInv => BatchCompletedSound
  BY DEF IInv
<1>. QED
  BY <1>1, Invariance, PTL

\* No task ever works on a job whose keys are not written.
THEOREM PickupPrewarmed == Spec => []PrewarmedBeforePickup
<1>1. IInv => PrewarmedBeforePickup
  BY DeliveredHaveKeys DEF IInv, TypeOK, TaskInv, TaskOK, PrewarmedBeforePickup
<1>. QED
  BY <1>1, Invariance, PTL
-----------------------------------------------------------------------------
(* A concluded job is processed again only after a redelivery.             *)

\* The steps of a task that come before it marks its job.
Early == {"inspect", "mark"}

\* OnceInv survives a step that counts no delivery, starts no task and
\* concludes a job only where another task of the job may already be.
LEMMA OnceKept ==
    ASSUME OnceInv, Delivered' = Delivered, deliveries' = deliveries,
           \A u \in Slots : Live(u)' =>
               /\ Live(u) /\ task'[u].job = task[u].job
               /\ task'[u].pc \in Early => task[u].pc \in Early,
           \A u \in Slots :
               task'[u].pc \in Early /\ status'[task[u].job] \in Terminal
                   => \/ status[task[u].job] \in Terminal
                      \/ deliveries[task[u].job] > 1
    PROVE  OnceInv'
<1>1. \A u \in Slots : task'[u].pc \in Early => Live(u)'
  BY DEF Live, Early
<1>. QED
  BY <1>1 DEF OnceInv, Live, Early

\* A step that leaves counts and statuses alone and lets tasks end at most.
LEMMA OnceQuiet ==
    ASSUME OnceInv, Delivered' = Delivered, UNCHANGED <<deliveries, status>>,
           \A u \in Slots : task'[u] = task[u] \/ task'[u] = NoTask
    PROVE  OnceInv'
<1>1. \A u \in Slots : Live(u)' => task'[u] = task[u] /\ Live(u)
  BY DEF Live, NoTask
<1>2. \A u \in Slots : task'[u].pc \in Early => Live(u)'
  BY DEF Live, Early
<1>. QED
  BY <1>1, <1>2, OnceKept

\* A counted delivery leaves a positive count, a second one more than one.
LEMMA DeliveryCounted ==
    ASSUME BrokerTypeOK, NEW j \in Jobs, CountDelivery(j)
    PROVE  /\ deliveries'[j] > 0
           /\ deliveries[j] > 0 => deliveries'[j] > 1
           /\ \A k \in Jobs : k # j => deliveries'[k] = deliveries[k]
           /\ \A k \in Jobs : deliveries[k] > 1 => deliveries'[k] > 1
<1>1. deliveries[j] \in Nat
  BY BrokerAssumption DEF BrokerTypeOK
<1>2. CASE Exhausted(j)
  <2>1. deliveries'[j] = deliveries[j] /\ deliveries[j] > 1
    BY <1>1, <1>2, BrokerAssumption DEF CountDelivery, Exhausted, BrokerTypeOK
  <2>. QED
    BY <2>1 DEF CountDelivery, BrokerTypeOK
<1>3. CASE ~Exhausted(j)
  <2>1. deliveries'[j] = deliveries[j] + 1
    BY <1>3 DEF CountDelivery, BrokerTypeOK
  <2>. QED
    BY <1>1, <2>1 DEF CountDelivery, BrokerTypeOK
<1>. QED
  BY <1>2, <1>3

\* A delivery, to a new task or to nobody.
LEMMA OnceDelivered ==
    ASSUME IInv, OnceInv, NEW j \in Jobs, ReadNew(j) \/ ReclaimAbandonedJob(j),
           UNCHANGED status,
           \/ task' = task
           \/ \E w \in Workers : Dispatch(w, j)
    PROVE  OnceInv'
<1> USE DEF IInv, TypeOK
<1>1. \A u \in Slots :
         task'[u] = task[u] \/ (task'[u].pc = "inspect" /\ task'[u].job = j)
  BY DEF Dispatch, NewTask
<1>2. \A t, u \in Slots :
         task'[t] # task[t] /\ task'[u] # task[u] => t = u
  BY DEF Dispatch
<1>3. \A u \in Slots : Live(u) => task[u].job \in Delivered
  BY DEF TaskInv, TaskOK
<1>4. CountDelivery(j)
  BY DEF ReadNew, ReclaimAbandonedJob
<1>5. \A u \in Slots : task[u].pc \in Early => Live(u)
  BY DEF Live, Early
<1>6. Delivered \subseteq Jobs
  BY DeliveredAreJobs
<1>7. CASE ReadNew(j)
  <2>1. Delivered' = Delivered \cup {j} /\ j \notin Delivered
    BY <1>7, DeliveredByRead
  <2>2. status[j] \notin Terminal
    BY <2>1 DEF OutcomeInv
  <2>3. \A u \in Slots : Live(u) => task[u].job # j
    BY <1>3, <2>1
  <2>4. \A k \in Delivered : deliveries'[k] = deliveries[k]
    BY <1>4, <1>6, <2>1, DeliveryCounted
  <2>5. \A k \in Delivered' : deliveries'[k] > 0
    BY <1>4, <2>1, <2>4, DeliveryCounted DEF OnceInv
  <2>6. ASSUME NEW t \in Slots, NEW u \in Slots, Live(t)', Live(u)', t # u,
               task'[t].job = task'[u].job
        PROVE  deliveries'[task'[t].job] > 1
    <3>1. task'[t] = task[t] /\ task'[u] = task[u]
      BY <1>1, <1>2, <2>3, <2>6 DEF Live
    <3>. QED
      BY <1>3, <2>4, <2>6, <3>1 DEF OnceInv, Live
  <2>7. ASSUME NEW t \in Slots, task'[t].pc \in Early,
               status'[task'[t].job] \in Terminal
        PROVE  deliveries'[task'[t].job] > 1
    <3>1. task'[t] = task[t]
      BY <1>1, <2>2, <2>7
    <3>. QED
      BY <1>3, <1>5, <2>4, <2>7, <3>1 DEF OnceInv, Early
  <2>. QED
    BY <2>5, <2>6, <2>7 DEF OnceInv, Early
<1>8. CASE ReclaimAbandonedJob(j)
  <2>1. Delivered' = Delivered
    BY <1>8, DeliveredFixed DEF ReclaimAbandonedJob
  <2>2. j \in Delivered
    BY <1>8 DEF ReclaimAbandonedJob, StreamInv
  <2>3. deliveries'[j] > 1
    BY <1>4, <2>2, DeliveryCounted DEF OnceInv
  <2>4. \A k \in Jobs : deliveries[k] > 1 => deliveries'[k] > 1
    BY <1>4, DeliveryCounted
  <2>5. \A k \in Jobs : k # j => deliveries'[k] = deliveries[k]
    BY <1>4, DeliveryCounted
  <2>6. \A k \in Delivered' : deliveries'[k] > 0
    BY <1>4, <1>6, <2>1, <2>5, DeliveryCounted DEF OnceInv
  <2>7. ASSUME NEW t \in Slots, NEW u \in Slots, Live(t)', Live(u)', t # u,
               task'[t].job = task'[u].job
        PROVE  deliveries'[task'[t].job] > 1
    <3>1. CASE task'[t].job = j
      BY <2>3, <3>1
    <3>2. CASE task'[t].job # j
      <4>1. task'[t] = task[t] /\ task'[u] = task[u]
        BY <1>1, <2>7, <3>2
      <4>. QED
        BY <1>3, <1>6, <2>4, <2>7, <4>1 DEF OnceInv, Live
    <3>. QED
      BY <3>1, <3>2
  <2>8. ASSUME NEW t \in Slots, task'[t].pc \in Early,
               status'[task'[t].job] \in Terminal
        PROVE  deliveries'[task'[t].job] > 1
    <3>1. CASE task'[t].job = j
      BY <2>3, <3>1
    <3>2. CASE task'[t].job # j
      <4>1. task'[t] = task[t]
        BY <1>1, <3>2
      <4>. QED
        BY <1>3, <1>5, <1>6, <2>4, <2>8, <4>1 DEF OnceInv, Early
    <3>. QED
      BY <3>1, <3>2
  <2>. QED
    BY <2>6, <2>7, <2>8 DEF OnceInv, Early
<1>. QED
  BY <1>7, <1>8

\* A task that writes its job key has left, or leaves, the early steps.
LEMMA OnceWritten ==
    ASSUME IInv, OnceInv, NEW t \in Slots, Live(t), NEW s \in Status,
           SetStatus(task[t].job, s), UNCHANGED brokerVars,
           NEW pc \in PC \ Early,
           \/ task' = task /\ task[t].pc = pc
           \/ Goto(t, pc)
    PROVE  OnceInv'
<1> USE DEF IInv, TypeOK
<1>1. Delivered' = Delivered
  BY DeliveredFixed DEF brokerVars
<1>2. task'[t].pc = pc /\ task'[t].job = task[t].job
  BY DEF Goto, Task
<1>3. \A u \in Slots : u # t => task'[u] = task[u]
  BY DEF Goto
<1>4. ASSUME NEW u \in Slots, task'[u].pc \in Early,
             status'[task[u].job] \in Terminal
      PROVE  \/ status[task[u].job] \in Terminal
             \/ deliveries[task[u].job] > 1
  <2>1. u # t /\ Live(u)
    BY <1>2, <1>3, <1>4 DEF Live, Early
  <2>2. CASE task[u].job = task[t].job
    BY <2>1, <2>2 DEF OnceInv
  <2>3. CASE task[u].job # task[t].job
    <3>1. task[u].job \in Jobs
      BY <2>1, LiveTaskHasJob
    <3>. QED
      BY <1>4, <2>3, <3>1 DEF SetStatus, SubmissionTypeOK
  <2>. QED
    BY <2>2, <2>3
<1>5. \A u \in Slots : Live(u)' =>
         /\ Live(u) /\ task'[u].job = task[u].job
         /\ task'[u].pc \in Early => task[u].pc \in Early
  BY <1>2, <1>3 DEF Live
<1>. QED
  BY <1>1, <1>4, <1>5, OnceKept DEF brokerVars

\* A task that moves on without counting a delivery or writing a job key.
LEMMA OnceMoved ==
    ASSUME OnceInv, TypeOK, UNCHANGED <<stream, groupStart, cursor, deliveries, status>>,
           NEW t \in Slots, Live(t), NEW r, task' = [task EXCEPT ![t] = r],
           r.job = task[t].job, r.pc \in Early => task[t].pc \in Early
    PROVE  OnceInv'
<1>1. Delivered' = Delivered
  BY DeliveredFixed
<1>2. \A u \in Slots : IF u = t THEN task'[u] = r ELSE task'[u] = task[u]
  BY DEF TypeOK
<1>3. \A u \in Slots : Live(u)' =>
         /\ Live(u) /\ task'[u].job = task[u].job
         /\ task'[u].pc \in Early => task[u].pc \in Early
  BY <1>2 DEF Live
<1>. QED
  BY <1>1, <1>3, OnceKept

\* The steps of a task keep OnceInv.
LEMMA OnceTask ==
    ASSUME IInv, OnceInv, NEW t \in Slots, TaskStep(t) \/ TaskFault(t)
    PROVE  OnceInv'
<1>1. Live(t)
  BY DEF At, TaskStep, TaskFault, Live, Inspect, Quarantine, RouteToDlq,
     AckQuarantined, MarkProcessing, Analyse, Publish, RunRaises,
     RecordFailure, RecordFailureRaises, RateLimited, GiveUp, Ack,
     CheckBatchJob, CompleteBatch, InspectFails, MarkSwallowed, TaskDies
<1>2. TypeOK
  BY DEF IInv
<1>3. ASSUME UNCHANGED <<stream, groupStart, cursor, deliveries, status>>, Finish(t)
      PROVE  OnceInv'
  <2>1. Delivered' = Delivered
    BY <1>3, DeliveredFixed
  <2>. QED
    BY <1>2, <1>3, <2>1, OnceQuiet DEF Finish, TypeOK
<1>4. ASSUME UNCHANGED <<stream, groupStart, cursor, deliveries, status>>,
             NEW pc, Goto(t, pc), pc \in Early => task[t].pc \in Early
      PROVE  OnceInv'
  <2> DEFINE r == [task[t] EXCEPT !.pc = pc]
  <2>1. task' = [task EXCEPT ![t] = r] /\ r.pc = pc /\ r.job = task[t].job
    BY <1>2, <1>4 DEF Goto, TypeOK, Task
  <2>. QED
    BY <1>1, <1>2, <1>4, <2>1, OnceMoved
<1>5. CASE Inspect(t) \/ InspectFails(t)
  BY <1>4, <1>5 DEF Inspect, InspectFails, At, Early, brokerVars, jobVars
<1>6. CASE MarkSwallowed(t) \/ Publish(t) \/ RunRaises(t) \/ RouteToDlq(t)
  BY <1>4, <1>6
     DEF MarkSwallowed, Publish, RunRaises, RouteToDlq, DlqAppend, Early,
         brokerVars, jobVars
<1>7. CASE GiveUp(t) \/ TaskDies(t) \/ AckQuarantined(t) \/ CompleteBatch(t)
  BY <1>3, <1>7
     DEF GiveUp, TaskDies, AckQuarantined, XAck, CompleteBatch, brokerVars, jobVars
<1>8. CASE Ack(t)
  BY <1>3, <1>4, <1>8 DEF Ack, XAck, Early, jobVars
<1>9. CASE RateLimited(t)
  <2>1. Retried(task[t]).pc = "analyse" /\ Retried(task[t]).job = task[t].job
    BY <1>2, <1>9, RetriedTyped DEF RateLimited, TypeOK
  <2>. QED
    BY <1>1, <1>2, <1>9, <2>1, OnceMoved
       DEF RateLimited, Early, brokerVars, jobVars
<1>10. CASE CheckBatchJob(t)
  <2>1. UNCHANGED <<stream, groupStart, cursor, deliveries, status>>
    BY <1>10 DEF CheckBatchJob, brokerVars, jobVars
  <2>2. ASSUME NEW k \in Batch, task' = [task EXCEPT ![t].checked = @ \cup {k}]
        PROVE  OnceInv'
    <3> DEFINE r == [task[t] EXCEPT !.checked = @ \cup {k}]
    <3>1. /\ task' = [task EXCEPT ![t] = r]
          /\ r.pc = task[t].pc /\ r.job = task[t].job
      BY <1>2, <2>2 DEF TypeOK, Task
    <3>. QED
      BY <1>1, <1>2, <2>1, <3>1, OnceMoved
  <2>. QED
    BY <1>3, <1>10, <2>1, <2>2 DEF CheckBatchJob
<1>11. CASE Quarantine(t) \/ MarkProcessing(t) \/ Analyse(t) \/ RecordFailure(t)
  BY <1>1, <1>11, OnceWritten
     DEF Quarantine, MarkProcessing, Analyse, RecordFailure, Status, Terminal,
         PC, Early
<1>12. CASE RecordFailureRaises(t)
  BY <1>1, <1>12, OnceWritten
     DEF RecordFailureRaises, At, Status, Terminal, PC, Early
<1>. QED
  BY <1>5, <1>6, <1>7, <1>8, <1>9, <1>10, <1>11, <1>12 DEF TaskStep, TaskFault

\* OnceInv is inductive relative to IInv.
LEMMA OnceInductive == IInv /\ OnceInv /\ [Next]_vars => OnceInv'
<1> SUFFICES ASSUME IInv, OnceInv, [Next]_vars
             PROVE  OnceInv'
  OBVIOUS
<1>1. ASSUME NEW j \in Jobs, PrewarmJob(j), UNCHANGED task
      PROVE  OnceInv'
  <2>1. Delivered' = Delivered
    BY <1>1, DeliveredFixed DEF PrewarmJob, brokerVars
  <2>2. \A k \in Jobs : status'[k] \in Terminal => status[k] \in Terminal
    BY <1>1 DEF PrewarmJob, SetStatus, IInv, TypeOK, SubmissionTypeOK, Terminal
  <2>3. \A u \in Slots : task'[u].pc \in Early => task[u].job \in Jobs
    BY <1>1, LiveTaskHasJob DEF Live, Early, IInv
  <2>. QED
    BY <1>1, <2>1, <2>2, <2>3, OnceKept DEF PrewarmJob, brokerVars, Live
<1>2. ASSUME NEW j \in Jobs, PublishJob(j) \/ PublishBatchJob(j), UNCHANGED task
      PROVE  OnceInv'
  <2>1. EnqueueIntelligenceJob(j) /\ UNCHANGED jobVars
    BY <1>2 DEF PublishJob, PublishBatchJob
  <2>2. Delivered' = Delivered
    BY <2>1, DeliveredByEnqueue DEF IInv, TypeOK
  <2>. QED
    BY <1>2, <2>1, <2>2, OnceQuiet DEF EnqueueIntelligenceJob, jobVars
<1>3. CASE PrewarmBatch /\ UNCHANGED task
  BY <1>3, DeliveredFixed, OnceQuiet DEF PrewarmBatch, brokerVars
<1>4. ASSUME EnsureConsumerGroup, UNCHANGED <<jobVars, task>>
      PROVE  OnceInv'
  BY <1>4, DeliveredByEnsure, OnceQuiet
     DEF EnsureConsumerGroup, jobVars, IInv, TypeOK
<1>5. ASSUME NEW w \in Workers, WorkerStep(w)
      PROVE  OnceInv'
  <2>1. CASE Start(w)
    BY <1>4, <2>1 DEF Start
  <2>2. CASE Stop(w) \/ Shutdown(w) \/ Crash(w)
    BY <2>2, DeliveredFixed, OnceQuiet
       DEF Stop, Shutdown, Crash, brokerVars, jobVars
  <2>3. ASSUME NEW j \in Jobs, Poll(w, j) \/ Reclaim(w, j) \/ DeliveryLost(w, j)
        PROVE  OnceInv'
    BY <2>3, OnceDelivered DEF Poll, Reclaim, DeliveryLost, jobVars
  <2>. QED
    BY <1>5, <2>1, <2>2, <2>3 DEF WorkerStep
<1>6. CASE UNCHANGED vars
  BY <1>6, DeliveredFixed, OnceQuiet DEF vars, brokerVars, jobVars
<1>. QED
  BY <1>1, <1>2, <1>3, <1>4, <1>5, <1>6, OnceTask
     DEF Next, ClientStep, Submit, ApiBootstrap

\* Only a task at "mark" writes "processing", and OnceInv says when it may.
LEMMA ReprocessStep ==
    ASSUME IInv, OnceInv, [Next]_vars, NEW j \in Jobs,
           status[j] \in Terminal, status'[j] = "processing"
    PROVE  deliveries[j] > 1
<1>1. status'[j] # status[j]
  BY DEF Terminal
<1>2. \A k \in Jobs, s \in Status \ {"processing"} : ~SetStatus(k, s)
  BY <1>1 DEF SetStatus, IInv, TypeOK, SubmissionTypeOK
<1>3. \A k \in Jobs : ~Submit(k)
  BY <1>1, <1>2
     DEF Submit, PrewarmJob, PublishJob, PublishBatchJob, jobVars, Status, Terminal
<1>4. ~ClientStep /\ ~ApiBootstrap
  BY <1>1, <1>3 DEF ClientStep, PrewarmBatch, ApiBootstrap, jobVars
<1>5. \A w \in Workers : ~WorkerStep(w)
  BY <1>1 DEF WorkerStep, Start, Stop, Shutdown, Crash, Poll, Reclaim,
     DeliveryLost, jobVars
<1>6. ASSUME NEW t \in Slots, TaskStep(t) \/ TaskFault(t)
      PROVE  deliveries[j] > 1
  <2>1. Live(t)
    BY <1>6 DEF At, TaskStep, TaskFault, Live, Inspect, Quarantine, RouteToDlq,
       AckQuarantined, MarkProcessing, Analyse, Publish, RunRaises,
       RecordFailure, RecordFailureRaises, RateLimited, GiveUp, Ack,
       CheckBatchJob, CompleteBatch, InspectFails, MarkSwallowed, TaskDies
  <2>2. task[t].job \in Jobs
    BY <2>1, LiveTaskHasJob DEF IInv
  <2>3. MarkProcessing(t)
    BY <1>1, <1>2, <1>6, <2>2
       DEF TaskStep, TaskFault, Inspect, Quarantine, RouteToDlq,
           AckQuarantined, Analyse, Publish, RunRaises, RecordFailure,
           RecordFailureRaises, RateLimited, GiveUp, Ack, CheckBatchJob,
           CompleteBatch, InspectFails, MarkSwallowed, TaskDies, jobVars,
           Status, Terminal
  <2>4. task[t].job = j /\ task[t].pc = "mark"
    BY <1>1, <2>3 DEF MarkProcessing, SetStatus, At, IInv, TypeOK, SubmissionTypeOK
  <2>. QED
    BY <2>4 DEF OnceInv
<1>7. ~UNCHANGED vars
  BY <1>1 DEF vars, jobVars
<1>. QED
  BY <1>4, <1>5, <1>6, <1>7 DEF Next

\* One delivery alone never takes a concluded job back to "processing".
THEOREM RedeliveryOnly == Spec => ReprocessedOnlyIfRedelivered
<1>1. Init => OnceInv
  BY DEF Init, BrokerInit, Delivered, NoTask, OnceInv, Live
<1>2. IInv /\ OnceInv /\ [Next]_vars
        => [\A j \in Jobs :
               status[j] \in Terminal /\ status'[j] = "processing"
                   => deliveries[j] > 1]_vars
  BY ReprocessStep
<1>. QED
  BY <1>1, <1>2, Invariance, OnceInductive, PTL
     DEF Spec, ReprocessedOnlyIfRedelivered

-----------------------------------------------------------------------------
(* Tasks end.                                                              *)

\* How much of an attempt lies before a task
Place(pc) ==
    CASE pc = "inspect" -> 8
      [] pc \in {"quarantine", "mark"} -> 7
      [] pc \in {"dlq_append", "analyse"} -> 6
      [] pc \in {"dlq_ack", "publish"} -> 5
      [] pc = "record_failure" -> 4
      [] pc = "ack" -> 3
      [] pc = "progress" -> 2
      [] pc = "idle" -> 0

\* The attempts come first, then the place in one, then the batch members
\* read at that place: with TypeOK, of which there are finitely many.
Further(k, l) ==
    \/ k.attempt < l.attempt
    \/ k.attempt = l.attempt /\ Place(l.pc) < Place(k.pc)
    \/ /\ k.attempt = l.attempt
       /\ k.pc = l.pc
       /\ k.checked \subseteq l.checked
       /\ k.checked # l.checked

\* A task stays where it is, ends, or gets further with the same delivery.
Advance(t) ==
    \/ task'[t] = task[t]
    \/ ~Live(t)'
    \/ /\ Further(task[t], task'[t])
       /\ task'[t].job = task[t].job
       /\ task'[t].worker = task[t].worker

\* Whatever fails, and whoever else works on the job, a task never goes back
\* and never changes its delivery: each of its steps ends it or brings it
\* further.  So a reclaimed entry has an end to wait for, which
\* DeliveredIsSettled needs of every delivery it counts.
TasksAdvance == [][\A t \in Slots : Live(t) => Advance(t)]_vars

\* Only a step of a task, or its crash, moves it.
LEMMA TaskAdvances ==
    ASSUME TypeOK, NEW t \in Slots, TaskStep(t) \/ TaskFault(t)
    PROVE  /\ Advance(t)
           /\ \A u \in Slots : u # t => task'[u] = task[u]
<1>1. /\ task \in [Slots -> Task] /\ task[t] \in Task
      /\ task[t].attempt \in Nat
  BY ConsumerAssumption DEF TypeOK, Task
<1>2. ASSUME NEW pc \in PC, Goto(t, pc), Place(pc) < Place(task[t].pc)
      PROVE  /\ Advance(t)
             /\ \A u \in Slots : u # t => task'[u] = task[u]
  <2>1. /\ task'[t].pc = pc /\ task'[t].attempt = task[t].attempt
        /\ task'[t].job = task[t].job /\ task'[t].worker = task[t].worker
        /\ \A u \in Slots : u # t => task'[u] = task[u]
    BY <1>1, <1>2 DEF Goto, Task
  <2>. QED
    BY <1>2, <2>1 DEF Advance, Further
<1>3. ASSUME Finish(t)
      PROVE  /\ Advance(t)
             /\ \A u \in Slots : u # t => task'[u] = task[u]
  BY <1>1, <1>3 DEF Finish, NoTask, Advance, Live
<1>4. CASE \/ Inspect(t) \/ InspectFails(t) \/ Quarantine(t) \/ RouteToDlq(t)
           \/ MarkProcessing(t) \/ MarkSwallowed(t) \/ Analyse(t)
           \/ Publish(t) \/ RunRaises(t) \/ RecordFailure(t)
  BY <1>2, <1>4 DEF Inspect, InspectFails, Quarantine, RouteToDlq,
     MarkProcessing, MarkSwallowed, Analyse, Publish, RunRaises,
     RecordFailure, At, Place, PC
<1>5. CASE AckQuarantined(t) \/ GiveUp(t) \/ CompleteBatch(t) \/ TaskDies(t)
  BY <1>3, <1>5 DEF AckQuarantined, GiveUp, CompleteBatch, TaskDies
<1>6. CASE Ack(t)
  BY <1>2, <1>3, <1>6 DEF Ack, At, Place, PC
<1>7. CASE RecordFailureRaises(t)
  BY <1>7 DEF RecordFailureRaises, Advance
<1>8. CASE RateLimited(t)
  <2>1. /\ task'[t].attempt = task[t].attempt + 1
        /\ task'[t].job = task[t].job /\ task'[t].worker = task[t].worker
        /\ \A u \in Slots : u # t => task'[u] = task[u]
    BY <1>1, <1>8 DEF RateLimited, Retried, Task
  <2>. QED
    BY <1>1, <2>1 DEF Advance, Further
<1>9. CASE CheckBatchJob(t)
  <2>. PICK j \in Batch \ task[t].checked :
            IF status[j] \in Terminal
            THEN task' = [task EXCEPT ![t].checked = @ \cup {j}]
            ELSE Finish(t)
    BY <1>9 DEF CheckBatchJob
  <2>1. CASE status[j] \in Terminal
    <3>1. /\ task'[t].checked = task[t].checked \cup {j}
          /\ task'[t].pc = task[t].pc /\ task'[t].attempt = task[t].attempt
          /\ task'[t].job = task[t].job /\ task'[t].worker = task[t].worker
          /\ \A u \in Slots : u # t => task'[u] = task[u]
      BY <1>1, <2>1 DEF Task
    <3>. QED
      BY <3>1 DEF Advance, Further
  <2>2. CASE status[j] \notin Terminal
    BY <1>3, <2>2
  <2>. QED
    BY <2>1, <2>2
<1>. QED
  BY <1>4, <1>5, <1>6, <1>7, <1>8, <1>9 DEF TaskStep, TaskFault

\* Deliveries start tasks in idle slots only, and crashes end them.
LEMMA WorkerAdvances ==
    ASSUME TypeOK, NEW w \in Workers, WorkerStep(w), NEW t \in Slots, Live(t)
    PROVE  Advance(t)
<1>1. CASE Start(w) \/ Stop(w) \/ Shutdown(w)
  BY <1>1 DEF Start, Stop, Shutdown, Advance
<1>2. CASE Crash(w)
  BY <1>2 DEF Crash, Advance, Live, NoTask
<1>3. ASSUME NEW j \in Jobs, Poll(w, j) \/ Reclaim(w, j)
      PROVE  Advance(t)
  <2>1. PICK u \in Slots : ~Live(u) /\ task' = [task EXCEPT ![u] = NewTask(w, j)]
    BY <1>3 DEF Poll, Reclaim, Dispatch
  <2>. QED
    BY <2>1 DEF Advance, TypeOK
<1>4. ASSUME NEW j \in Jobs, DeliveryLost(w, j)
      PROVE  Advance(t)
  BY <1>4 DEF DeliveryLost, Advance
<1>. QED
  BY <1>1, <1>2, <1>3, <1>4 DEF WorkerStep

\* No live task goes back, and none is given away.
THEOREM TasksGoForward == Spec => TasksAdvance
<1>1. TypeOK /\ [Next]_vars => [\A t \in Slots : Live(t) => Advance(t)]_vars
  <2> SUFFICES ASSUME TypeOK, Next, NEW t \in Slots, Live(t)
               PROVE  Advance(t)
    BY DEF vars
  <2>1. CASE ClientStep \/ ApiBootstrap
    BY <2>1 DEF ClientStep, ApiBootstrap, Advance
  <2>2. ASSUME NEW u \in Slots, TaskStep(u) \/ TaskFault(u)
        PROVE  Advance(t)
    BY <2>2, TaskAdvances DEF Advance
  <2>. QED
    BY <2>1, <2>2, WorkerAdvances DEF Next
<1>. QED
  BY <1>1, TypeCorrect, PTL DEF Spec, TasksAdvance

-----------------------------------------------------------------------------
(* Refinement.  Only four kinds of step show in AtLeastOnce: a first        *)
(* delivery, a first written result or dead-letter entry, and the two       *)
(* acknowledgements; every other step stutters.                             *)

Concluded == {j \in Jobs : Evidence(j)}

\* What the mapping shows is unchanged.
Silent == Delivered' = Delivered /\ Concluded' = Concluded /\ Settled' = Settled

\* A step that moves none of the three sets is a stutter of the queue.
LEMMA SilentStep ==
    ASSUME Silent
    PROVE  [Queue!Next]_(Queue!vars)
BY DEF Silent, Concluded, Queue!vars

\* XREADGROUP is Deliver.
LEMMA DeliverStep ==
    ASSUME IInv, NEW j \in Jobs, ReadNew(j), UNCHANGED jobVars
    PROVE  [Queue!Next]_(Queue!vars)
<1>1. Delivered' = Delivered \cup {j} /\ j \notin Delivered
  BY DeliveredByRead DEF IInv, TypeOK
<1>2. Settled' = Settled
  BY <1>1 DEF Settled, ReadNew
<1>3. Concluded' = Concluded
  BY DEF Concluded, Evidence, Analysed, ReadNew, jobVars
<1>4. Queue!Deliver(j)
  BY <1>1, <1>2, <1>3 DEF Queue!Deliver, Concluded
<1>. QED
  BY <1>4 DEF Queue!Next

\* Writing evidence for j: visible the first time only.
LEMMA RecordStep ==
    ASSUME NEW j \in Jobs, j \in Delivered, Delivered' = Delivered,
           Settled' = Settled, Concluded' = Concluded \cup {j}
    PROVE  [Queue!Next]_(Queue!vars)
<1>1. CASE j \in Concluded
  BY <1>1, SilentStep DEF Silent
<1>2. CASE j \notin Concluded
  <2>1. Queue!Record(j)
    BY <1>2 DEF Queue!Record, Concluded
  <2>. QED
    BY <2>1 DEF Queue!Next
<1>. QED
  BY <1>1, <1>2

\* Acknowledging j: visible the first time only.
LEMMA SettleStep ==
    ASSUME NEW j \in Jobs, j \in Delivered, Evidence(j), XAck(j),
           UNCHANGED jobVars
    PROVE  [Queue!Next]_(Queue!vars)
<1>1. Delivered' = Delivered
  BY DeliveredFixed DEF XAck
<1>2. Concluded' = Concluded
  BY DEF Concluded, Evidence, Analysed, XAck, jobVars
<1>3. Settled' = Settled \cup {j}
  BY <1>1 DEF Settled, XAck
<1>4. CASE j \in Settled
  BY <1>1, <1>2, <1>3, <1>4, SilentStep DEF Silent
<1>5. CASE j \notin Settled
  <2>1. Queue!Settle(j)
    BY <1>1, <1>2, <1>3, <1>5 DEF Queue!Settle, Concluded
  <2>. QED
    BY <2>1 DEF Queue!Next
<1>. QED
  BY <1>4, <1>5

\* A step that leaves the stream, the PEL and the evidence alone.
LEMMA QuietIsSilent ==
    ASSUME UNCHANGED <<stream, groupStart, cursor, pel, dlq, outcome>>
    PROVE  Silent
BY DeliveredFixed DEF Silent, Settled, Concluded, Evidence, Analysed

\* Creating the group is a stutter.
LEMMA EnsureIsSilent ==
    ASSUME IInv, EnsureConsumerGroup, UNCHANGED jobVars
    PROVE  Silent
<1>1. Delivered' = Delivered
  BY DeliveredByEnsure DEF IInv, TypeOK
<1>. QED
  BY <1>1 DEF Silent, Settled, Concluded, Evidence, Analysed,
     EnsureConsumerGroup, jobVars

\* Writing a job key is Record, or a stutter if it shows nothing new.
LEMMA StatusRefines ==
    ASSUME IInv, NEW j \in Jobs, NEW s \in Status, SetStatus(j, s),
           UNCHANGED brokerVars, s \in {"completed", "failed"} => j \in Delivered
    PROVE  [Queue!Next]_(Queue!vars)
<1>1. Delivered' = Delivered /\ Settled' = Settled
  BY DeliveredFixed DEF brokerVars, Settled
<1>2. \A k \in Jobs : k # j => outcome'[k] = outcome[k]
  BY DEF IInv, TypeOK, SubmissionTypeOK, SetStatus
<1>3. outcome'[j] = outcome[j] \cup ({s} \cap Terminal)
  BY DEF IInv, TypeOK, SubmissionTypeOK, SetStatus
<1>4. CASE s \in {"completed", "failed"}
  <2>1. Analysed(j)'
    BY <1>3, <1>4 DEF Analysed, Terminal
  <2>2. Concluded' = Concluded \cup {j}
    BY <1>2, <2>1 DEF Concluded, Evidence, Analysed, brokerVars
  <2>. QED
    BY <1>1, <1>4, <2>2, RecordStep
<1>5. CASE s \notin {"completed", "failed"}
  <2>1. \A k \in Jobs : Analysed(k)' <=> Analysed(k)
    BY <1>2, <1>3, <1>5 DEF Analysed
  <2>2. Concluded' = Concluded
    BY <2>1 DEF Concluded, Evidence, brokerVars
  <2>. QED
    BY <1>1, <2>2, SilentStep DEF Silent
<1>. QED
  BY <1>4, <1>5

\* Every step of a task is a step of the queue.
LEMMA TaskRefines ==
    ASSUME IInv, NEW t \in Slots, TaskStep(t) \/ TaskFault(t)
    PROVE  [Queue!Next]_(Queue!vars)
<1>. PICK j : j = task[t].job
  OBVIOUS
<1>1. Live(t)
  BY DEF At, TaskStep, TaskFault, Live, Inspect, Quarantine, RouteToDlq,
     AckQuarantined, MarkProcessing, Analyse, Publish, RunRaises,
     RecordFailure, RecordFailureRaises, RateLimited, GiveUp, Ack,
     CheckBatchJob, CompleteBatch, InspectFails, MarkSwallowed, TaskDies
<1>2. TaskOK(t)
  BY DEF IInv, TaskInv
<1>3. j \in Delivered /\ j \in Jobs
  BY <1>1, <1>2, DeliveredAreJobs DEF TaskOK, IInv, TypeOK
<1>4. CASE \/ Inspect(t) \/ InspectFails(t) \/ MarkSwallowed(t) \/ Publish(t)
           \/ RunRaises(t) \/ GiveUp(t) \/ TaskDies(t) \/ RateLimited(t)
           \/ CheckBatchJob(t) \/ CompleteBatch(t)
  BY <1>4, QuietIsSilent, SilentStep
     DEF Inspect, InspectFails, MarkSwallowed, Publish, RunRaises, GiveUp,
         TaskDies, RateLimited, CheckBatchJob, CompleteBatch, brokerVars, jobVars
<1>5. CASE \/ Quarantine(t) \/ MarkProcessing(t) \/ Analyse(t)
           \/ RecordFailure(t) \/ RecordFailureRaises(t)
  BY <1>3, <1>5, StatusRefines
     DEF Quarantine, MarkProcessing, Analyse, RecordFailure,
         RecordFailureRaises, Status, Terminal
<1>6. CASE RouteToDlq(t)
  <2>1. Delivered' = Delivered /\ Settled' = Settled
    BY <1>6, DeliveredFixed DEF RouteToDlq, DlqAppend, Settled
  <2>2. \A k \in Jobs : dlq'[k] = IF k = j THEN dlq[k] + 1 ELSE dlq[k]
    BY <1>3, <1>6 DEF RouteToDlq, DlqAppend, IInv, TypeOK, BrokerTypeOK
  <2>3. \A k \in Jobs : dlq'[k] > 0 <=> (dlq[k] > 0 \/ k = j)
    BY <2>2 DEF IInv, TypeOK, BrokerTypeOK
  <2>4. Concluded' = Concluded \cup {j}
    BY <1>3, <1>6, <2>3 DEF Concluded, Evidence, Analysed, RouteToDlq, jobVars
  <2>. QED
    BY <1>3, <2>1, <2>4, RecordStep
<1>7. CASE AckQuarantined(t) \/ Ack(t)
  <2>1. Evidence(j)
    BY <1>2, <1>7 DEF TaskOK, AckQuarantined, Ack, At, Evidence
  <2>. QED
    BY <1>3, <1>7, <2>1, SettleStep DEF AckQuarantined, Ack
<1>. QED
  BY <1>4, <1>5, <1>6, <1>7 DEF TaskStep, TaskFault

\* Every step of a worker is a step of the queue.
LEMMA WorkerRefines ==
    ASSUME IInv, NEW w \in Workers, WorkerStep(w)
    PROVE  [Queue!Next]_(Queue!vars)
<1>1. CASE Start(w)
  <2>1. EnsureConsumerGroup /\ UNCHANGED jobVars
    BY <1>1 DEF Start
  <2>. QED
    BY <2>1, EnsureIsSilent, SilentStep
<1>2. CASE Stop(w) \/ Shutdown(w) \/ Crash(w)
  BY <1>2, QuietIsSilent, SilentStep DEF Stop, Shutdown, Crash, brokerVars, jobVars
<1>3. ASSUME NEW j \in Jobs, Poll(w, j) \/ Reclaim(w, j) \/ DeliveryLost(w, j)
      PROVE  [Queue!Next]_(Queue!vars)
  <2>1. (ReadNew(j) \/ ReclaimAbandonedJob(j)) /\ UNCHANGED jobVars
    BY <1>3 DEF Poll, Reclaim, DeliveryLost
  <2>2. CASE ReclaimAbandonedJob(j)
    BY <2>1, <2>2, QuietIsSilent, SilentStep DEF ReclaimAbandonedJob, jobVars
  <2>. QED
    BY <2>1, <2>2, DeliverStep
<1>. QED
  BY <1>1, <1>2, <1>3 DEF WorkerStep

\* Every step of the pipeline is a step of the queue.
LEMMA NextRefines == IInv /\ [Next]_vars => [Queue!Next]_(Queue!vars)
<1> SUFFICES ASSUME IInv, [Next]_vars
             PROVE  [Queue!Next]_(Queue!vars)
  OBVIOUS
<1>1. ASSUME NEW j \in Jobs, Submit(j)
      PROVE  [Queue!Next]_(Queue!vars)
  <2>1. CASE PrewarmJob(j)
    BY <2>1, StatusRefines DEF PrewarmJob, Status, Terminal
  <2>2. CASE PublishJob(j) \/ PublishBatchJob(j)
    <3>1. EnqueueIntelligenceJob(j) /\ UNCHANGED jobVars
      BY <2>2 DEF PublishJob, PublishBatchJob
    <3>2. Delivered' = Delivered
      BY <3>1, DeliveredByEnqueue DEF IInv, TypeOK
    <3>3. Silent
      BY <3>1, <3>2 DEF Silent, Settled, Concluded, Evidence, Analysed,
         EnqueueIntelligenceJob, jobVars
    <3>. QED
      BY <3>3, SilentStep
  <2>. QED
    BY <1>1, <2>1, <2>2 DEF Submit
<1>2. CASE PrewarmBatch
  BY <1>2, QuietIsSilent, SilentStep DEF PrewarmBatch, brokerVars
<1>3. CASE ApiBootstrap
  <2>1. EnsureConsumerGroup /\ UNCHANGED jobVars
    BY <1>3 DEF ApiBootstrap
  <2>. QED
    BY <2>1, EnsureIsSilent, SilentStep
<1>4. CASE UNCHANGED vars
  BY <1>4, QuietIsSilent, SilentStep DEF vars, brokerVars, jobVars
<1>. QED
  BY <1>1, <1>2, <1>3, <1>4, WorkerRefines, TaskRefines DEF Next, ClientStep

\* The empty pipeline is the empty queue.
LEMMA InitRefines == Init => Queue!Init
<1> SUFFICES ASSUME Init
             PROVE  Queue!Init
  OBVIOUS
<1>1. Delivered = {} /\ Settled = {}
  BY DEF Init, BrokerInit, Delivered, Settled
<1>2. Concluded = {}
  BY DEF Init, BrokerInit, SubmissionInit, Concluded, Evidence, Analysed
<1>. QED
  BY <1>1, <1>2 DEF Queue!Init, Concluded

\* The pipeline of Broker, Submission and Consumer implements AtLeastOnce.
THEOREM Refinement == Spec => ImplementsAtLeastOnce
<1>. QED
  BY InitRefines, NextRefines, Invariance, PTL
     DEF Spec, ImplementsAtLeastOnce, Queue!Spec
=============================================================================
