------------------------- MODULE ConsumerProperties -------------------------
(***************************************************************************)
(* What the job pipeline of Consumer guarantees, and statements of the     *)
(* repository about it that do not hold.                                   *)
(***************************************************************************)
EXTENDS Consumer

Analysed(j) == outcome[j] \cap {"completed", "failed"} # {}

Evidence(j) == Analysed(j) \/ dlq[j] > 0

\* An entry the group has delivered is still pending, or its analysis ended
\* with a written result, or it is in the dead-letter stream: no order of
\* acknowledgements, reclaims and crashes lets a job vanish unprocessed.
NoEntryLost == \A j \in Settled : Evidence(j)

\* A job reaches the dead-letter stream only after more than
\* MAX_DELIVERY_ATTEMPTS deliveries, however stale the count its task read.
QuarantineOnlyExhausted == \A j \in Jobs : dlq[j] > 0 => Exhausted(j)

\* A task never works on a job whose key, or whose batch key, the command
\* edge has not written yet (the pre-warming of submit_analysis_job).
PrewarmedBeforePickup ==
    \A t \in Slots : Live(t) =>
        /\ status[task[t].job] # "none"
        /\ task[t].job \in Batch => batchStatus # "none"

\* A batch is reported completed only if every one of its jobs had been
\* concluded, although its keys are read one by one while tasks write them.
BatchCompletedSound ==
    batchStatus = "completed" => \A j \in Batch : outcome[j] # {}

\* A concluded job goes back to "processing" only through a redelivery of its
\* entry, whichever of the tasks that work on it wrote the result.
ReprocessedOnlyIfRedelivered ==
    [][\A j \in Jobs :
          status[j] \in Terminal /\ status'[j] = "processing"
              => deliveries[j] > 1]_vars

\* With finitely many faults every delivered entry is settled in the end:
\* retries, reclaims and the quarantine leave no job pending for ever.
DeliveredIsSettled ==
    \A j \in Jobs : (j \in Delivered) ~> (j \in Settled)

-----------------------------------------------------------------------------
\* The group as AtLeastOnce sees it.
Queue == INSTANCE AtLeastOnce WITH
    delivered <- Delivered,
    evidence  <- {j \in Jobs : Evidence(j)},
    settled   <- Settled

\* The pipeline implements the at-least-once queue: deliver, record how the
\* job ended, settle, in this order and never back, whatever is reclaimed,
\* repeated or lost on the way.
ImplementsAtLeastOnce == Queue!Spec

-----------------------------------------------------------------------------
(* The inductive invariant behind the safety properties.                   *)

\* Positions are in order, entries are unique, only delivered ones pend.
StreamInv ==
    /\ groupStart <= cursor
    /\ ~group => cursor = 0
    /\ \A i, k \in 1..Len(stream) : stream[i] = stream[k] => i = k
    /\ pel \subseteq Delivered

\* A published job has its keys, so has every job a task can work on.
KeysInv ==
    /\ \A i \in 1..Len(stream) :
           /\ status[stream[i]] # "none"
           /\ stream[i] \in Batch => batchStatus # "none"
    /\ batchStatus # "none" => \A j \in Batch : status[j] # "none"

OutcomeInv ==
    /\ \A j \in Jobs : status[j] \in Terminal => outcome[j] # {}
    /\ \A j \in Jobs : outcome[j] # {} => j \in Delivered
    /\ \A j \in Jobs : dlq[j] > 0 => j \in Delivered

\* What a task has established by the time it reaches each step.
TaskOK(t) ==
    /\ Live(t) => task[t].worker \in Workers /\ task[t].job \in Delivered
    /\ task[t].pc \in {"quarantine", "dlq_append", "dlq_ack"}
           => Exhausted(task[t].job)
    /\ At(t, "dlq_ack") => dlq[task[t].job] > 0
    /\ task[t].pc \in {"publish", "ack"} => Analysed(task[t].job)
    /\ \A j \in task[t].checked : outcome[j] # {}

TaskInv == \A t \in Slots : TaskOK(t)

IInv ==
    /\ TypeOK
    /\ StreamInv
    /\ KeysInv
    /\ OutcomeInv
    /\ TaskInv
    /\ NoEntryLost
    /\ QuarantineOnlyExhausted
    /\ BatchCompletedSound

\* A job delivered once has one task at most, and before that task marks the
\* job nobody has concluded it: what ReprocessedOnlyIfRedelivered rests on.
OnceInv ==
    /\ \A j \in Delivered : deliveries[j] > 0
    /\ \A t, u \in Slots :
           Live(t) /\ Live(u) /\ t # u /\ task[t].job = task[u].job
               => deliveries[task[t].job] > 1
    /\ \A t \in Slots :
           task[t].pc \in {"inspect", "mark"} /\ status[task[t].job] \in Terminal
               => deliveries[task[t].job] > 1

-----------------------------------------------------------------------------
\* consumer.py:130 "Quarantined to Dead-Letter Queue after {n} failed
\* attempts": a job that is still "queued" has not been attempted.
QuarantinedWasAttempted ==
    [][\A j \in Jobs : status[j] = "queued" => status'[j] # "dead_lettered"]_vars

\* consumer.py:367 "Updates batch parent status when individual jobs
\* conclude": once all jobs of a batch are settled, so is the batch.
BatchConcludes == (Batch \subseteq Settled) ~> (batchStatus = "completed")
=============================================================================
