----------------------------- MODULE Submission -----------------------------
(***************************************************************************)
(* The command edge of app/routers/intelligence.py: submit_analysis_job    *)
(* and submit_batch_analysis_jobs write the job (and batch) keys that      *)
(* clients poll and then publish to the stream.  Each write is an await,   *)
(* so it is a step of its own; an API process that dies or loses Redis     *)
(* between two of them simply never takes the next one.                    *)
(*                                                                         *)
(* One batch is modelled, every other job is a single submission.  The     *)
(* 3600 s expiry of the keys is not modelled.                              *)
(***************************************************************************)
EXTENDS Broker

CONSTANTS Batch    \* the jobs submitted together by POST /batch

ASSUME SubmissionAssumption == Batch \in SUBSET Jobs

VARIABLES
    status,        \* the "status" field under the key job_id
    batchStatus,   \* the "status" field under the key batch:{id}
    outcome        \* history: terminal statuses ever written to a job key

jobVars == <<status, batchStatus, outcome>>

Terminal == {"completed", "failed", "dead_lettered"}
Status == {"none", "queued", "processing"} \cup Terminal

SubmissionTypeOK ==
    /\ status \in [Jobs -> Status]
    /\ batchStatus \in {"none", "queued", "completed"}
    /\ outcome \in [Jobs -> SUBSET Terminal]

SubmissionInit ==
    /\ status = [j \in Jobs |-> "none"]
    /\ batchStatus = "none"
    /\ outcome = [j \in Jobs |-> {}]

\* SET job_id with another status, remembering terminal ones
SetStatus(j, s) ==
    /\ status' = [status EXCEPT ![j] = s]
    /\ outcome' = [outcome EXCEPT ![j] = @ \cup ({s} \cap Terminal)]
    /\ UNCHANGED batchStatus

PrewarmJob(j) ==
    /\ status[j] = "none"
    /\ SetStatus(j, "queued")
    /\ UNCHANGED brokerVars

PublishJob(j) ==
    /\ j \notin Batch
    /\ status[j] # "none"
    /\ ~InStream(j)
    /\ EnqueueIntelligenceJob(j)
    /\ UNCHANGED jobVars

PrewarmBatch ==
    /\ Batch # {}
    /\ batchStatus = "none"
    /\ \A j \in Batch : status[j] # "none"
    /\ batchStatus' = "queued"
    /\ UNCHANGED <<status, outcome, brokerVars>>

\* Mutant: the pipeline runs before the batch key is written
PublishBatchJobFirst(j) ==
    /\ j \in Batch
    /\ status[j] # "none"
    /\ ~InStream(j)
    /\ EnqueueIntelligenceJob(j)
    /\ UNCHANGED jobVars

PublishBatchJob(j) ==
    /\ j \in Batch
    /\ batchStatus # "none"
    /\ ~InStream(j)
    /\ EnqueueIntelligenceJob(j)
    /\ UNCHANGED jobVars

Submit(j) == PrewarmJob(j) \/ PublishJob(j) \/ PublishBatchJob(j)
=============================================================================
