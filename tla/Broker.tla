------------------------------- MODULE Broker -------------------------------
(***************************************************************************)
(* The Redis stream of intelligence jobs, its consumer group and the       *)
(* dead-letter stream, with the operations of app/core/broker.py.          *)
(*                                                                         *)
(* A job is enqueued by exactly one XADD under a fresh uuid4, so a stream  *)
(* entry is named by its job: the pending-entries list (PEL) is a set of   *)
(* jobs.  The per-entry delivery counter of Redis disappears with the PEL  *)
(* entry; here deliveries[j] outlives it, as history.  The counter is only *)
(* ever compared with MAX_DELIVERY_ATTEMPTS, so it saturates just above.   *)
(* XREADGROUP and XAUTOCLAIM move one entry per step: a COUNT n call is n  *)
(* such steps.  Entry owners decide nothing in the code and are left out,  *)
(* so is the 30 s idle time: any pending entry may be claimed, because a   *)
(* job may wait or run longer than that.                                   *)
(***************************************************************************)
EXTENDS Naturals, Sequences

CONSTANTS
    Jobs,          \* job ids, one stream entry each
    MaxDelivery    \* MAX_DELIVERY_ATTEMPTS

ASSUME BrokerAssumption == MaxDelivery \in Nat \ {0}

VARIABLES
    stream,        \* the entries of stream:intel_jobs, oldest first
    group,         \* does the consumer group exist?
    groupStart,    \* stream length when the group was created (id "$")
    cursor,        \* the group's last-delivered position
    pel,           \* delivered and not yet acknowledged
    deliveries,    \* how often each entry was delivered, saturating
    dlq            \* number of dead-letter entries written for each job

brokerVars == <<stream, group, groupStart, cursor, pel, deliveries, dlq>>

BrokerTypeOK ==
    /\ stream \in Seq(Jobs)
    /\ group \in BOOLEAN
    /\ groupStart \in Nat
    /\ cursor \in Nat
    /\ cursor <= Len(stream)
    /\ pel \in SUBSET Jobs
    /\ deliveries \in [Jobs -> 0..MaxDelivery + 1]
    /\ dlq \in [Jobs -> Nat]

BrokerInit ==
    /\ stream = <<>>
    /\ group = FALSE
    /\ groupStart = 0
    /\ cursor = 0
    /\ pel = {}
    /\ deliveries = [j \in Jobs |-> 0]
    /\ dlq = [j \in Jobs |-> 0]

InStream(j) == \E i \in 1..Len(stream) : stream[i] = j

\* Jobs whose entry the group has handed to some consumer.
Delivered == {stream[i] : i \in groupStart + 1..cursor}

Settled == Delivered \ pel

Exhausted(j) == deliveries[j] > MaxDelivery

(***************************************************************************)
(* ensure_consumer_group: XGROUP CREATE at "$"; BUSYGROUP is success.      *)
(***************************************************************************)
EnsureConsumerGroup ==
    /\ group' = TRUE
    /\ \/ /\ ~group
          /\ groupStart' = Len(stream)
          /\ cursor' = Len(stream)
       \/ /\ group
          /\ UNCHANGED <<groupStart, cursor>>
    /\ UNCHANGED <<stream, pel, deliveries, dlq>>

\* enqueue_intelligence_job, and one command of the batch pipeline
EnqueueIntelligenceJob(j) ==
    /\ stream' = Append(stream, j)
    /\ UNCHANGED <<group, groupStart, cursor, pel, deliveries, dlq>>

CountDelivery(j) ==
    deliveries' = [deliveries EXCEPT ![j] = IF Exhausted(j) THEN @ ELSE @ + 1]

\* XREADGROUP ">": the next entry never handed to the group
ReadNew(j) ==
    /\ group
    /\ cursor < Len(stream)
    /\ j = stream[cursor + 1]
    /\ cursor' = cursor + 1
    /\ pel' = pel \cup {j}
    /\ CountDelivery(j)
    /\ UNCHANGED <<stream, group, groupStart, dlq>>

\* Mutant: XAUTOCLAIM ... JUSTID, which does not count the delivery
ReclaimJustId(j) ==
    /\ j \in pel
    /\ UNCHANGED brokerVars

\* Mutant: a claim that does not look whether the entry is still pending
ReclaimForced(j) ==
    /\ j \in Delivered
    /\ pel' = pel \cup {j}
    /\ CountDelivery(j)
    /\ UNCHANGED <<stream, group, groupStart, cursor, dlq>>

\* XAUTOCLAIM moves a pending entry to the caller and counts a delivery
ReclaimAbandonedJob(j) ==
    /\ j \in pel
    /\ CountDelivery(j)
    /\ UNCHANGED <<stream, group, groupStart, cursor, pel, dlq>>

XAck(j) ==
    /\ pel' = pel \ {j}
    /\ UNCHANGED <<stream, group, groupStart, cursor, deliveries, dlq>>

\* The first half of route_to_dlq; XAck is the second.
DlqAppend(j) ==
    /\ dlq' = [dlq EXCEPT ![j] = @ + 1]
    /\ UNCHANGED <<stream, group, groupStart, cursor, pel, deliveries>>

\* get_message_delivery_count: 1 for an entry no longer in the PEL
MessageDeliveryCount(j) == IF j \in pel THEN deliveries[j] ELSE 1
=============================================================================
