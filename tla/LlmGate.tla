------------------------------ MODULE LlmGate -------------------------------
(***************************************************************************)
(* Backpressure in one worker process of app/workers/consumer.py: the      *)
(* polling loop and every task consult CircuitBreaker, tasks hold a permit *)
(* of a semaphore, and the concurrency controller and rate-limited tasks   *)
(* replace that semaphore while others hold or await the old one.          *)
(*                                                                         *)
(* The stream is reduced to what the loop sees of it: unread entries and   *)
(* pending ones with their delivery counts.  Entries another task of the   *)
(* process works on are not reclaimed here; Consumer has that and the job  *)
(* states.  One process, no crash.  MaxFaults bounds the calls that raise. *)
(***************************************************************************)
EXTENDS CircuitBreaker, Integers, FiniteSets

CONSTANTS
    Jobs,
    Sems,                  \* names for semaphore objects
    NoSem,
    MinConcurrency, MaxConcurrency, InitialConcurrency,
    ScaleUpThreshold,
    MaxRetries,            \* MAX_RATE_LIMIT_RETRIES
    MaxDelivery,           \* MAX_DELIVERY_ATTEMPTS
    MaxFaults

\* Enough names that a replacement semaphore always has a fresh one
ASSUME GateAssumption ==
    /\ IsFiniteSet(Jobs) /\ IsFiniteSet(Sems)
    /\ Cardinality(Sems) > Cardinality(Jobs) + 1
    /\ NoSem \notin Sems
    /\ MinConcurrency \in Nat \ {0}
    /\ InitialConcurrency \in MinConcurrency..MaxConcurrency
    /\ MaxConcurrency \in Nat
    /\ ScaleUpThreshold \in Nat
    /\ MaxRetries \in Nat \ {0} /\ MaxDelivery \in Nat \ {0}
    /\ MaxFaults \in Nat

VARIABLES
    loop,          \* where run is: "top" (reclaim, then the gate) or "read"
    arrived,       \* entries published so far
    unread,        \* not yet delivered to the group
    pel,           \* delivered and not yet acknowledged
    deliveries,    \* delivery count of each entry, saturating
    sem,           \* self.semaphore
    limit,         \* self.max_concurrency
    permits,       \* free permits of each semaphore object
    totalLag,      \* total_lag the controller was answered, until it resumes
    task,          \* [Jobs -> task of _process_single_message]
    faults

queueVars == <<arrived, unread, pel, deliveries>>
semVars == <<sem, limit, permits>>
vars == <<breakerVars, loop, queueVars, semVars, totalLag, task, faults>>

\* The controller sleeps: it has no answer yet
NoLag == -1

PC == {"none", "new", "wait", "inspect", "check", "hold", "call", "backoff"}

\* A task that holds a permit of task[j].sem
Holding == {"inspect", "check", "hold", "call", "backoff"}

NoTask == [pc |-> "none", sem |-> NoSem, attempt |-> 1]

TypeOK ==
    /\ BreakerTypeOK
    /\ loop \in {"top", "read"}
    /\ arrived \in SUBSET Jobs
    /\ unread \in SUBSET arrived
    /\ pel \in SUBSET arrived
    /\ deliveries \in [Jobs -> 0..MaxDelivery + 1]
    /\ sem \in Sems
    /\ limit \in MinConcurrency..MaxConcurrency
    /\ permits \in [Sems -> 0..MaxConcurrency]
    /\ totalLag \in Nat \cup {NoLag}
    /\ task \in [Jobs -> [pc: PC, sem: Sems \cup {NoSem}, attempt: 1..MaxRetries]]
    /\ faults \in 0..MaxFaults

Init ==
    /\ BreakerInit
    /\ loop = "top"
    /\ arrived = {}
    /\ unread = {}
    /\ pel = {}
    /\ deliveries = [j \in Jobs |-> 0]
    /\ sem = CHOOSE s \in Sems : TRUE
    /\ limit = InitialConcurrency
    /\ permits = [s \in Sems |-> IF s = sem THEN InitialConcurrency ELSE 0]
    /\ totalLag = NoLag
    /\ task = [j \in Jobs |-> NoTask]
    /\ faults = 0

Live(j) == task[j].pc # "none"
Goto(j, pc) == task' = [task EXCEPT ![j].pc = pc]

-----------------------------------------------------------------------------
(* The polling loop.                                                       *)

Arrive(j) ==
    /\ j \notin arrived
    /\ arrived' = arrived \cup {j}
    /\ unread' = unread \cup {j}
    /\ UNCHANGED <<breakerVars, loop, pel, deliveries, semVars, totalLag, task, faults>>

\* Entries handed to this consumer, each with a new task
Dispatch(S) ==
    /\ pel' = pel \cup S
    /\ deliveries' = [j \in Jobs |->
           IF j \in S /\ deliveries[j] <= MaxDelivery
           THEN deliveries[j] + 1 ELSE deliveries[j]]
    /\ task' = [j \in Jobs |->
           IF j \in S THEN [NoTask EXCEPT !.pc = "new"] ELSE task[j]]

\* Before the gate, so even a paused loop reclaims
Reclaim(j) ==
    /\ loop = "top"
    /\ j \in pel
    /\ ~Live(j)
    /\ Dispatch({j})
    /\ UNCHANGED <<breakerVars, loop, arrived, unread, semVars, totalLag, faults>>

\* can_execute in run; answering False it sleeps and tries again
Gate ==
    /\ loop = "top"
    /\ Permit
    /\ loop' = "read"
    /\ UNCHANGED <<queueVars, semVars, totalLag, task, faults>>

\* XREADGROUP with COUNT max_concurrency, or its block timeout
Read ==
    /\ loop = "read"
    /\ \E S \in SUBSET unread :
           /\ Cardinality(S) <= limit
           /\ Cardinality(S) < limit => S = unread
           /\ unread' = unread \ S
           /\ Dispatch(S)
    /\ loop' = "top"
    /\ UNCHANGED <<breakerVars, arrived, semVars, totalLag, faults>>

-----------------------------------------------------------------------------
(* The semaphore and its replacement.                                      *)

Referred(s) == s = sem \/ \E j \in Jobs : task[j].sem = s

FreshSem == CHOOSE s \in Sems : ~Referred(s)

\* An object nothing refers to any more is gone, and its name is free.
PermitsBecome(P) == permits' = [s \in Sems |-> IF Referred(s)' THEN P[s] ELSE 0]

\* Mutant: the semaphore is replaced, max_concurrency is not
InstallOnly(n) ==
    /\ sem' = FreshSem
    /\ PermitsBecome([permits EXCEPT ![FreshSem] = n])
    /\ UNCHANGED limit

\* self.semaphore = asyncio.Semaphore(n); self.max_concurrency = n
Install(n) ==
    /\ sem' = FreshSem
    /\ limit' = n
    /\ PermitsBecome([permits EXCEPT ![FreshSem] = n])

Least(a, b) == IF a < b THEN a ELSE b

\* Mutant: the backlog decides, whatever the breaker says
TargetByLag(lag) ==
    IF lag = 0 THEN MinConcurrency
    ELSE IF lag <= ScaleUpThreshold THEN limit
    ELSE IF lag <= 3 * ScaleUpThreshold THEN Least(limit + 1, MaxConcurrency)
    ELSE MaxConcurrency

Target(lag) ==
    IF circuit = "OPEN" \/ lag = 0 THEN MinConcurrency
    ELSE IF lag <= ScaleUpThreshold THEN limit
    ELSE IF lag <= 3 * ScaleUpThreshold THEN Least(limit + 1, MaxConcurrency)
    ELSE MaxConcurrency

\* _run_concurrency_controller asks for the lag; get_stream_lag reports zero
\* when its query fails.  While the answer is on its way, and until the
\* controller is resumed with it, everybody else goes on.
ReadLag ==
    /\ totalLag = NoLag
    /\ totalLag' \in {0, Cardinality(unread) + Cardinality(pel)}
    /\ UNCHANGED <<breakerVars, loop, queueVars, semVars, task, faults>>

\* Resumed, it decides by that lag and by the circuit and the concurrency of
\* now, and goes back to sleep.
Scale ==
    /\ totalLag # NoLag
    /\ totalLag' = NoLag
    /\ UNCHANGED <<breakerVars, loop, queueVars, task, faults>>
    /\ IF Target(totalLag) # limit
       THEN Install(Target(totalLag)) ELSE UNCHANGED semVars

\* Mutant: the permit goes back to whatever self.semaphore is by now
ReleaseCurrent(j) == PermitsBecome([permits EXCEPT ![sem] = @ + 1])

\* async with: the permit goes back to the object it came from
Release(j) == PermitsBecome([permits EXCEPT ![task[j].sem] = @ + 1])

-----------------------------------------------------------------------------
(* _process_single_message.                                                *)

\* The task starts and evaluates self.semaphore, once
Enter(j) ==
    /\ task[j].pc = "new"
    /\ task' = [task EXCEPT ![j] = [@ EXCEPT !.pc = "wait", !.sem = sem]]
    /\ UNCHANGED <<breakerVars, loop, queueVars, semVars, totalLag, faults>>

Acquire(j) ==
    /\ task[j].pc = "wait"
    /\ permits[task[j].sem] > 0
    /\ permits' = [permits EXCEPT ![task[j].sem] = @ - 1]
    /\ Goto(j, "inspect")
    /\ UNCHANGED <<breakerVars, loop, queueVars, sem, limit, totalLag, faults>>

End(j) ==
    /\ task' = [task EXCEPT ![j] = NoTask]
    /\ UNCHANGED <<sem, limit>>
    /\ Release(j)

\* The poison-pill check; a quarantined entry is acknowledged by route_to_dlq
Inspect(j) ==
    /\ task[j].pc = "inspect"
    /\ IF deliveries[j] > MaxDelivery
       THEN pel' = pel \ {j} /\ End(j)
       ELSE Goto(j, "check") /\ UNCHANGED <<pel, semVars>>
    /\ UNCHANGED <<breakerVars, loop, arrived, unread, deliveries, totalLag, faults>>

CheckAllowed(j) ==
    /\ task[j].pc = "check"
    /\ Permit
    /\ Goto(j, "call")
    /\ UNCHANGED <<loop, queueVars, semVars, totalLag, faults>>

\* Answered False, the task sleeps for at most 5 s ...
CheckDenied(j) ==
    /\ task[j].pc = "check"
    /\ ~Allowed
    /\ Goto(j, "hold")
    /\ UNCHANGED <<breakerVars, loop, queueVars, semVars, totalLag, faults>>

\* Mutant: the task sleeps until the breaker lets it pass
HoldUntilAllowed(j) ==
    /\ task[j].pc = "hold"
    /\ Permit
    /\ Goto(j, "call")
    /\ UNCHANGED <<loop, queueVars, semVars, totalLag, faults>>

\* ... and then makes the call all the same.
HoldEnds(j) ==
    /\ task[j].pc = "hold"
    /\ Goto(j, "call")
    /\ UNCHANGED <<breakerVars, loop, queueVars, semVars, totalLag, faults>>

\* run_intelligence_worker returned, whether the analysis worked or not
CallReturns(j) ==
    /\ task[j].pc = "call"
    /\ RecordSuccess
    /\ pel' = pel \ {j}
    /\ End(j)
    /\ UNCHANGED <<loop, arrived, unread, deliveries, totalLag, faults>>

Fault == faults < MaxFaults /\ faults' = faults + 1

\* Immediate backpressure
Clamp == IF limit > MinConcurrency THEN Install(MinConcurrency) ELSE UNCHANGED semVars

Retried(k) == [k EXCEPT !.pc = "backoff", !.attempt = @ + 1]

\* Mutant: one retry too many
CallRateLimitedOnceMore(j) ==
    /\ task[j].pc = "call"
    /\ Fault
    /\ RecordRateLimit
    /\ task' = [task EXCEPT ![j] = Retried(@)]
    /\ Clamp
    /\ UNCHANGED <<loop, queueVars, totalLag>>

\* It raised a rate limit and a retry is left: clamp, back off, try again
CallRateLimited(j) ==
    /\ task[j].pc = "call"
    /\ task[j].attempt < MaxRetries
    /\ Fault
    /\ RecordRateLimit
    /\ task' = [task EXCEPT ![j] = Retried(@)]
    /\ Clamp
    /\ UNCHANGED <<loop, queueVars, totalLag>>

\* ... and no retry is left: the entry stays pending
CallExhausted(j) ==
    /\ task[j].pc = "call"
    /\ task[j].attempt = MaxRetries
    /\ Fault
    /\ RecordRateLimit
    /\ UNCHANGED <<loop, queueVars, totalLag>>
    /\ IF limit > MinConcurrency
       THEN /\ task' = [task EXCEPT ![j] = NoTask]
            /\ sem' = FreshSem
            /\ limit' = MinConcurrency
            /\ PermitsBecome([permits EXCEPT ![FreshSem] = MinConcurrency,
                                             ![task[j].sem] = @ + 1])
       ELSE End(j)

CallRaises(j) ==
    /\ task[j].pc = "call"
    /\ Fault
    /\ RecordOtherFailure
    /\ End(j)
    /\ UNCHANGED <<loop, queueVars, totalLag>>

BackoffEnds(j) ==
    /\ task[j].pc = "backoff"
    /\ Goto(j, "check")
    /\ UNCHANGED <<breakerVars, loop, queueVars, semVars, totalLag, faults>>

TaskStep(j) ==
    \/ Enter(j) \/ Inspect(j) \/ CheckAllowed(j) \/ CheckDenied(j)
    \/ HoldEnds(j) \/ CallReturns(j) \/ CallRateLimited(j) \/ CallExhausted(j)
    \/ CallRaises(j) \/ BackoffEnds(j)

-----------------------------------------------------------------------------
Tick == Cooldown /\ UNCHANGED <<loop, queueVars, semVars, totalLag, task, faults>>

Next ==
    \/ \E j \in Jobs : Arrive(j) \/ Reclaim(j) \/ TaskStep(j) \/ Acquire(j)
    \/ Gate \/ Read \/ ReadLag \/ Scale \/ Tick

Spec == Init /\ [][Next]_vars

(***************************************************************************)
(* asyncio runs every ready coroutine and time passes.  A semaphore wakes  *)
(* its waiters first come, first served, and every pass of the loop that   *)
(* is due reclaims everything idle: those two are strongly fair.           *)
(***************************************************************************)
Fairness ==
    /\ WF_vars(Gate) /\ WF_vars(Read) /\ WF_vars(Tick)
    /\ \A j \in Jobs :
           WF_vars(TaskStep(j)) /\ SF_vars(Acquire(j)) /\ SF_vars(Reclaim(j))

FairSpec == Spec /\ Fairness

-----------------------------------------------------------------------------
(* Properties.                                                             *)

Holders(s) == {j \in Jobs : task[j].sem = s /\ task[j].pc \in Holding}

\* However rate limits, successes and canaries of concurrent tasks
\* interleave, a closed circuit is below its threshold and only a half-open
\* one has trials out, so no stale count trips it early.
BreakerConsistent ==
    /\ circuit = "CLOSED" => rateLimits < FailureThreshold
    /\ circuit = "HALF_OPEN" <=> trials > 0

\* Swapping semaphores under running tasks neither loses nor invents a
\* permit of the current one, and max_concurrency is what it was made with.
PermitsConserved == permits[sem] + Cardinality(Holders(sem)) = limit

\* An open circuit is clamped: whichever of several overlapping calls trips
\* it, at whatever concurrency the half-open circuit had been scaled up to
\* meanwhile, and although a controller may resume afterwards with a backlog
\* it was answered before the trip.
OpenIsClamped == circuit = "OPEN" => limit = MinConcurrency

\* Every task ends, also one that waits on a semaphore replaced meanwhile.
TasksEnd == \A j \in Jobs : Live(j) ~> ~Live(j)

\* With finitely many failing calls every pending entry is acknowledged,
\* even while the gate keeps the loop from reading.
PendingIsSettled == \A j \in Jobs : (j \in pel) ~> (j \notin pel)

\* An open circuit is left again, with or without work to do.
OpenIsLeft == (circuit = "OPEN") ~> (circuit # "OPEN")

\* consumer.py:55 "Hard cap (Groq free tier safe)"
HardCap == Cardinality({j \in Jobs : task[j].pc = "call"}) <= MaxConcurrency

\* consumer.py:425 "Pause stream ingestion when downstream LLM circuit
\* breaker is tripped": a pause ends, so a published entry gets read.
IngestionResumes == \A j \in Jobs : (j \in unread) ~> (j \notin unread)
=============================================================================
