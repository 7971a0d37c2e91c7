---------------------------- MODULE LlmGateProofs ----------------------------
(***************************************************************************)
(* Proofs about LlmGate and the circuit breaker in it, for every number of *)
(* jobs and every value of the limits.                                     *)
(***************************************************************************)
EXTENDS LlmGate, FiniteSetTheorems, TLAPS

Tasks == [pc: PC, sem: Sems \cup {NoSem}, attempt: 1..MaxRetries]

\* TypeOK, but for the upper bound on permits, which is a matter of their
\* being conserved.
Typed ==
    /\ BreakerTypeOK
    /\ loop \in {"top", "read"}
    /\ arrived \in SUBSET Jobs
    /\ unread \in SUBSET arrived
    /\ pel \in SUBSET arrived
    /\ deliveries \in [Jobs -> 0..MaxDelivery + 1]
    /\ sem \in Sems
    /\ limit \in MinConcurrency..MaxConcurrency
    /\ permits \in [Sems -> Nat]
    /\ totalLag \in Nat \cup {NoLag}
    /\ task \in [Jobs -> Tasks]
    /\ faults \in 0..MaxFaults

\* Free and held permits of a semaphore object
Balance(s) == permits[s] + Cardinality(Holders(s))

\* Of the current semaphore all permits are accounted for; a replaced one
\* has no more of them than the concurrency can ever be, and none that a
\* task knows has lost so many that it is of no use to its waiters.
Conserved ==
    /\ Balance(sem) = limit
    /\ \A s \in Sems : Balance(s) <= MaxConcurrency
    /\ \A j \in Jobs : task[j].sem # NoSem
           => Balance(task[j].sem) >= MinConcurrency

\* A task has an entry that was published, read and so is not unread.
UnreadIdle ==
    /\ \A j \in unread : ~Live(j) /\ j \notin pel
    /\ \A j \in Jobs : Live(j) => j \in arrived

IInv == Typed /\ BreakerConsistent /\ UnreadIdle /\ Conserved

-----------------------------------------------------------------------------
(* The breaker.                                                            *)

\* Its methods keep it typed and consistent.
LEMMA BreakerKeeps ==
    ASSUME BreakerTypeOK, BreakerConsistent,
           \/ Permit \/ Cooldown \/ RecordSuccess \/ RecordRateLimit
           \/ RecordOtherFailure \/ UNCHANGED breakerVars
    PROVE  BreakerTypeOK' /\ BreakerConsistent'
<1> USE BreakerAssumption DEF BreakerTypeOK, BreakerConsistent
<1>1. CASE Permit
  BY <1>1 DEF Permit, Allowed
<1>2. CASE Cooldown
  BY <1>2 DEF Cooldown
<1>3. CASE RecordSuccess
  BY <1>3 DEF RecordSuccess
<1>4. CASE RecordRateLimit
  <2>1. Strikes \in 0..FailureThreshold /\ rateLimits' = Strikes
    BY <1>4 DEF RecordRateLimit, Strikes
  <2>2. CASE Strikes = FailureThreshold \/ circuit = "HALF_OPEN"
    <3>1. circuit' = "OPEN" /\ cooled' = FALSE /\ trials' = 0
      BY <1>4, <2>2 DEF RecordRateLimit
    <3>2. trials' \in 0..HalfOpenMaxTrials /\ ~(trials' > 0)
      BY <3>1
    <3>3. cooled' \in BOOLEAN
      BY <3>1
    <3>. QED
      BY <2>1, <3>1, <3>2, <3>3
  <2>3. CASE ~(Strikes = FailureThreshold \/ circuit = "HALF_OPEN")
    <3>1. UNCHANGED <<circuit, cooled, trials>>
      BY <1>4, <2>3 DEF RecordRateLimit
    <3>2. Strikes < FailureThreshold
      BY <2>1, <2>3
    <3>. QED
      BY <2>1, <3>1, <3>2
  <2>. QED
    BY <2>2, <2>3
<1>5. CASE RecordOtherFailure \/ UNCHANGED breakerVars
  BY <1>5 DEF RecordOtherFailure, breakerVars
<1>. QED
  BY <1>1, <1>2, <1>3, <1>4, <1>5

\* Every step of the worker uses the breaker by its methods.
LEMMA BreakerSteps ==
    ASSUME [Next]_vars
    PROVE  \/ Permit \/ Cooldown \/ RecordSuccess \/ RecordRateLimit
           \/ RecordOtherFailure \/ UNCHANGED breakerVars
BY DEF Next, vars, Arrive, Reclaim, TaskStep, Acquire, Gate, Read, Scale, Tick,
   ReadLag, Enter, Inspect, CheckAllowed, CheckDenied, HoldEnds, CallReturns,
   CallRateLimited, CallExhausted, CallRaises, BackoffEnds

-----------------------------------------------------------------------------
(* Semaphores.                                                             *)

\* There is always a name for a new semaphore object that is neither the
\* current one nor known to a task.
LEMMA FreshExists ==
    ASSUME Typed
    PROVE  FreshSem \in Sems /\ FreshSem # sem /\ \A j \in Jobs : task[j].sem # FreshSem
<1> DEFINE f == [j \in Jobs |-> task[j].sem]
           S == {task[j].sem : j \in Jobs}
<1>1. IsFiniteSet(Jobs) /\ Cardinality(Jobs) \in Nat
  BY GateAssumption, FS_CardinalityType
<1>2. f \in Surjection(Jobs, S)
  BY DEF Surjection
<1>3. IsFiniteSet(S) /\ Cardinality(S) <= Cardinality(Jobs)
  <2> HIDE DEF f, S
  <2>. QED
    BY <1>1, <1>2, FS_Surjection
<1>4. /\ IsFiniteSet(S \cup {sem})
      /\ Cardinality(S \cup {sem}) <= Cardinality(S) + 1
      /\ Cardinality(S) \in Nat /\ Cardinality(S \cup {sem}) \in Nat
  <2> HIDE DEF S
  <2>1. /\ IsFiniteSet(S \cup {sem})
        /\ Cardinality(S \cup {sem}) =
              IF sem \in S THEN Cardinality(S) ELSE Cardinality(S) + 1
    BY <1>3, FS_AddElement
  <2>. QED
    BY <1>3, <2>1, FS_CardinalityType
<1>5. \E s \in Sems : s \notin S \cup {sem}
  <2> SUFFICES ASSUME Sems \subseteq S \cup {sem} PROVE FALSE
    OBVIOUS
  <2>1. Cardinality(Sems) <= Cardinality(S \cup {sem})
    BY <1>4, FS_Subset
  <2>2. Cardinality(Sems) \in Nat /\ Cardinality(Sems) > Cardinality(Jobs) + 1
    BY GateAssumption, FS_CardinalityType
  <2>. QED
    BY <1>1, <1>3, <1>4, <2>1, <2>2
<1>6. \E s \in Sems : s # sem /\ \A j \in Jobs : task[j].sem # s
  BY <1>5
<1>. QED
  BY <1>6 DEF FreshSem, Referred

\* The holders of a semaphore are finitely many.
LEMMA HoldersFinite ==
    ASSUME NEW s
    PROVE  IsFiniteSet(Holders(s)) /\ Cardinality(Holders(s)) \in Nat
BY GateAssumption, FS_Subset, FS_CardinalityType DEF Holders

\* What the change of one task does to the holders.
LEMMA TaskChanges ==
    ASSUME Typed, NEW j \in Jobs, NEW v \in Tasks, NEW s \in Sems,
           task' = [task EXCEPT ![j] = v]
    PROVE  /\ task' \in [Jobs -> Tasks]
           /\ v.sem = s /\ v.pc \in Holding => Holders(s)' = Holders(s) \cup {j}
           /\ ~(v.sem = s /\ v.pc \in Holding) => Holders(s)' = Holders(s) \ {j}
BY DEF Typed, Holders, Holding

\* Nothing changes for a semaphore as long as neither its permits nor its
\* holders do.
LEMMA SameBalance ==
    ASSUME NEW s, permits'[s] = permits[s], Holders(s)' = Holders(s)
    PROVE  Balance(s)' = Balance(s)
BY DEF Balance

\* Without a change of permits, holders, semaphore and limit.
LEMMA StillConserved ==
    ASSUME Typed, Conserved, UNCHANGED semVars,
           \A s \in Sems : Holders(s)' = Holders(s),
           \A j \in Jobs : task'[j].sem \in {task[j].sem, sem, NoSem}
    PROVE  Conserved'
<1>1. \A s \in Sems : Balance(s)' = Balance(s)
  BY DEF Balance, semVars
<1>2. sem' = sem /\ sem \in Sems /\ limit' = limit
  BY DEF Typed, semVars
<1>3. Balance(sem)' = Balance(sem)
  BY <1>1, <1>2 DEF Balance, Holders
<1>4. limit >= MinConcurrency
  BY GateAssumption DEF Typed
<1>5. ASSUME NEW j \in Jobs, task'[j].sem # NoSem
      PROVE  (Balance(task[j].sem) >= MinConcurrency)'
  <2>1. PICK s \in Sems : s = task'[j].sem /\ s \in {task[j].sem, sem}
    BY <1>2, <1>5 DEF Typed, Tasks
  <2>2. Balance(s) >= MinConcurrency
    BY <1>4, <1>5, <2>1 DEF Conserved
  <2>3. Balance(s)' >= MinConcurrency
    BY <1>1, <2>2
  <2>. QED
    BY <2>1, <2>3 DEF Balance, Holders
<1>. QED
  BY <1>1, <1>2, <1>3, <1>5 DEF Conserved

\* The balances that the tasks rely on are kept where all balances are.
LEMMA KnownKept ==
    ASSUME Typed, Conserved,
           NEW R \in SUBSET Sems, \A s \in R : Balance(s)' = Balance(s),
           \A j \in Jobs : task[j].sem \in Sems => task[j].sem \in R,
           \A j \in Jobs : task'[j].sem \in {task[j].sem, NoSem},
           NEW j \in Jobs, task'[j].sem # NoSem
    PROVE  (Balance(task[j].sem) >= MinConcurrency)'
<1>1. PICK s \in R : s = task'[j].sem /\ s = task[j].sem
  BY DEF Typed, Tasks
<1>2. Balance(s)' >= MinConcurrency
  BY <1>1 DEF Conserved
<1>. QED
  BY <1>1, <1>2 DEF Balance, Holders

\* Permits change and objects nothing refers to are gone: what is left is
\* conserved if each object keeps its balance and the current one has as
\* many permits as the concurrency allows.
LEMMA BecomeConserved ==
    ASSUME Typed, Conserved, NEW P \in [Sems -> Nat], PermitsBecome(P),
           sem' \in Sems, limit' \in MinConcurrency..MaxConcurrency,
           \A j \in Jobs : task'[j].sem \in {task[j].sem, NoSem},
           \A s \in Sems :
               P[s] + Cardinality(Holders(s)') = IF s = sem' THEN limit' ELSE Balance(s)
    PROVE  Conserved' /\ permits' \in [Sems -> Nat]
<1>1. \A s \in Sems : permits'[s] = IF Referred(s)' THEN P[s] ELSE 0
  BY DEF PermitsBecome
<1>2. permits' \in [Sems -> Nat]
  BY <1>1 DEF PermitsBecome
<1>3. ASSUME NEW s \in Sems, Referred(s)'
      PROVE  Balance(s)' = IF s = sem' THEN limit' ELSE Balance(s)
  BY <1>1, <1>3 DEF Balance
<1>4. ASSUME NEW s \in Sems, ~Referred(s)' PROVE Balance(s)' = 0
  <2>1. Holders(s)' = {}
    BY <1>4 DEF Holders, Referred
  <2>. QED
    BY <1>1, <1>4, <2>1, FS_EmptySet DEF Balance
<1>5. MinConcurrency \in Nat /\ MaxConcurrency \in Nat /\ limit' \in Nat
  BY GateAssumption
<1>6. PICK c \in Sems : c = sem'
  OBVIOUS
<1>7. Referred(c)' /\ Balance(c)' = limit'
  BY <1>3, <1>6 DEF Referred
<1>8. Balance(sem)' = limit'
  BY <1>6, <1>7 DEF Balance, Holders
<1>9. \A s \in Sems : Balance(s)' <= MaxConcurrency
  BY <1>3, <1>4, <1>5 DEF Conserved
<1>10. ASSUME NEW j \in Jobs, task'[j].sem # NoSem
       PROVE  (Balance(task[j].sem) >= MinConcurrency)'
  <2>1. PICK s \in Sems : s = task'[j].sem /\ s = task[j].sem
    BY <1>10 DEF Typed, Tasks
  <2>2. Referred(s)'
    BY <2>1 DEF Referred
  <2>3. Balance(s)' >= MinConcurrency
    BY <1>3, <1>5, <1>10, <2>1, <2>2 DEF Conserved
  <2>. QED
    BY <2>1, <2>3 DEF Balance, Holders
<1>. QED
  BY <1>2, <1>8, <1>9, <1>10 DEF Conserved

\* Acquiring a permit makes the task a holder of its semaphore.
LEMMA AcquireConserved ==
    ASSUME IInv, NEW j \in Jobs, Acquire(j)
    PROVE  Conserved' /\ permits' \in [Sems -> Nat] /\ task' \in [Jobs -> Tasks]
<1> USE DEF IInv
<1>1. PICK t : t = task[j].sem
  OBVIOUS
<1>2. PICK v : v = [task[j] EXCEPT !.pc = "inspect"]
  OBVIOUS
<1>3. /\ v \in Tasks /\ v.sem = t /\ v.pc \in Holding
      /\ task' = [task EXCEPT ![j] = v]
  BY <1>1, <1>2 DEF Acquire, Goto, Typed, Tasks, PC, Holding
<1>4. task[j].pc = "wait" /\ permits[t] > 0 /\ UNCHANGED <<sem, limit>>
      /\ permits' = [permits EXCEPT ![t] = @ - 1]
  BY <1>1 DEF Acquire
<1>5. permits' \in [Sems -> Nat] /\ task' \in [Jobs -> Tasks]
  <2>1. permits \in [Sems -> Nat]
    BY DEF Typed
  <2>2. \A s \in Sems : permits'[s] \in Nat
    BY <1>4, <2>1
  <2>3. permits' \in [Sems -> Nat]
    BY <1>4, <2>1, <2>2
  <2>. QED
    BY <1>3, <2>3, TaskChanges DEF Typed
<1>6. ASSUME NEW s \in Sems PROVE Balance(s)' = Balance(s)
  <2>1. CASE s = t
    <3>1. Holders(s)' = Holders(s) \cup {j}
      BY <1>3, <2>1, TaskChanges
    <3>2. j \notin Holders(s)
      BY <1>4 DEF Holders, Holding
    <3>3. Cardinality(Holders(s)') = Cardinality(Holders(s)) + 1
      BY <3>1, <3>2, HoldersFinite, FS_AddElement
    <3>4. permits'[s] = permits[s] - 1 /\ permits[s] \in Nat
      BY <1>4, <2>1 DEF Typed
    <3>. QED
      BY <3>3, <3>4, HoldersFinite DEF Balance
  <2>2. CASE s # t
    <3>1. Holders(s)' = Holders(s) \ {j}
      BY <1>3, <2>2, TaskChanges
    <3>2. j \notin Holders(s)
      BY <1>4 DEF Holders, Holding
    <3>3. permits'[s] = permits[s]
      BY <1>4, <2>2
    <3>. QED
      BY <3>1, <3>2, <3>3 DEF Balance
  <2>. QED
    BY <2>1, <2>2
<1>7. Conserved'
  <2>1. sem \in Sems /\ Balance(sem)' = Balance(sem)
    BY <1>4, <1>6 DEF Typed, Balance, Holders
  <2>2. \A i \in Jobs : task'[i].sem = task[i].sem
    BY <1>1, <1>3 DEF Typed
  <2>3. \A i \in Jobs : task'[i].sem # NoSem =>
           (Balance(task[i].sem) >= MinConcurrency)'
    BY <1>6, <2>2, KnownKept
  <2>. QED
    BY <1>4, <1>6, <2>1, <2>3 DEF Conserved
<1>. QED
  BY <1>5, <1>7

\* A task that ends gives its permit back to the object it came from.
LEMMA ReleaseBalance ==
    ASSUME Typed, NEW j \in Jobs, task[j].pc \in Holding,
           NEW P \in [Sems -> Nat],
           task' = [task EXCEPT ![j] = NoTask],
           NEW s \in Sems,
           P[s] = IF s = task[j].sem THEN permits[s] + 1 ELSE permits[s]
    PROVE  P[s] + Cardinality(Holders(s)') = Balance(s)
<1>1. NoTask \in Tasks /\ NoTask.pc \notin Holding
  BY GateAssumption DEF NoTask, Tasks, PC, Holding
<1>2. Holders(s)' = Holders(s) \ {j}
  BY <1>1, TaskChanges
<1>3. CASE s = task[j].sem
  <2>1. j \in Holders(s)
    BY <1>3 DEF Holders
  <2>2. Cardinality(Holders(s)') = Cardinality(Holders(s)) - 1
    BY <1>2, <2>1, HoldersFinite, FS_RemoveElement
  <2>3. P[s] = permits[s] + 1 /\ permits[s] \in Nat
    BY <1>3 DEF Typed
  <2>. QED
    BY <2>2, <2>3, HoldersFinite DEF Balance
<1>4. CASE s # task[j].sem
  <2>1. j \notin Holders(s)
    BY <1>4 DEF Holders
  <2>2. P[s] = permits[s]
    BY <1>4
  <2>. QED
    BY <1>2, <2>1, <2>2 DEF Balance
<1>. QED
  BY <1>3, <1>4

\* So the balance is even when a task ends.
LEMMA EndConserved ==
    ASSUME IInv, NEW j \in Jobs, task[j].pc \in Holding, End(j)
    PROVE  Conserved' /\ permits' \in [Sems -> Nat] /\ task' \in [Jobs -> Tasks]
<1> USE DEF IInv
<1>1. PICK t : t = task[j].sem
  OBVIOUS
<1>2. PICK P : P = [permits EXCEPT ![t] = @ + 1]
  OBVIOUS
<1>3. /\ PermitsBecome(P) /\ UNCHANGED <<sem, limit>>
      /\ task' = [task EXCEPT ![j] = NoTask]
  BY <1>1, <1>2 DEF End, Release
<1>4. P \in [Sems -> Nat]
  <2>1. permits \in [Sems -> Nat]
    BY DEF Typed
  <2>2. \A s \in Sems : P[s] \in Nat
    BY <1>2, <2>1
  <2>. QED
    BY <1>2, <2>1, <2>2
<1>5. \A s \in Sems : P[s] = IF s = task[j].sem THEN permits[s] + 1 ELSE permits[s]
  BY <1>1, <1>2 DEF Typed
<1>6. \A s \in Sems : P[s] + Cardinality(Holders(s)') = Balance(s)
  BY <1>3, <1>4, <1>5, ReleaseBalance
<1>7. NoTask \in Tasks /\ NoTask.sem = NoSem
  BY GateAssumption DEF NoTask, Tasks, PC
<1>8. task' \in [Jobs -> Tasks]
      /\ \A i \in Jobs : task'[i].sem \in {task[i].sem, NoSem}
  BY <1>3, <1>7 DEF Typed
<1>9. /\ sem' \in Sems /\ limit' \in MinConcurrency..MaxConcurrency
      /\ \A s \in Sems : P[s] + Cardinality(Holders(s)')
                             = IF s = sem' THEN limit' ELSE Balance(s)
  BY <1>3, <1>6 DEF Typed, Conserved
<1>. QED
  BY <1>3, <1>4, <1>8, <1>9, BecomeConserved

\* A new semaphore alone: as many permits as it was made with, and no
\* holders; the other objects keep theirs.
LEMMA InstallConserved ==
    ASSUME IInv, NEW n \in MinConcurrency..MaxConcurrency, Install(n),
           \A j \in Jobs : task'[j].sem = task[j].sem,
           \A s \in Sems : Holders(s)' = Holders(s)
    PROVE  Conserved' /\ permits' \in [Sems -> Nat] /\ sem' \in Sems
           /\ limit' \in MinConcurrency..MaxConcurrency
<1> USE DEF IInv
<1>1. FreshSem \in Sems /\ \A j \in Jobs : task[j].sem # FreshSem
  BY FreshExists
<1>2. PICK P : P = [permits EXCEPT ![FreshSem] = n]
  OBVIOUS
<1>3. sem' = FreshSem /\ limit' = n /\ PermitsBecome(P)
  BY <1>2 DEF Install
<1>4. P \in [Sems -> Nat] /\ P[FreshSem] = n
      /\ \A s \in Sems : s # FreshSem => P[s] = permits[s]
  BY <1>1, <1>2, GateAssumption DEF Typed
<1>5. P[FreshSem] + Cardinality(Holders(FreshSem)) = n
  <2>1. Holders(FreshSem) = {}
    BY <1>1 DEF Holders
  <2>. QED
    BY <1>4, <2>1, FS_EmptySet, GateAssumption
<1>6. ASSUME NEW s \in Sems
      PROVE  P[s] + Cardinality(Holders(s)')
                 = IF s = sem' THEN limit' ELSE Balance(s)
  <2>1. Cardinality(Holders(s)') = Cardinality(Holders(s))
    OBVIOUS
  <2>2. CASE s = FreshSem
    BY <1>3, <1>5, <2>1, <2>2
  <2>3. CASE s # FreshSem
    BY <1>3, <1>4, <2>1, <2>3 DEF Balance
  <2>. QED
    BY <2>2, <2>3
<1>7. \A j \in Jobs : task'[j].sem \in {task[j].sem, NoSem}
  OBVIOUS
<1>. QED
  BY <1>1, <1>3, <1>4, <1>6, <1>7, BecomeConserved

-----------------------------------------------------------------------------
(* The steps.                                                              *)

\* What a step may make of the semaphores and tasks
SemsKept ==
    /\ sem' \in Sems
    /\ limit' \in MinConcurrency..MaxConcurrency
    /\ permits' \in [Sems -> Nat]
    /\ task' \in [Jobs -> Tasks]
    /\ Conserved'

\* A task that moves on without touching its semaphore.
LEMMA MoveKeeps ==
    ASSUME IInv, NEW j \in Jobs, NEW v \in Tasks, UNCHANGED semVars,
           task' = [task EXCEPT ![j] = v],
           v.sem \in {task[j].sem, sem, NoSem},
           \/ v.sem = task[j].sem /\ {v.pc, task[j].pc} \subseteq Holding
           \/ {v.pc, task[j].pc} \cap Holding = {}
    PROVE  SemsKept
<1> USE DEF IInv
<1>1. ASSUME NEW s \in Sems PROVE Holders(s)' = Holders(s)
  BY <1>1, TaskChanges DEF Holders
<1>2. task' \in [Jobs -> Tasks]
  BY DEF Typed
<1>3. \A i \in Jobs : task'[i].sem \in {task[i].sem, sem, NoSem}
  BY DEF Typed
<1>4. Conserved'
  BY <1>1, <1>3, StillConserved
<1>. QED
  BY <1>2, <1>4 DEF Typed, semVars, SemsKept

\* Sleeping and checking.
LEMMA CheckKeeps ==
    ASSUME IInv, NEW j \in Jobs,
           \/ Enter(j) \/ CheckAllowed(j) \/ CheckDenied(j) \/ HoldEnds(j)
           \/ BackoffEnds(j)
           \/ Inspect(j) /\ deliveries[j] <= MaxDelivery
    PROVE  SemsKept
<1> USE DEF IInv
<1>0. task[j] \in Tasks /\ sem \in Sems /\ deliveries[j] \in Nat /\ MaxDelivery \in Nat
  BY GateAssumption DEF Typed
<1>1. CASE Enter(j)
  <2>1. PICK v : v = [task[j] EXCEPT !.pc = "wait", !.sem = sem]
    OBVIOUS
  <2>2. v \in Tasks /\ v.pc = "wait" /\ v.sem = sem
    BY <1>0, <2>1 DEF Tasks, PC
  <2>3. task' = [task EXCEPT ![j] = v] /\ UNCHANGED semVars /\ task[j].pc = "new"
    BY <1>1, <2>1 DEF Enter
  <2>4. {v.pc, task[j].pc} \cap Holding = {}
    BY <2>2, <2>3 DEF Holding
  <2>. QED
    BY <2>2, <2>3, <2>4, MoveKeeps
<1>2. ASSUME NEW pc \in Holding, task[j].pc \in Holding, Goto(j, pc),
             UNCHANGED semVars
      PROVE  SemsKept
  <2>1. PICK v : v = [task[j] EXCEPT !.pc = pc]
    OBVIOUS
  <2>2. v \in Tasks /\ v.pc = pc /\ v.sem = task[j].sem
    BY <1>0, <1>2, <2>1 DEF Tasks, PC, Holding
  <2>3. task' = [task EXCEPT ![j] = v]
    BY <1>2, <2>1 DEF Goto
  <2>. QED
    BY <1>2, <2>2, <2>3, MoveKeeps
<1>3. CASE \/ CheckAllowed(j) \/ CheckDenied(j) \/ HoldEnds(j) \/ BackoffEnds(j)
           \/ Inspect(j) /\ deliveries[j] <= MaxDelivery
  <2>1. \E pc \in {"check", "hold", "call"} : Goto(j, pc)
    BY <1>0, <1>3 DEF CheckAllowed, CheckDenied, HoldEnds, BackoffEnds, Inspect
  <2>2. task[j].pc \in Holding /\ UNCHANGED semVars
    BY <1>0, <1>3 DEF CheckAllowed, CheckDenied, HoldEnds, BackoffEnds, Inspect,
       Holding
  <2>. QED
    BY <1>2, <2>1, <2>2 DEF Holding
<1>. QED
  BY <1>1, <1>3

\* Rate limits install a semaphore under the tasks, and release the old one
\* when no retry is left.
LEMMA RateLimitedKeeps ==
    ASSUME IInv, NEW j \in Jobs, CallRateLimited(j) \/ CallExhausted(j)
    PROVE  SemsKept
<1> USE DEF IInv
<1>0. /\ task[j] \in Tasks /\ task[j].pc = "call" /\ sem \in Sems
      /\ limit \in MinConcurrency..MaxConcurrency /\ permits \in [Sems -> Nat]
      /\ MinConcurrency \in MinConcurrency..MaxConcurrency
  BY GateAssumption DEF Typed, CallRateLimited, CallExhausted
<1>1. CASE CallRateLimited(j)
  <2>1. PICK v : v = Retried(task[j])
    OBVIOUS
  <2>2. v \in Tasks /\ v.pc = "backoff" /\ v.sem = task[j].sem
    <3>1. task[j].attempt + 1 \in 1..MaxRetries
      BY <1>0, <1>1, GateAssumption DEF CallRateLimited, Tasks
    <3>. QED
      BY <1>0, <2>1, <3>1 DEF Retried, Tasks, PC
  <2>3. task' = [task EXCEPT ![j] = v] /\ Clamp
    BY <1>1, <2>1 DEF CallRateLimited
  <2>4. CASE UNCHANGED semVars
    BY <1>0, <2>2, <2>3, <2>4, MoveKeeps DEF Holding
  <2>5. CASE Install(MinConcurrency)
    <3>1. ASSUME NEW s \in Sems PROVE Holders(s)' = Holders(s)
      BY <1>0, <2>2, <2>3, TaskChanges DEF Holders, Holding
    <3>2. task' \in [Jobs -> Tasks] /\ \A i \in Jobs : task'[i].sem = task[i].sem
      BY <2>2, <2>3 DEF Typed
    <3>. QED
      BY <1>0, <2>5, <3>1, <3>2, InstallConserved DEF SemsKept
  <2>. QED
    BY <2>3, <2>4, <2>5 DEF Clamp
<1>2. CASE CallExhausted(j) /\ ~(limit > MinConcurrency)
  <2>1. End(j)
    BY <1>2 DEF CallExhausted, End
  <2>2. Conserved' /\ permits' \in [Sems -> Nat] /\ task' \in [Jobs -> Tasks]
    BY <1>0, <2>1, EndConserved DEF Holding
  <2>. QED
    BY <1>0, <2>1, <2>2 DEF End, SemsKept
<1>3. CASE CallExhausted(j) /\ limit > MinConcurrency
  <2>1. PICK t : t = task[j].sem
    OBVIOUS
  <2>2. PICK P : P = [permits EXCEPT ![FreshSem] = MinConcurrency, ![t] = @ + 1]
    OBVIOUS
  <2>3. /\ sem' = FreshSem /\ limit' = MinConcurrency
        /\ PermitsBecome(P)
        /\ task' = [task EXCEPT ![j] = NoTask]
    BY <1>3, <2>1, <2>2 DEF CallExhausted
  <2>4. FreshSem \in Sems /\ \A i \in Jobs : task[i].sem # FreshSem
    BY FreshExists
  <2>5. /\ P \in [Sems -> Nat] /\ P[FreshSem] = MinConcurrency
        /\ \A s \in Sems : s # FreshSem =>
               P[s] = IF s = t THEN permits[s] + 1 ELSE permits[s]
    <3>1. t # FreshSem
      BY <2>1, <2>4
    <3>2. /\ P[FreshSem] = MinConcurrency
          /\ \A s \in Sems : s # FreshSem =>
                 P[s] = IF s = t THEN permits[s] + 1 ELSE permits[s]
      BY <1>0, <2>2, <2>4, <3>1
    <3>3. \A s \in Sems : P[s] \in Nat
      BY <1>0, <3>2, GateAssumption
    <3>. QED
      BY <1>0, <2>2, <3>2, <3>3
  <2>6. NoTask \in Tasks /\ NoTask.sem = NoSem
    BY GateAssumption DEF NoTask, Tasks, PC
  <2>7. /\ task' \in [Jobs -> Tasks]
        /\ \A i \in Jobs : task'[i].sem \in {task[i].sem, NoSem}
    BY <2>3, <2>6 DEF Typed
  <2>8. ASSUME NEW s \in Sems
        PROVE  P[s] + Cardinality(Holders(s)')
                   = IF s = sem' THEN limit' ELSE Balance(s)
    <3>1. CASE s = FreshSem
      <4>1. PICK f \in Sems : f = FreshSem
        BY <2>4
      <4>2. Holders(f)' = {}
        BY <2>4, <2>7, <4>1, GateAssumption DEF Holders
      <4>. QED
        BY <2>3, <2>5, <3>1, <4>1, <4>2, FS_EmptySet, GateAssumption
    <3>2. CASE s # FreshSem
      <4>1. P[s] = IF s = task[j].sem THEN permits[s] + 1 ELSE permits[s]
        BY <2>1, <2>5, <3>2
      <4>2. P[s] + Cardinality(Holders(s)') = Balance(s)
        BY <1>0, <2>3, <2>5, <4>1, ReleaseBalance DEF Holding
      <4>. QED
        BY <2>3, <3>2, <4>2
    <3>. QED
      BY <3>1, <3>2
  <2>9. Conserved' /\ permits' \in [Sems -> Nat]
    BY <1>0, <2>3, <2>4, <2>5, <2>7, <2>8, BecomeConserved
  <2>. QED
    BY <1>0, <2>3, <2>4, <2>7, <2>9 DEF SemsKept
<1>. QED
  BY <1>1, <1>2, <1>3

\* Every step of a task.
LEMMA TaskKeeps ==
    ASSUME IInv, NEW j \in Jobs, TaskStep(j) \/ Acquire(j)
    PROVE  SemsKept
<1> USE DEF IInv
<1>1. CASE Acquire(j)
  BY <1>1, AcquireConserved DEF Acquire, SemsKept, Typed
<1>2. CASE \/ CallReturns(j) \/ CallRaises(j)
           \/ Inspect(j) /\ deliveries[j] > MaxDelivery
  <2>1. End(j) /\ task[j].pc \in Holding
    BY <1>2 DEF CallReturns, CallRaises, Inspect, Holding
  <2>2. Conserved' /\ permits' \in [Sems -> Nat] /\ task' \in [Jobs -> Tasks]
    BY <2>1, EndConserved
  <2>. QED
    BY <2>1, <2>2 DEF End, SemsKept, Typed
<1>3. deliveries[j] \in Nat /\ MaxDelivery \in Nat
  BY GateAssumption DEF Typed
<1>4. CASE Inspect(j)
  <2>1. deliveries[j] <= MaxDelivery \/ deliveries[j] > MaxDelivery
    BY <1>3
  <2>. QED
    BY <1>2, <1>4, <2>1, CheckKeeps
<1>5. CASE CallRateLimited(j) \/ CallExhausted(j)
  BY <1>5, RateLimitedKeeps
<1>6. CASE Enter(j) \/ CheckAllowed(j) \/ CheckDenied(j) \/ HoldEnds(j) \/ BackoffEnds(j)
  BY <1>6, CheckKeeps
<1>. QED
  BY <1>1, <1>2, <1>4, <1>5, <1>6 DEF TaskStep

\* The loop, the controller and the publishers.
LEMMA LoopKeeps ==
    ASSUME IInv,
           \/ \E j \in Jobs : Arrive(j) \/ Reclaim(j)
           \/ Gate \/ Read \/ ReadLag \/ Scale \/ Tick
    PROVE  SemsKept
<1> USE DEF IInv
<1>1. ASSUME NEW S \in SUBSET Jobs, Dispatch(S), UNCHANGED semVars,
             \A i \in S : ~Live(i)
      PROVE  SemsKept
  <2>1. [NoTask EXCEPT !.pc = "new"] \in Tasks
    BY GateAssumption DEF NoTask, Tasks, PC
  <2>2. task' \in [Jobs -> Tasks]
    BY <1>1, <2>1 DEF Dispatch, Typed
  <2>3. \A i \in Jobs : i \in S => task'[i].pc = "new" /\ task[i].pc = "none"
    BY <1>1 DEF Dispatch, Live, NoTask
  <2>4. \A i \in Jobs : i \notin S => task'[i] = task[i]
    BY <1>1 DEF Dispatch
  <2>5. \A s \in Sems : Holders(s)' = Holders(s)
    BY <2>3, <2>4 DEF Holders, Holding
  <2>6. \A i \in Jobs : task'[i].sem \in {task[i].sem, NoSem}
    BY <1>1 DEF Dispatch, NoTask
  <2>7. Conserved'
    BY <1>1, <2>5, <2>6, StillConserved
  <2>. QED
    BY <1>1, <2>2, <2>7 DEF SemsKept, semVars, Typed
<1>2. ASSUME NEW j \in Jobs, Reclaim(j) PROVE SemsKept
  BY <1>1, <1>2 DEF Reclaim
<1>3. CASE Read
  BY <1>1, <1>3 DEF Read, UnreadIdle, Typed
<1>4. CASE Scale
  <2>1. PICK n : n = Target(totalLag)
    OBVIOUS
  <2>2. n \in MinConcurrency..MaxConcurrency
    BY <2>1, GateAssumption DEF Target, Least, Typed
  <2>3. /\ \A s \in Sems : Holders(s)' = Holders(s)
        /\ task' = task
        /\ Install(n) \/ UNCHANGED semVars
    BY <1>4, <2>1 DEF Scale, Holders
  <2>4. CASE Install(n)
    BY <2>2, <2>3, <2>4, InstallConserved DEF SemsKept, Typed
  <2>5. CASE UNCHANGED semVars
    <3>1. Conserved'
      BY <2>3, <2>5, StillConserved
    <3>. QED
      BY <2>3, <2>5, <3>1 DEF SemsKept, Typed, semVars
  <2>. QED
    BY <2>3, <2>4, <2>5
<1>5. CASE \/ \E j \in Jobs : Arrive(j)
           \/ Gate \/ ReadLag \/ Tick
  <2>1. UNCHANGED <<semVars, task>>
    BY <1>5 DEF Arrive, Gate, ReadLag, Tick
  <2>2. Conserved'
    BY <2>1, StillConserved DEF Holders
  <2>. QED
    BY <2>1, <2>2 DEF SemsKept, Typed, semVars
<1>. QED
  BY <1>2, <1>3, <1>4, <1>5

\* Stream entries, delivery counts, the lag seen and the budget of faults.
QueuesKept ==
    /\ loop' \in {"top", "read"}
    /\ arrived' \in SUBSET Jobs
    /\ unread' \in SUBSET arrived'
    /\ pel' \in SUBSET arrived'
    /\ deliveries' \in [Jobs -> 0..MaxDelivery + 1]
    /\ faults' \in 0..MaxFaults
    /\ totalLag' \in Nat \cup {NoLag}
    /\ UnreadIdle'

\* Delivering entries.
LEMMA DispatchKeeps ==
    ASSUME IInv, NEW S \in SUBSET arrived, Dispatch(S),
           unread' = unread \ S, arrived' = arrived,
           loop' \in {"top", "read"}, faults' = faults, totalLag' = totalLag
    PROVE  QueuesKept
<1> USE DEF IInv, Typed
<1>1. deliveries' \in [Jobs -> 0..MaxDelivery + 1]
  <2>1. \A j \in Jobs : deliveries[j] <= MaxDelivery =>
           deliveries[j] + 1 \in 0..MaxDelivery + 1
    BY GateAssumption
  <2>. QED
    BY <2>1 DEF Dispatch
<1>2. UnreadIdle'
  BY DEF Dispatch, UnreadIdle, Live
<1>. QED
  BY <1>1, <1>2 DEF Dispatch, QueuesKept

\* A task has read its entry, so what it does concerns nothing unread.
LEMMA QueuesKeep ==
    ASSUME IInv, Next
    PROVE  QueuesKept
<1> USE DEF IInv, Typed
<1>1. ASSUME NEW j \in Jobs, Arrive(j) PROVE QueuesKept
  <2>1. UnreadIdle'
    BY <1>1 DEF Arrive, UnreadIdle, Live
  <2>. QED
    BY <1>1, <2>1 DEF Arrive, QueuesKept
<1>2. ASSUME NEW j \in Jobs, Reclaim(j) PROVE QueuesKept
  <2>1. {j} \in SUBSET arrived /\ j \notin unread
    BY <1>2 DEF Reclaim, UnreadIdle
  <2>2. unread' = unread \ {j} /\ arrived' = arrived /\ loop' = loop /\ faults' = faults
      /\ totalLag' = totalLag
    BY <1>2, <2>1 DEF Reclaim
  <2>. QED
    BY <1>2, <2>1, <2>2, DispatchKeeps DEF Reclaim
<1>3. CASE Read
  <2>1. PICK S \in SUBSET unread : unread' = unread \ S /\ Dispatch(S)
    BY <1>3 DEF Read
  <2>. QED
    BY <1>3, <2>1, DispatchKeeps DEF Read
<1>4. ASSUME NEW j \in Jobs, TaskStep(j) \/ Acquire(j) PROVE QueuesKept
  <2>1. /\ Live(j) /\ pel' \in SUBSET pel
        /\ UNCHANGED <<loop, arrived, unread, deliveries, totalLag>>
        /\ faults' = faults \/ Fault
        /\ \A i \in Jobs \ {j} : task'[i] = task[i]
    BY <1>4 DEF TaskStep, Acquire, Enter, Inspect, CheckAllowed, CheckDenied,
       HoldEnds, CallReturns, CallRateLimited, CallExhausted, CallRaises,
       BackoffEnds, Live, Goto, End, queueVars
  <2>2. faults' \in 0..MaxFaults
    BY <2>1, GateAssumption DEF Fault
  <2>3. UnreadIdle'
    BY <2>1 DEF UnreadIdle, Live
  <2>. QED
    BY <2>1, <2>2, <2>3 DEF QueuesKept
<1>5. CASE Gate \/ Scale \/ Tick
  BY <1>5 DEF Gate, Scale, Tick, QueuesKept, UnreadIdle, Live, queueVars
<1>6. CASE ReadLag
  <2>1. IsFiniteSet(unread) /\ IsFiniteSet(pel)
    BY GateAssumption, FS_Subset
  <2>2. totalLag' \in Nat
    BY <1>6, <2>1, FS_CardinalityType DEF ReadLag
  <2>. QED
    BY <1>6, <2>2 DEF ReadLag, QueuesKept, UnreadIdle, Live, queueVars
<1>. QED
  BY <1>1, <1>2, <1>3, <1>4, <1>5, <1>6 DEF Next

-----------------------------------------------------------------------------
(* The theorems.                                                           *)

\* At the start the one semaphore has all its permits.
LEMMA InitIInv == Init => IInv
<1> SUFFICES ASSUME Init PROVE IInv
  OBVIOUS
<1>1. sem \in Sems
  <2>1. Sems # {}
    <3>1. Cardinality(Jobs) \in Nat /\ Cardinality(Sems) \in Nat
      BY GateAssumption, FS_CardinalityType
    <3>. QED
      BY <3>1, GateAssumption, FS_EmptySet
  <2>. QED
    BY <2>1 DEF Init
<1>2. NoTask \in Tasks /\ NoTask.pc = "none" /\ NoTask.sem = NoSem
  BY GateAssumption DEF NoTask, Tasks, PC
<1>3. Typed
  <2>1. BreakerTypeOK
    <3>1. 0 \in 0..FailureThreshold /\ 0 \in 0..HalfOpenMaxTrials
      BY BreakerAssumption
    <3>. QED
      BY <3>1 DEF Init, BreakerInit, BreakerTypeOK
  <2>2. permits \in [Sems -> Nat] /\ limit \in MinConcurrency..MaxConcurrency
    BY GateAssumption DEF Init
  <2>3. deliveries \in [Jobs -> 0..MaxDelivery + 1] /\ faults \in 0..MaxFaults
    BY GateAssumption DEF Init
  <2>4. task \in [Jobs -> Tasks]
    BY <1>2 DEF Init
  <2>. QED
    BY <1>1, <2>1, <2>2, <2>3, <2>4 DEF Init, Typed
<1>4. BreakerConsistent /\ UnreadIdle
  BY <1>2, BreakerAssumption
     DEF Init, BreakerInit, BreakerConsistent, UnreadIdle, Live
<1>5. ASSUME NEW s \in Sems PROVE Holders(s) = {}
  BY <1>2 DEF Init, Holders, Holding
<1>6. Conserved
  BY <1>1, <1>2, <1>5, FS_EmptySet, GateAssumption DEF Init, Conserved, Balance
<1>. QED
  BY <1>3, <1>4, <1>6 DEF IInv

\* Every step keeps the invariant, and so does standing still.
LEMMA IInvInductive == IInv /\ [Next]_vars => IInv'
<1> SUFFICES ASSUME IInv, [Next]_vars PROVE IInv'
  OBVIOUS
<1>1. BreakerTypeOK' /\ BreakerConsistent'
  BY BreakerSteps, BreakerKeeps DEF IInv, Typed
<1>2. CASE Next
  <2>1. SemsKept
    BY <1>2, TaskKeeps, LoopKeeps DEF Next
  <2>2. QueuesKept
    BY <1>2, QueuesKeep
  <2>. QED
    BY <1>1, <2>1, <2>2 DEF IInv, Typed, SemsKept, QueuesKept
<1>3. CASE UNCHANGED vars
  <2>1. Typed' /\ UnreadIdle'
    BY <1>1, <1>3 DEF IInv, vars, queueVars, semVars, Typed, UnreadIdle, Live
  <2>2. Conserved'
    BY <1>3 DEF IInv, vars, semVars, Conserved, Balance, Holders
  <2>. QED
    BY <1>1, <2>1, <2>2 DEF IInv
<1>. QED
  BY <1>2, <1>3

\* The invariant holds throughout.
LEMMA Inductive == Spec => []IInv
BY InitIInv, IInvInductive, PTL DEF Spec

\* All variables keep their types; that permits stay within the largest
\* concurrency is what their conservation gives.
THEOREM TypeCorrect == Spec => []TypeOK
<1>1. IInv => TypeOK
  <2> SUFFICES ASSUME IInv PROVE TypeOK
    OBVIOUS
  <2>1. ASSUME NEW s \in Sems PROVE permits[s] \in 0..MaxConcurrency
    BY HoldersFinite, GateAssumption DEF IInv, Conserved, Balance, Typed
  <2>2. permits \in [Sems -> 0..MaxConcurrency]
    BY <2>1 DEF IInv, Typed
  <2>. QED
    BY <2>2 DEF IInv, Typed, TypeOK, Tasks
<1>. QED
  BY <1>1, Inductive, PTL

\* No stale count leaves a closed circuit at its threshold, and trials are
\* out exactly while it is half open.
THEOREM BreakerIsConsistent == Spec => []BreakerConsistent
<1>1. IInv => BreakerConsistent
  BY DEF IInv
<1>. QED
  BY <1>1, Inductive, PTL

\* Replacing the semaphore under running tasks loses no permit.
THEOREM PermitsAreConserved == Spec => []PermitsConserved
<1>1. IInv => PermitsConserved
  BY DEF IInv, Conserved, Balance, PermitsConserved
<1>. QED
  BY <1>1, Inductive, PTL

\* consumer.py:55 calls the concurrency a hard cap.  Across replacements it
\* is not one (HardCap); of each semaphore object, the current one and every
\* one before it, it is.
CappedPerSemaphore == \A s \in Sems : Cardinality(Holders(s)) <= MaxConcurrency

\* No semaphore ever has more holders than the greatest concurrency.
THEOREM CapHoldsPerSemaphore == Spec => []CappedPerSemaphore
<1>1. IInv => CappedPerSemaphore
  <2> SUFFICES ASSUME IInv, NEW s \in Sems
               PROVE  Cardinality(Holders(s)) <= MaxConcurrency
    BY DEF CappedPerSemaphore
  <2>1. Balance(s) <= MaxConcurrency /\ permits[s] \in Nat
    BY DEF IInv, Conserved, Typed
  <2>. QED
    BY <2>1, HoldersFinite, GateAssumption DEF Balance, IInv
<1>. QED
  BY <1>1, Inductive, PTL

\* A task has a semaphore from its first step to its last.
SemKnown == \A j \in Jobs : task[j].sem = NoSem <=> task[j].pc \in {"none", "new"}

\* Every step keeps it so.
LEMMA SemKnownInductive == IInv /\ SemKnown /\ [Next]_vars => SemKnown'
<1> SUFFICES ASSUME IInv, SemKnown, [Next]_vars PROVE SemKnown'
  OBVIOUS
<1> USE DEF IInv, SemKnown
<1>1. NoTask.sem = NoSem /\ NoTask.pc = "none"
  BY DEF NoTask
<1>2. ASSUME NEW S \in SUBSET Jobs, Dispatch(S) PROVE SemKnown'
  BY <1>2 DEF Dispatch, NoTask
<1>3. ASSUME NEW j \in Jobs, task' = [task EXCEPT ![j] = NoTask] PROVE SemKnown'
  BY <1>1, <1>3 DEF Typed
<1>4. ASSUME NEW j \in Jobs, NEW v, task' = [task EXCEPT ![j] = v],
             v.pc \notin {"none", "new"}, v.sem \in Sems
      PROVE  SemKnown'
  BY <1>4, GateAssumption DEF Typed
<1>5. ASSUME NEW j \in Jobs, TaskStep(j) \/ Acquire(j) PROVE SemKnown'
  <2>0. task[j] \in Tasks
    BY DEF Typed
  <2>1. CASE Enter(j)
    <3> DEFINE v == [task[j] EXCEPT !.pc = "wait", !.sem = sem]
    <3>1. v.pc = "wait" /\ v.sem = sem /\ sem \in Sems
      BY <2>0 DEF Tasks, Typed
    <3>. QED
      BY <1>4, <2>1, <3>1 DEF Enter
  <2>2. ASSUME NEW pc \in PC \ {"none", "new"}, Goto(j, pc),
               task[j].pc \notin {"none", "new"}
        PROVE  SemKnown'
    <3> DEFINE v == [task[j] EXCEPT !.pc = pc]
    <3>1. v.pc = pc /\ v.sem = task[j].sem /\ task[j].sem \in Sems
      BY <2>0, <2>2 DEF Tasks
    <3>. QED
      BY <1>4, <2>2, <3>1 DEF Goto
  <2>3. CASE \/ Acquire(j) \/ CheckAllowed(j) \/ CheckDenied(j) \/ HoldEnds(j)
             \/ BackoffEnds(j)
             \/ Inspect(j) /\ ~(deliveries[j] > MaxDelivery)
    BY <2>2, <2>3 DEF Acquire, CheckAllowed, CheckDenied, HoldEnds, BackoffEnds,
       Inspect, PC
  <2>4. CASE CallRateLimited(j)
    <3> DEFINE v == Retried(task[j])
    <3>1. v.pc = "backoff" /\ v.sem = task[j].sem /\ task[j].sem \in Sems
      BY <2>0, <2>4 DEF Tasks, Retried, CallRateLimited
    <3>. QED
      BY <1>4, <2>4, <3>1 DEF CallRateLimited
  <2>5. CASE \/ CallReturns(j) \/ CallExhausted(j) \/ CallRaises(j)
             \/ Inspect(j) /\ deliveries[j] > MaxDelivery
    BY <1>3, <2>5 DEF CallReturns, CallExhausted, CallRaises, Inspect, End
  <2>6. CASE Inspect(j)
    BY <2>3, <2>5, <2>6
  <2>. QED
    BY <1>5, <2>1, <2>3, <2>4, <2>5, <2>6 DEF TaskStep
<1>6. CASE \E j \in Jobs : Reclaim(j)
  BY <1>2, <1>6 DEF Reclaim
<1>7. CASE Read
  BY <1>2, <1>7 DEF Read, Typed
<1>8. CASE \/ \E j \in Jobs : Arrive(j)
           \/ Gate \/ ReadLag \/ Scale \/ Tick \/ UNCHANGED vars
  BY <1>8 DEF Arrive, Gate, ReadLag, Scale, Tick, vars
<1>. QED
  BY <1>5, <1>6, <1>7, <1>8 DEF Next

\* Whoever waits for a permit, also of a semaphore replaced meanwhile, finds
\* one free or waits for a task that holds one: no task waits for nobody,
\* the safety half of TasksEnd.
NoWaiterStranded ==
    \A j \in Jobs : task[j].pc = "wait" =>
        permits[task[j].sem] > 0 \/ Holders(task[j].sem) # {}

\* No waiter of _process_single_message is stranded on an old semaphore.
THEOREM WaitersAreServed == Spec => []NoWaiterStranded
<1>1. Init => SemKnown
  BY DEF Init, SemKnown, NoTask
<1>2. IInv /\ SemKnown => NoWaiterStranded
  <2> SUFFICES ASSUME IInv, SemKnown, NEW j \in Jobs, task[j].pc = "wait",
                      Holders(task[j].sem) = {}
               PROVE  permits[task[j].sem] > 0
    BY DEF NoWaiterStranded
  <2>1. task[j].sem # NoSem /\ task[j].sem \in Sems
    BY DEF SemKnown, IInv, Typed, Tasks
  <2>2. Balance(task[j].sem) >= MinConcurrency
    BY <2>1 DEF IInv, Conserved
  <2>3. Balance(task[j].sem) = permits[task[j].sem] + 0
    BY FS_EmptySet DEF Balance
  <2>. QED
    BY <2>1, <2>2, <2>3, GateAssumption DEF IInv, Typed
<1>. QED
  BY <1>1, <1>2, Inductive, SemKnownInductive, PTL DEF Spec

-----------------------------------------------------------------------------
(* Tasks end.                                                              *)

\* Where a task is in one attempt
Place(pc) ==
    CASE pc = "new" -> 7
      [] pc = "wait" -> 6
      [] pc = "inspect" -> 5
      [] pc = "backoff" -> 4
      [] pc = "check" -> 3
      [] pc = "hold" -> 2
      [] pc = "call" -> 1
      [] pc = "none" -> 0

\* Steps a task has before it at most
Ahead(k) == 8 * (MaxRetries - k.attempt) + Place(k.pc)

\* Whatever the breaker answers and however often the semaphore is replaced,
\* a task never starts over while it lives: with each of its steps it ends or
\* has fewer before it.  With NoWaiterStranded, TasksEnd is this under
\* fairness.
TasksAdvance ==
    [][\A j \in Jobs :
          task'[j] # task[j] /\ Live(j)
              => ~Live(j)' \/ Ahead(task'[j]) < Ahead(task[j])]_vars

\* A step of a task goes forward, and is its own.
LEMMA TaskAdvances ==
    ASSUME IInv, NEW i \in Jobs, TaskStep(i) \/ Acquire(i)
    PROVE  /\ task'[i].pc = "none" \/ Ahead(task'[i]) < Ahead(task[i])
           /\ \A j \in Jobs : j # i => task'[j] = task[j]
<1>1. /\ task \in [Jobs -> Tasks] /\ task[i] \in Tasks
      /\ task[i].attempt \in Nat /\ MaxRetries \in Nat
  BY GateAssumption DEF IInv, Typed, Tasks
<1>2. ASSUME NEW pc \in PC, Goto(i, pc), Place(pc) < Place(task[i].pc)
      PROVE  /\ Ahead(task'[i]) < Ahead(task[i])
             /\ \A j \in Jobs : j # i => task'[j] = task[j]
  <2>1. /\ task'[i].pc = pc /\ task'[i].attempt = task[i].attempt
        /\ \A j \in Jobs : j # i => task'[j] = task[j]
    BY <1>1, <1>2 DEF Goto, Tasks
  <2>2. Place(pc) \in Int /\ Place(task[i].pc) \in Int
    BY <1>1 DEF Place, PC, Tasks
  <2>. QED
    BY <1>1, <1>2, <2>1, <2>2 DEF Ahead
<1>3. ASSUME task' = [task EXCEPT ![i] = NoTask]
      PROVE  /\ task'[i].pc = "none"
             /\ \A j \in Jobs : j # i => task'[j] = task[j]
  BY <1>1, <1>3 DEF NoTask
<1>4. CASE Enter(i)
  <2>1. /\ task[i].pc = "new" /\ task'[i].pc = "wait"
        /\ task'[i].attempt = task[i].attempt
        /\ \A j \in Jobs : j # i => task'[j] = task[j]
    BY <1>1, <1>4 DEF Enter, Tasks
  <2>. QED
    BY <1>1, <2>1 DEF Ahead, Place
<1>5. CASE \/ Acquire(i) \/ CheckAllowed(i) \/ CheckDenied(i) \/ HoldEnds(i)
           \/ BackoffEnds(i)
           \/ Inspect(i) /\ ~(deliveries[i] > MaxDelivery)
  BY <1>2, <1>5 DEF Acquire, CheckAllowed, CheckDenied, HoldEnds, BackoffEnds,
     Inspect, Place, PC
<1>6. CASE CallRateLimited(i)
  <2>1. /\ task[i].pc = "call" /\ task'[i].pc = "backoff"
        /\ task'[i].attempt = task[i].attempt + 1
        /\ \A j \in Jobs : j # i => task'[j] = task[j]
    BY <1>1, <1>6 DEF CallRateLimited, Retried, Tasks
  <2>. QED
    BY <1>1, <2>1 DEF Ahead, Place
<1>7. CASE \/ CallReturns(i) \/ CallExhausted(i) \/ CallRaises(i)
           \/ Inspect(i) /\ deliveries[i] > MaxDelivery
  BY <1>3, <1>7 DEF CallReturns, CallExhausted, CallRaises, Inspect, End
<1>8. CASE Inspect(i)
  BY <1>5, <1>7, <1>8
<1>. QED
  BY <1>4, <1>5, <1>6, <1>7, <1>8 DEF TaskStep

\* No task is started over: only entries without a task are dispatched.
THEOREM TasksGoForward == Spec => TasksAdvance
<1>1. IInv /\ [Next]_vars
        => [\A j \in Jobs :
               task'[j] # task[j] /\ Live(j)
                   => ~Live(j)' \/ Ahead(task'[j]) < Ahead(task[j])]_vars
  <2> SUFFICES ASSUME IInv, Next, NEW j \in Jobs, task'[j] # task[j], Live(j)
               PROVE  ~Live(j)' \/ Ahead(task'[j]) < Ahead(task[j])
    BY DEF vars
  <2>1. ASSUME NEW i \in Jobs, TaskStep(i) \/ Acquire(i)
        PROVE  ~Live(j)' \/ Ahead(task'[j]) < Ahead(task[j])
    BY <2>1, TaskAdvances DEF Live
  <2>2. ASSUME NEW i \in Jobs, Reclaim(i) PROVE FALSE
    BY <2>2 DEF Reclaim, Dispatch
  <2>3. CASE Read
    BY <2>3 DEF Read, Dispatch, IInv, UnreadIdle
  <2>4. CASE (\E i \in Jobs : Arrive(i)) \/ Gate \/ ReadLag \/ Scale \/ Tick
    BY <2>4 DEF Arrive, Gate, ReadLag, Scale, Tick
  <2>. QED
    BY <2>1, <2>2, <2>3, <2>4 DEF Next
<1>. QED
  BY <1>1, Inductive, PTL DEF Spec, TasksAdvance

-----------------------------------------------------------------------------
(* The controller.                                                         *)

\* Whoever opens the circuit clamps in the same step, and a controller that
\* resumes afterwards asks the circuit of now.
LEMMA ClampInductive == IInv /\ OpenIsClamped /\ [Next]_vars => OpenIsClamped'
<1> SUFFICES ASSUME IInv, OpenIsClamped, [Next]_vars, circuit' = "OPEN"
             PROVE  limit' = MinConcurrency
  BY DEF OpenIsClamped
<1>1. limit \in Int /\ MinConcurrency \in Int /\ MinConcurrency <= limit
  BY GateAssumption DEF IInv, Typed
<1>2. ASSUME circuit = "OPEN" PROVE limit = MinConcurrency
  BY <1>2 DEF OpenIsClamped
<1>3. ASSUME circuit = "OPEN", NEW lag PROVE Target(lag) = MinConcurrency
  BY <1>3 DEF Target
<1>4. CASE Scale
  BY <1>2, <1>3, <1>4 DEF Scale, Install, breakerVars, semVars
<1>5. ASSUME NEW j \in Jobs, CallRateLimited(j) PROVE limit' = MinConcurrency
  BY <1>1, <1>5 DEF CallRateLimited, Clamp, Install, semVars
<1>6. ASSUME NEW j \in Jobs, CallExhausted(j) PROVE limit' = MinConcurrency
  BY <1>1, <1>6 DEF CallExhausted, End
<1>7. CASE \/ \E j \in Jobs : Arrive(j) \/ Reclaim(j) \/ Acquire(j)
           \/ Read \/ ReadLag \/ Tick \/ UNCHANGED vars
  BY <1>2, <1>7 DEF Arrive, Reclaim, Acquire, Read, ReadLag, Tick, Cooldown, vars,
     breakerVars, semVars
<1>8. ASSUME Permit \/ RecordSuccess PROVE FALSE
  BY <1>8 DEF Permit, Allowed, RecordSuccess
<1>9. ASSUME NEW j \in Jobs,
             \/ Enter(j) \/ Inspect(j) \/ CheckDenied(j) \/ HoldEnds(j)
             \/ CallRaises(j) \/ BackoffEnds(j)
      PROVE  limit' = MinConcurrency
  BY <1>2, <1>9 DEF Enter, Inspect, CheckDenied, HoldEnds, CallRaises, BackoffEnds,
     End, RecordOtherFailure, breakerVars, semVars
<1>. QED
  BY <1>4, <1>5, <1>6, <1>7, <1>8, <1>9
     DEF Next, TaskStep, Gate, CheckAllowed, CallReturns

\* However many calls overlap and however late the controller is resumed, an
\* open circuit finds the worker at MIN_CONCURRENCY.
THEOREM OpenStaysClamped == Spec => []OpenIsClamped
<1>1. Init => OpenIsClamped
  BY DEF Init, BreakerInit, OpenIsClamped
<1>. QED
  BY <1>1, ClampInductive, Inductive, PTL DEF Spec
=============================================================================
