-------------------------- MODULE CacheAsideProofs --------------------------
(***************************************************************************)
(* Proofs about CacheAside and TraceIndex, for every set of requests.      *)
(***************************************************************************)
EXTENDS CacheAside, TraceIndex, Naturals, TLAPS

\* A leader is past the lock for good.
LeadersArePast ==
    \A r \in Requests :
        req[r].leader =>
            req[r].pc \in {"fetch", "store", "index", "release", "done", "dead"}

\* The lock names at most one request, and whoever takes it from a fetching
\* leader records the loss; that a request becomes a leader nowhere but at
\* the lock is what this needs besides.
CacheIInv == CacheTypeOK /\ LeadersArePast /\ OnlyTheHolderFetches

\* Expiries, purges and workers touch no request.
LEMMA OthersLeaveRequests == Others => UNCHANGED req
BY DEF Others, LeaseExpires, EntryExpires, PurgeLock, PurgeEntry, WriteThrough

\* Every variable of the cache coordination keeps its type.
LEMMA CacheTypeInductive ==
    ASSUME CacheTypeOK, [CacheNext]_cacheVars
    PROVE  CacheTypeOK'
<1> USE DEF CacheTypeOK, PC, Proceed
<1>1. CASE \E r \in Requests : Arrive(r) \/ RequestStep(r) \/ RequestFault(r)
  <2> SUFFICES ASSUME NEW r \in Requests,
                      Arrive(r) \/ RequestStep(r) \/ RequestFault(r)
               PROVE  CacheTypeOK'
    BY <1>1
  <2>1. CASE Arrive(r)
    BY <2>1 DEF Arrive
  <2>2. CASE Lookup(r) \/ WaiterHit(r)
    BY <2>2 DEF Lookup, WaiterHit, AnswerCached
  <2>3. CASE QueryDatabase(r) \/ WaiterTimeout(r) \/ Dies(r)
    BY <2>3 DEF QueryDatabase, WaiterTimeout, Dies
  <2>4. CASE AcquireLock(r)
    <3>1. [pc |-> "fetch", leader |-> TRUE] \in [pc: PC, leader: BOOLEAN]
      OBVIOUS
    <3>2. CASE lock = NoRequest
      BY <2>4, <3>1, <3>2 DEF AcquireLock
    <3>3. CASE lock # NoRequest
      BY <2>4, <3>3 DEF AcquireLock
    <3>. QED
      BY <3>2, <3>3
  <2>5. CASE StoreBaseline(r)
    BY <2>5 DEF StoreBaseline
  <2>6. CASE IndexTrace(r)
    BY <2>6 DEF IndexTrace
  <2>7. CASE Fails(r) \/ RedisFails(r)
    BY <2>7 DEF Fails, RedisFails
  <2>8. CASE ReleaseLock(r) \/ ReleaseFails(r)
    BY <2>8 DEF ReleaseLock, ReleaseFails
  <2>. QED
    BY <2>1, <2>2, <2>3, <2>4, <2>5, <2>6, <2>7, <2>8
       DEF RequestStep, RequestFault
<1>2. CASE Others
  <2>1. entry' \in {"none", "baseline", "analysis"} /\ purging' \in BOOLEAN
    BY <1>2 DEF Others, LeaseExpires, EntryExpires, PurgeLock, PurgeEntry,
       WriteThrough
  <2>2. excused' \in SUBSET Requests /\ lost' \in SUBSET Requests
    BY <1>2 DEF Others, LeaseExpires, EntryExpires, PurgeLock, PurgeEntry,
       WriteThrough, LoseLease, Missed
  <2>3. lock' \in Requests \cup {NoRequest}
    BY <1>2 DEF Others, LeaseExpires, EntryExpires, PurgeLock, PurgeEntry,
       WriteThrough
  <2>. QED
    BY <1>2, <2>1, <2>2, <2>3, OthersLeaveRequests
<1>4. CASE UNCHANGED cacheVars
  BY <1>4 DEF cacheVars
<1>. QED
  BY <1>1, <1>2, <1>4 DEF CacheNext

\* A step of request r makes nobody but r a fetching leader.
LEMMA OthersFetching ==
    ASSUME CacheTypeOK, NEW r \in Requests, NEW q \in Requests, q # r,
           RequestStep(r) \/ Arrive(r) \/ RequestFault(r)
    PROVE  Fetching(q)' => Fetching(q)
BY DEF CacheTypeOK, Fetching, At, Proceed, RequestStep, RequestFault, Arrive,
   Dies, Lookup, AnswerCached, AcquireLock, QueryDatabase, StoreBaseline,
   IndexTrace, Fails, RedisFails, ReleaseLock, ReleaseFails, WaiterHit,
   WaiterTimeout

\* A request cannot take the lock from another one.
LEMMA OthersLock ==
    ASSUME NEW r \in Requests, NEW q \in Requests, q # r, lock = q,
           RequestStep(r) \/ Arrive(r) \/ RequestFault(r)
    PROVE  lock' = q
BY CacheAssumption
   DEF RequestStep, RequestFault, Arrive, Dies, Lookup, AcquireLock,
       QueryDatabase, StoreBaseline, IndexTrace, Fails, RedisFails, ReleaseLock,
       ReleaseFails, WaiterHit, WaiterTimeout

\* A fetching leader r has just taken the lock or goes on with what it had.
LEMMA OwnFetching ==
    ASSUME CacheTypeOK, LeadersArePast, OnlyTheHolderFetches,
           NEW r \in Requests, Fetching(r)',
           RequestStep(r) \/ Arrive(r) \/ RequestFault(r)
    PROVE  lock' = r \/ r \in lost'
<1> USE DEF CacheTypeOK, Fetching, At, Proceed
<1>1. CASE AcquireLock(r)
  BY <1>1 DEF AcquireLock, OnlyTheHolderFetches
<1>2. CASE QueryDatabase(r)
  BY <1>2 DEF QueryDatabase, OnlyTheHolderFetches
<1>3. CASE Arrive(r) \/ Dies(r) \/ Lookup(r) \/ StoreBaseline(r) \/ IndexTrace(r)
           \/ Fails(r) \/ RedisFails(r) \/ ReleaseLock(r)
           \/ ReleaseFails(r) \/ WaiterHit(r) \/ WaiterTimeout(r)
  <2>1. req'[r].pc \in {"lookup", "lock", "index", "release",
                        "done", "failed", "dead"}
        \/ ~req'[r].leader
        \/ (Fetching(r) /\ UNCHANGED <<lock, lost>>)
    BY <1>3 DEF LeadersArePast, Arrive, Dies, Lookup, AnswerCached,
       StoreBaseline,
       IndexTrace, Fails, RedisFails,
       ReleaseLock, ReleaseFails, WaiterHit, WaiterTimeout
  <2>. QED
    BY <2>1 DEF OnlyTheHolderFetches
<1>. QED
  BY <1>1, <1>2, <1>3 DEF RequestStep, RequestFault

\* No step makes a leader of a request that does not hold the lock.
LEMMA LeadersInductive ==
    ASSUME CacheTypeOK, LeadersArePast, [CacheNext]_cacheVars
    PROVE  LeadersArePast'
<1> USE DEF CacheTypeOK, LeadersArePast, At, Proceed
<1>1. ASSUME NEW r \in Requests, Arrive(r) \/ RequestStep(r) \/ RequestFault(r)
      PROVE  LeadersArePast'
  BY <1>1 DEF RequestStep, RequestFault, Arrive, Dies, Lookup, AnswerCached,
     AcquireLock, QueryDatabase, StoreBaseline, IndexTrace, Fails,
     RedisFails, ReleaseLock, ReleaseFails, WaiterHit, WaiterTimeout
<1>2. CASE Others \/ UNCHANGED cacheVars
  BY <1>2, OthersLeaveRequests DEF cacheVars
<1>. QED
  BY <1>1, <1>2 DEF CacheNext

\* CacheIInv is inductive.
LEMMA CacheInductive == CacheIInv /\ [CacheNext]_cacheVars => CacheIInv'
<1> SUFFICES ASSUME CacheIInv, [CacheNext]_cacheVars
             PROVE  CacheIInv'
  OBVIOUS
<1> USE DEF CacheIInv
<1>1. CacheTypeOK' /\ LeadersArePast'
  BY CacheTypeInductive, LeadersInductive
<1>2. OnlyTheHolderFetches'
  <2>1. CASE \E r \in Requests : Arrive(r) \/ RequestStep(r) \/ RequestFault(r)
    <3> SUFFICES ASSUME NEW r \in Requests,
                        Arrive(r) \/ RequestStep(r) \/ RequestFault(r),
                        NEW q \in Requests, Fetching(q)'
                 PROVE  lock' = q \/ q \in lost'
      BY <2>1 DEF OnlyTheHolderFetches
    <3>1. CASE q = r
      BY <3>1, OwnFetching
    <3>2. CASE q # r
      <4>1. lock = q \/ q \in lost
        BY <3>2, OthersFetching DEF OnlyTheHolderFetches
      <4>2. lost' = lost
        BY DEF RequestStep, RequestFault, Arrive, Dies, Lookup, AcquireLock,
           QueryDatabase, StoreBaseline, IndexTrace, Fails, RedisFails,
           ReleaseLock, ReleaseFails, WaiterHit, WaiterTimeout
      <4>. QED
        BY <3>2, <4>1, <4>2, OthersLock
    <3>. QED
      BY <3>1, <3>2
  <2>2. CASE Others
    <3>1. UNCHANGED <<lock, lost>> \/ lock = NoRequest \/ lock \in lost'
      BY <2>2 DEF Others, LeaseExpires, EntryExpires, PurgeLock, PurgeEntry,
         WriteThrough, LoseLease
    <3>2. lost \subseteq lost'
      BY <2>2 DEF Others, LeaseExpires, EntryExpires, PurgeLock, PurgeEntry,
         WriteThrough, LoseLease
    <3>. QED
      BY <2>2, <3>1, <3>2, CacheAssumption, OthersLeaveRequests
         DEF OnlyTheHolderFetches, Fetching, At
  <2>3. CASE UNCHANGED cacheVars
    BY <2>3 DEF cacheVars, OnlyTheHolderFetches, Fetching, At
  <2>. QED
    BY <2>1, <2>2, <2>3 DEF CacheNext
<1>. QED
  BY <1>1, <1>2

\* CacheIInv holds initially.
LEMMA InitCacheIInv == CacheInit => CacheIInv
<1>1. ASSUME CacheInit
      PROVE  CacheTypeOK
  <2>1. req \in [Requests -> [pc: PC, leader: BOOLEAN]]
    BY <1>1 DEF CacheInit, PC
  <2>2. purging \in BOOLEAN
    BY <1>1 DEF CacheInit
  <2>. QED
    BY <1>1, <2>1, <2>2 DEF CacheInit, CacheTypeOK
<1>2. CacheInit => LeadersArePast /\ OnlyTheHolderFetches
  BY DEF CacheInit, LeadersArePast, OnlyTheHolderFetches, Fetching
<1>. QED
  BY <1>1, <1>2 DEF CacheIInv

\* CacheIInv holds in every reachable state.
LEMMA CacheInvariant == CacheSpec => []CacheIInv
BY InitCacheIInv, CacheInductive, PTL DEF CacheSpec

\* Every variable of the cache coordination keeps its type.
THEOREM CacheTyped == CacheSpec => []CacheTypeOK
<1>1. CacheIInv => CacheTypeOK
  BY DEF CacheIInv
<1>. QED
  BY <1>1, CacheInvariant, PTL

\* For any number of requests, expiries, purges and dying processes, a
\* leader queries the database only under its own lease or after losing it.
THEOREM LeaseSound == CacheSpec => []OnlyTheHolderFetches
<1>1. CacheIInv => OnlyTheHolderFetches
  BY DEF CacheIInv
<1>. QED
  BY <1>1, CacheInvariant, PTL

\* No stampede: of two leaders at the database one has lost its lease, by
\* expiry or by the invalidation route.
OneFetchPerLease ==
    \A r, q \in Requests :
        Fetching(r) /\ Fetching(q) /\ r # q => r \in lost \/ q \in lost

\* Without expiry and invalidation at most one leader fetches at a time.
THEOREM StampedeProtected == CacheSpec => []OneFetchPerLease
<1>1. OnlyTheHolderFetches => OneFetchPerLease
  BY DEF OnlyTheHolderFetches, OneFetchPerLease
<1>. QED
  BY <1>1, LeaseSound, PTL

-----------------------------------------------------------------------------
(* Requests end.                                                           *)

\* Steps a request has before it at most
Ahead(pc) ==
    CASE pc = "idle" -> 8
      [] pc = "lookup" -> 7
      [] pc = "lock" -> 6
      [] pc = "wait" -> 5
      [] pc = "fetch" -> 4
      [] pc = "store" -> 3
      [] pc = "index" -> 2
      [] pc = "release" -> 1
      [] pc \in {"done", "failed", "dead"} -> 0

\* No request goes round in circles, whatever others do to lock and entry:
\* each of its steps brings it nearer to its end, so that it takes eight at
\* most.  EveryReadReturns is this under fairness.
ReadsAdvance ==
    [][\A r \in Requests :
          req'[r] # req[r] => Ahead(req'[r].pc) < Ahead(req[r].pc)]_cacheVars

\* A step of a request is its own and goes forward.
LEMMA RequestAdvances ==
    ASSUME CacheTypeOK, NEW q \in Requests,
           Arrive(q) \/ RequestStep(q) \/ RequestFault(q)
    PROVE  /\ Ahead(req'[q].pc) < Ahead(req[q].pc)
           /\ \A r \in Requests : r # q => req'[r] = req[r]
<1> USE DEF CacheTypeOK, At, Proceed
<1>1. CASE Arrive(q) \/ AcquireLock(q)
  BY <1>1 DEF Arrive, AcquireLock, Ahead
<1>2. CASE Lookup(q) \/ WaiterHit(q)
  BY <1>2 DEF Lookup, WaiterHit, AnswerCached, Ahead
<1>3. CASE QueryDatabase(q) \/ WaiterTimeout(q) \/ ReleaseLock(q)
           \/ ReleaseFails(q)
  BY <1>3 DEF QueryDatabase, WaiterTimeout, ReleaseLock, ReleaseFails, Ahead
<1>4. CASE StoreBaseline(q) \/ IndexTrace(q)
  BY <1>4 DEF StoreBaseline, IndexTrace, Ahead
<1>5. CASE Fails(q) \/ RedisFails(q)
  BY <1>5 DEF Fails, RedisFails, Ahead
<1>6. CASE Dies(q)
  <2>1. req[q].pc \in PC
    OBVIOUS
  <2>2. Ahead(req[q].pc) > 0
    BY <1>6, <2>1 DEF Dies, PC, Ahead
  <2>3. req'[q].pc = "dead" /\ \A r \in Requests : r # q => req'[r] = req[r]
    BY <1>6 DEF Dies
  <2>. QED
    BY <2>2, <2>3 DEF Ahead
<1>. QED
  BY <1>1, <1>2, <1>3, <1>4, <1>5, <1>6 DEF RequestStep, RequestFault

\* Every read gets nearer to its end with each of its steps.
THEOREM ReadsGoForward == CacheSpec => ReadsAdvance
<1>1. CacheTypeOK /\ [CacheNext]_cacheVars
        => [\A r \in Requests :
               req'[r] # req[r] => Ahead(req'[r].pc) < Ahead(req[r].pc)]_cacheVars
  <2> SUFFICES ASSUME CacheTypeOK, CacheNext,
                      NEW r \in Requests, req'[r] # req[r]
               PROVE  Ahead(req'[r].pc) < Ahead(req[r].pc)
    BY DEF cacheVars
  <2>1. CASE Others
    BY <2>1 DEF Others, LeaseExpires, EntryExpires, PurgeLock, PurgeEntry,
       WriteThrough
  <2>2. ASSUME NEW q \in Requests,
               Arrive(q) \/ RequestStep(q) \/ RequestFault(q)
        PROVE  Ahead(req'[r].pc) < Ahead(req[r].pc)
    BY <2>2, RequestAdvances
  <2>. QED
    BY <2>1, <2>2 DEF CacheNext
<1>. QED
  BY <1>1, CacheTyped, PTL DEF CacheSpec, ReadsAdvance

-----------------------------------------------------------------------------
(* What the entry holds.                                                   *)

\* Only a miss that is excused, or one without an analysis to lose, joins
\* the requests that will store a baseline.
LEMMA LateReadsInductive ==
    ASSUME CacheTypeOK, LateReadsKeepAnalysis, [CacheNext]_cacheVars
    PROVE  LateReadsKeepAnalysis'
<1> USE DEF CacheTypeOK, LateReadsKeepAnalysis, Missed, At, Proceed
<1>1. ASSUME NEW r \in Requests, Arrive(r) \/ RequestStep(r) \/ RequestFault(r)
      PROVE  LateReadsKeepAnalysis'
  <2>1. CASE Arrive(r)
    BY <2>1 DEF Arrive
  <2>2. CASE Lookup(r)
    BY <2>2 DEF Lookup, AnswerCached, Primed
  <2>3. CASE StoreBaseline(r)
    BY <2>3 DEF StoreBaseline
  <2>4. CASE AcquireLock(r) \/ QueryDatabase(r) \/ Fails(r) \/ WaiterTimeout(r)
    BY <2>4 DEF AcquireLock, QueryDatabase, Fails, WaiterTimeout
  <2>5. CASE IndexTrace(r) \/ ReleaseLock(r)
             \/ ReleaseFails(r) \/ WaiterHit(r) \/ RequestFault(r)
    BY <2>5 DEF IndexTrace, ReleaseLock,
       ReleaseFails, WaiterHit, AnswerCached, RequestFault, RedisFails, Dies
  <2>. QED
    BY <1>1, <2>1, <2>2, <2>3, <2>4, <2>5 DEF RequestStep
<1>2. CASE Others
  BY <1>2 DEF Others, LeaseExpires, EntryExpires, PurgeLock, PurgeEntry,
     WriteThrough
<1>3. CASE UNCHANGED cacheVars
  BY <1>3 DEF cacheVars
<1>. QED
  BY <1>1, <1>2, <1>3 DEF CacheNext

\* For any number of requests, a baseline replaces the job's analysis only if
\* its request had missed before, refreshes by force or lost the TTL reply.
THEOREM LateReadsSound == CacheSpec => []LateReadsKeepAnalysis
<1>1. CacheInit => LateReadsKeepAnalysis
  BY DEF CacheInit, LateReadsKeepAnalysis
<1>2. CacheSpec => []CacheTypeOK
  BY CacheTyped, PTL
<1>. QED
  BY <1>1, <1>2, LateReadsInductive, PTL DEF CacheSpec

-----------------------------------------------------------------------------
(* The trace of a job and its batch.                                       *)

\* Every variable of the trace index keeps its type.
LEMMA TraceTypeInductive ==
    ASSUME TraceTypeOK, [TraceNext]_traceVars
    PROVE  TraceTypeOK'
<1> USE DEF TraceTypeOK, Sources
<1>1. trace' \in {"none", "made up", "result", "dead-lettered"}
  BY DEF TraceNext, Record, Prime, PrimeFails, Quarantine, Rename, StoreNamed,
     Learn, Look, Make, traceVars
<1>2. named' \in [Tickers -> Sources \cup {"none"}]
  BY DEF TraceNext, Record, Prime, PrimeFails, Quarantine, Rename, StoreNamed,
     Learn, Look, Make, traceVars
<1>3. run' \subseteq Deliveries \X Tickers
  <2>1. ASSUME NEW d \in Deliveries, NEW t \in Tickers, Record(d, t)
        PROVE  run' \subseteq Deliveries \X Tickers
    <3>1. run' = run \cup {<<d, t>>} /\ <<d, t>> \in Deliveries \X Tickers
      BY <2>1 DEF Record
    <3>. QED
      BY <3>1
  <2>2. (\A d \in Deliveries, t \in Tickers : ~Record(d, t)) => run' \subseteq run
    BY DEF TraceNext, Prime, PrimeFails, Quarantine, Rename, StoreNamed,
       Learn, Look, Make, traceVars
  <2>. QED
    BY <2>1, <2>2
<1>4. reader' \in [Readers -> [pc: {"idle", "look", "make"}, from: Sources]]
  <2>1. ASSUME NEW s \in Sources
        PROVE  [pc |-> "look", from |-> s]
                   \in [pc: {"idle", "look", "make"}, from: Sources]
    OBVIOUS
  <2>2. ASSUME NEW r \in Readers, StoreNamed(r) \/ Learn(r)
        PROVE  reader' \in [Readers -> [pc: {"idle", "look", "make"}, from: Sources]]
    BY <2>1, <2>2 DEF StoreNamed, Learn
  <2>3. ASSUME NEW r \in Readers, Look(r) \/ Make(r)
        PROVE  reader' \in [Readers -> [pc: {"idle", "look", "make"}, from: Sources]]
    <3>1. PICK pc \in {"idle", "make"} : reader' = [reader EXCEPT ![r].pc = pc]
      BY <2>3 DEF Look, Make
    <3>. QED
      BY <3>1
  <2>. QED
    BY <2>2, <2>3 DEF TraceNext, Record, Prime, PrimeFails, Quarantine, Rename,
       traceVars
<1>. QED
  BY <1>1, <1>2, <1>3, <1>4

\* The type invariant of the trace index holds initially.
LEMMA InitTraceTyped == TraceInit => TraceTypeOK
BY DEF TraceInit, TraceTypeOK, Sources

\* Every variable of the trace index keeps its type, in every behaviour.
THEOREM TraceTyped == TraceSpec => []TraceTypeOK
BY InitTraceTyped, TraceTypeInductive, PTL DEF TraceSpec

\* Wherever the id of a trace has got from a worker (a run about to prime its
\* entry, an entry, a read on its way to look), the trace is there; so no
\* read that has it from a worker comes to make one up.
WorkersTraceIsThere ==
    /\ run # {} => trace # "none"
    /\ \A t \in Tickers : named[t] = "worker" => trace # "none"
    /\ \A r \in Readers :
          reader[r].from = "worker" =>
              /\ reader[r].pc = "look" => trace # "none"
              /\ reader[r].pc # "make"

\* A trace that is there may be replaced but is never taken away.
LEMMA TraceStays ==
    ASSUME TraceTypeOK, [TraceNext]_traceVars
    PROVE  trace # "none" => trace' # "none"
BY DEF TraceNext, Record, Prime, PrimeFails, Quarantine, Rename, StoreNamed,
   Learn, Look, Make, traceVars

\* What a worker does first is to record.
LEMMA WorkersTraceInductive ==
    ASSUME TraceTypeOK, WorkersTraceIsThere, [TraceNext]_traceVars
    PROVE  WorkersTraceIsThere'
<1>1. trace # "none" => trace' # "none"
  BY TraceStays
<1>2. ASSUME NEW d \in Deliveries, NEW t \in Tickers, Record(d, t)
      PROVE  WorkersTraceIsThere'
  <2>1. trace' # "none" /\ reader' = reader
    BY <1>2 DEF Record
  <2>. QED
    BY <2>1 DEF WorkersTraceIsThere
<1>3. ASSUME NEW d \in Deliveries, NEW t \in Tickers,
             Prime(d, t) \/ PrimeFails(d, t)
      PROVE  WorkersTraceIsThere'
  <2>1. trace' # "none" /\ reader' = reader
    BY <1>3 DEF WorkersTraceIsThere, Prime, PrimeFails
  <2>. QED
    BY <2>1 DEF WorkersTraceIsThere
<1>4. ASSUME NEW r \in Readers, StoreNamed(r) \/ Learn(r)
      PROVE  WorkersTraceIsThere'
  <2>1. trace' = trace /\ run' = run
    BY <1>4 DEF StoreNamed, Learn
  <2>2. \A t \in Tickers : named'[t] = "worker" => named[t] = "worker"
    BY <1>4 DEF StoreNamed, Learn, TraceTypeOK
  <2>3. PICK s \in Sources :
           /\ reader' = [reader EXCEPT ![r] = [pc |-> "look", from |-> s]]
           /\ s = "worker" => \E t \in Tickers : named[t] = "worker"
    BY <1>4 DEF StoreNamed, Learn, Sources
  <2>4. reader'[r].from = s /\ reader'[r].pc = "look"
    BY <2>3 DEF TraceTypeOK
  <2>5. \A q \in Readers : q # r => reader'[q] = reader[q]
    BY <2>3 DEF TraceTypeOK
  <2>. QED
    BY <2>1, <2>2, <2>3, <2>4, <2>5 DEF WorkersTraceIsThere
<1>5. ASSUME NEW r \in Readers, Look(r) \/ Make(r)
      PROVE  WorkersTraceIsThere'
  <2>1. run' = run /\ named' = named
    BY <1>5 DEF Look, Make
  <2>2. reader \in [Readers -> [pc: {"idle", "look", "make"}, from: Sources]]
    BY DEF TraceTypeOK
  <2>3. PICK pc \in {"idle", "make"} :
           /\ reader' = [reader EXCEPT ![r].pc = pc]
           /\ pc = "make" => reader[r].pc = "look" /\ trace = "none"
    BY <1>5 DEF Look, Make
  <2>4. reader'[r].from = reader[r].from /\ reader'[r].pc = pc
    BY <2>2, <2>3
  <2>5. \A q \in Readers : q # r => reader'[q] = reader[q]
    BY <2>2, <2>3
  <2>. QED
    BY <1>1, <2>1, <2>3, <2>4, <2>5 DEF WorkersTraceIsThere
<1>6. CASE Quarantine \/ (\E t \in Tickers : Rename(t)) \/ UNCHANGED traceVars
  BY <1>1, <1>6
     DEF Quarantine, Rename, traceVars, TraceTypeOK, WorkersTraceIsThere
<1>. QED
  BY <1>2, <1>3, <1>4, <1>5, <1>6 DEF TraceNext

\* For any number of tickers, runs and reads: what a worker or a quarantine
\* recorded is replaced by a made-up trace only through a client that had
\* the trace id from elsewhere than a worker's write-through.
THEOREM RecordsAreKept == TraceSpec => RecordKept
<1>1. TraceInit => WorkersTraceIsThere
  BY DEF TraceInit, WorkersTraceIsThere
<1>2. ASSUME TraceTypeOK, WorkersTraceIsThere, [TraceNext]_traceVars
      PROVE  [Recorded /\ ~Recorded' =>
                 \E r \in Readers :
                     /\ reader[r].pc = "make" /\ reader[r].from = "client"
                     /\ reader'[r].pc = "idle"]_traceVars
  <2> SUFFICES ASSUME Recorded, ~Recorded'
               PROVE  \E r \in Readers :
                          /\ reader[r].pc = "make" /\ reader[r].from = "client"
                          /\ reader'[r].pc = "idle"
    OBVIOUS
  <2>1. PICK r \in Readers : Make(r)
    BY <1>2 DEF Recorded, TraceNext, Record, Prime, PrimeFails, Quarantine,
       Rename, StoreNamed, Learn, Look, traceVars
  <2>2. reader[r].pc = "make" /\ reader[r].from \in Sources /\ reader'[r].pc = "idle"
    BY <1>2, <2>1 DEF Make, TraceTypeOK
  <2>. QED
    BY <1>2, <2>2 DEF WorkersTraceIsThere, Sources
<1>. QED
  BY <1>1, <1>2, TraceTyped, WorkersTraceInductive, PTL DEF TraceSpec, RecordKept
=============================================================================
