----------------------------- MODULE CacheAside -----------------------------
(***************************************************************************)
(* CacheAsideManager of app/core/cache.py for one ticker: concurrent       *)
(* GET /results requests in any number of API processes, the lease lock    *)
(* that keeps them from all querying the database, the workers' write-     *)
(* through of one job's analysis and the invalidation route.               *)
(*                                                                         *)
(* A request has a fresh uuid4 as lock token, so its name stands for it.   *)
(* Lease, cache entry and waiting time may run out at any moment: the code *)
(* bounds how long a query takes by none of them.  A payload is the job's  *)
(* analysis or a baseline made from the database.  What reads write under  *)
(* trace:{trace_id} is the subject of TraceIndex; here it is a step in     *)
(* which the request still holds its lease.                                *)
(***************************************************************************)
CONSTANTS Requests, NoRequest

ASSUME CacheAssumption == NoRequest \notin Requests

VARIABLES
    entry,         \* cache:intel:{ticker}
    lock,          \* token under lock:intel:{ticker}, or NoRequest
    purging,       \* between the two DELs of invalidate?
    req,           \* step of each request, and has it taken the lock?
    lost,          \* history: leaders whose lease expired or was deleted
    excused        \* history: requests that may replace the last analysis

cacheVars == <<entry, lock, purging, req, lost, excused>>

PC == {"idle", "lookup", "lock", "fetch", "store", "index",
       "release", "wait", "done", "failed", "dead"}

CacheTypeOK ==
    /\ entry \in {"none", "baseline", "analysis"}
    /\ lock \in Requests \cup {NoRequest}
    /\ purging \in BOOLEAN
    /\ req \in [Requests -> [pc: PC, leader: BOOLEAN]]
    /\ lost \in SUBSET Requests
    /\ excused \in SUBSET Requests

CacheInit ==
    /\ entry = "none"
    /\ lock = NoRequest
    /\ purging = FALSE
    /\ req = [r \in Requests |-> [pc |-> "idle", leader |-> FALSE]]
    /\ lost = {}
    /\ excused = {}

At(r, pc) == req[r].pc = pc
Proceed(r, pc) == req' = [req EXCEPT ![r].pc = pc]

Primed == entry # "none"

-----------------------------------------------------------------------------
(* get_cached_result, a step for every await.                              *)

\* The request arrives; ?refresh=true goes straight to the database
Arrive(r) ==
    /\ At(r, "idle")
    /\ \E pc \in {"lookup", "fetch"} :
          /\ Proceed(r, pc)
          /\ excused' = IF pc = "fetch" THEN excused \cup {r} ELSE excused
    /\ UNCHANGED <<entry, purging, lock, lost>>

\* The answer is out once the trace its payload names is indexed.
AnswerCached(r) == Proceed(r, "index")

\* Mutant: only a waiter looks into the cache
LookupBlind(r) ==
    /\ At(r, "lookup")
    /\ Proceed(r, "lock")
    /\ UNCHANGED <<entry, purging, lock, lost, excused>>

\* An entry whose TTL cannot be queried counts as a miss.
Lookup(r) ==
    /\ At(r, "lookup")
    /\ \/ Proceed(r, "lock") /\ excused' = excused \cup (IF Primed THEN {r} ELSE {})
       \/ Primed /\ AnswerCached(r) /\ UNCHANGED excused
    /\ UNCHANGED <<entry, purging, lock, lost>>

\* SET lock token NX EX
AcquireLock(r) ==
    /\ At(r, "lock")
    /\ IF lock = NoRequest
       THEN /\ lock' = r
            /\ req' = [req EXCEPT ![r] = [pc |-> "fetch", leader |-> TRUE]]
       ELSE Proceed(r, "wait") /\ UNCHANGED lock
    /\ UNCHANGED <<entry, purging, lost, excused>>

\* _fetch_from_database
QueryDatabase(r) ==
    /\ At(r, "fetch")
    /\ Proceed(r, "store")
    /\ UNCHANGED <<entry, purging, lock, lost, excused>>

\* set_cached_result by the leader, a forced refresh or a timed-out waiter
StoreBaseline(r) ==
    /\ At(r, "store")
    /\ entry' = "baseline"
    /\ Proceed(r, "index")
    /\ UNCHANGED <<purging, lock, lost, excused>>

\* _index_trace_snapshot, whose failure is only logged
IndexTrace(r) ==
    /\ At(r, "index")
    /\ Proceed(r, IF req[r].leader THEN "release" ELSE "done")
    /\ UNCHANGED <<entry, purging, lock, lost, excused>>

\* Redis fails before the request is a leader.  The SET of the lock may have
\* been executed all the same, then nobody owns what it took.
RedisFails(r) ==
    /\ req[r].pc \in {"lookup", "lock", "wait"}
    /\ \/ UNCHANGED lock
       \/ At(r, "lock") /\ lock = NoRequest /\ lock' = r
    /\ Proceed(r, "failed")
    /\ UNCHANGED <<entry, purging, lost, excused>>

\* The query or the SET raises: the leader's finally still runs.
Fails(r) ==
    /\ At(r, "fetch") \/ At(r, "store")
    /\ Proceed(r, IF req[r].leader THEN "release" ELSE "failed")
    /\ UNCHANGED <<entry, purging, lock, lost, excused>>

\* Mutant: DEL without comparing the token
ReleaseAnyLock(r) ==
    /\ At(r, "release")
    /\ lock' = NoRequest
    /\ Proceed(r, "done")
    /\ UNCHANGED <<entry, purging, lost, excused>>

\* LUA_RELEASE_LOCK
ReleaseLock(r) ==
    /\ At(r, "release")
    /\ lock' = IF lock = r THEN NoRequest ELSE lock
    /\ Proceed(r, "done")
    /\ UNCHANGED <<entry, purging, lost, excused>>

\* The EVAL fails, which is only logged
ReleaseFails(r) ==
    /\ At(r, "release")
    /\ Proceed(r, "done")
    /\ UNCHANGED <<entry, purging, lock, lost, excused>>

WaiterHit(r) ==
    /\ At(r, "wait")
    /\ Primed
    /\ AnswerCached(r)
    /\ UNCHANGED <<entry, purging, lock, lost, excused>>

\* Mutant: a waiter polls until somebody has primed the cache
WaiterPatient(r) == WaiterHit(r)

\* MUTEX_WAIT_TIMEOUT_SEC has passed: query the database without the lock
WaiterTimeout(r) ==
    /\ At(r, "wait")
    /\ Proceed(r, "fetch")
    /\ UNCHANGED <<entry, purging, lock, lost, excused>>

\* The API process of the request dies.
Dies(r) ==
    /\ req[r].pc \notin {"idle", "done", "failed", "dead"}
    /\ Proceed(r, "dead")
    /\ UNCHANGED <<entry, purging, lock, lost, excused>>

-----------------------------------------------------------------------------
(* Everybody else.                                                         *)

LoseLease == lost' = lost \cup ({lock} \ {NoRequest})

LeaseExpires ==
    /\ lock # NoRequest
    /\ lock' = NoRequest
    /\ LoseLease
    /\ UNCHANGED <<entry, purging, req, excused>>

EntryExpires ==
    /\ Primed
    /\ entry' = "none"
    /\ UNCHANGED <<purging, lock, req, lost, excused>>

\* invalidate deletes the lock, whoever holds it, ...
PurgeLock ==
    /\ ~purging
    /\ purging' = TRUE
    /\ lock' = NoRequest
    /\ LoseLease
    /\ UNCHANGED <<entry, req, excused>>

\* ... and then the entry.
PurgeEntry ==
    /\ purging
    /\ purging' = FALSE
    /\ entry' = "none"
    /\ UNCHANGED <<lock, req, lost, excused>>

\* The requests that have missed and not stored yet
Missed == {r \in Requests : req[r].pc \in {"lock", "wait", "fetch", "store"}}

\* run_intelligence_worker primes the cache, at each delivery of the job.
WriteThrough ==
    /\ entry' = "analysis"
    /\ excused' = Missed
    /\ UNCHANGED <<purging, lock, req, lost>>

-----------------------------------------------------------------------------
RequestStep(r) ==
    \/ Lookup(r) \/ AcquireLock(r) \/ QueryDatabase(r) \/ StoreBaseline(r)
    \/ IndexTrace(r) \/ Fails(r) \/ ReleaseLock(r) \/ ReleaseFails(r)
    \/ WaiterHit(r) \/ WaiterTimeout(r)

RequestFault(r) == RedisFails(r) \/ Dies(r)

Others ==
    LeaseExpires \/ EntryExpires \/ PurgeLock \/ PurgeEntry \/ WriteThrough

CacheNext ==
    \/ \E r \in Requests : Arrive(r) \/ RequestStep(r) \/ RequestFault(r)
    \/ Others

CacheSpec == CacheInit /\ [][CacheNext]_cacheVars

\* asyncio runs every ready request; nothing else is assumed to happen, in
\* particular no lease or entry needs to expire.
CacheFairness == \A r \in Requests : WF_cacheVars(RequestStep(r))

-----------------------------------------------------------------------------
(* Properties.                                                             *)

Fetching(r) == req[r].leader /\ (At(r, "fetch") \/ At(r, "store"))

\* A leader queries the database only while it holds the lock, or after the
\* server took its lease away: no release by an earlier leader and no timing
\* of lookups lets two requests believe in the same lease.
OnlyTheHolderFetches ==
    \A r \in Requests : Fetching(r) => lock = r \/ r \in lost

\* Whoever is about to replace the job's analysis by a baseline had missed
\* before that analysis was written, refreshes by force or could not read the
\* TTL: a read that comes after the write-through never undoes it.
LateReadsKeepAnalysis ==
    entry = "analysis" => Missed \subseteq excused

\* Every request is answered or fails, unless its process dies: a leader
\* that dies or loses its lease leaves no waiter behind.
EveryReadReturns ==
    \A r \in Requests :
        (req[r].pc # "idle") ~> (req[r].pc \in {"done", "failed", "dead"})
=============================================================================
