----------------------------- MODULE TraceIndex -----------------------------
(***************************************************************************)
(* The key trace:{trace_id} of one trace id and everybody who writes it:   *)
(* workers, which set it to their job's result, quarantines, which set it  *)
(* to the dead-letter snapshot, and reads, which make a trace up if they   *)
(* find none: _index_trace_snapshot of app/core/cache.py for the trace its *)
(* payload names, GET /trace/{trace_id} for the trace it is asked about.   *)
(* The jobs of a batch share one trace id, and each writes through to the  *)
(* cache entry of its own ticker.                                          *)
(*                                                                         *)
(* A trace lives for an hour, an entry for five minutes and a read for     *)
(* seconds: a trace is taken to outlive the entries that name it.          *)
(***************************************************************************)
CONSTANTS
    Tickers,      \* tickers whose cache entry may name the trace
    Deliveries,   \* runs of the batch's jobs that can be under way at a time
    Readers       \* requests that can be under way at a time

VARIABLES
    trace,        \* what the key holds
    named,        \* per ticker: who put the trace id into its cache entry
    run,          \* runs that have recorded and not primed yet, and where
    reader        \* step of each read, and whom it has the trace id from

traceVars == <<trace, named, run, reader>>

Sources == {"client", "worker"}

TraceTypeOK ==
    /\ trace \in {"none", "made up", "result", "dead-lettered"}
    /\ named \in [Tickers -> Sources \cup {"none"}]
    /\ run \subseteq Deliveries \X Tickers
    /\ reader \in [Readers -> [pc: {"idle", "look", "make"}, from: Sources]]

TraceInit ==
    /\ trace = "none"
    /\ named = [t \in Tickers |-> "none"]
    /\ run = {}
    /\ reader = [r \in Readers |-> [pc |-> "idle", from |-> "client"]]

-----------------------------------------------------------------------------
(* The workers, at each delivery of a job.                                 *)

\* run_intelligence_worker records the trace of its job for ticker t ...
Record(d, t) ==
    /\ \A u \in Tickers : <<d, u>> \notin run
    /\ trace' = "result"
    /\ run' = run \cup {<<d, t>>}
    /\ UNCHANGED <<named, reader>>

\* Mutant: the entry is primed by a run that has not recorded its trace yet
PrimeFirst(d, t) ==
    /\ named' = [named EXCEPT ![t] = "worker"]
    /\ UNCHANGED <<trace, run, reader>>

\* ... and then primes the entry (its own indexing finds the trace),
Prime(d, t) ==
    /\ <<d, t>> \in run
    /\ named' = [named EXCEPT ![t] = "worker"]
    /\ run' = run \ {<<d, t>>}
    /\ UNCHANGED <<trace, reader>>

\* unless it dies or the SET of the entry raises.
PrimeFails(d, t) ==
    /\ <<d, t>> \in run
    /\ run' = run \ {<<d, t>>}
    /\ UNCHANGED <<trace, named, reader>>

\* The quarantine branch of _process_single_message writes its own snapshot
\* over whatever is there, that of another job of the batch included.
Quarantine ==
    /\ trace' = "dead-lettered"
    /\ UNCHANGED <<named, run, reader>>

-----------------------------------------------------------------------------
(* The cache entries.                                                      *)

\* A read that carries the trace id (X-Trace-ID, traceparent) stores a
\* baseline under it and goes on to index it.
StoreNamed(r) ==
    /\ reader[r].pc = "idle"
    /\ \E t \in Tickers : named' = [named EXCEPT ![t] = "client"]
    /\ reader' = [reader EXCEPT ![r] = [pc |-> "look", from |-> "client"]]
    /\ UNCHANGED <<trace, run>>

\* The entry expires, is invalidated, or is replaced by one that names
\* another trace.
Rename(t) ==
    /\ named' = [named EXCEPT ![t] = "none"]
    /\ UNCHANGED <<trace, run, reader>>

-----------------------------------------------------------------------------
(* The reads.                                                              *)

\* A hit learns the trace id from the entry and is about to index it; so is
\* a client that asks GET /trace with the id it got from a hit.  One that
\* submitted the jobs, or made the id up, has it without reading.
Learn(r) ==
    /\ reader[r].pc = "idle"
    /\ \E s \in Sources :
          /\ s = "client" \/ \E t \in Tickers : named[t] = s
          /\ reader' = [reader EXCEPT ![r] = [pc |-> "look", from |-> s]]
    /\ UNCHANGED <<trace, named, run>>

\* EXISTS of the index, GET of the route.  Only a read that finds nothing
\* goes on, unless Redis fails, or the route finds the job in the
\* dead-letter stream, or an id no trace id can be.
Look(r) ==
    /\ reader[r].pc = "look"
    /\ \/ /\ trace = "none"
          /\ reader' = [reader EXCEPT ![r].pc = "make"]
       \/ reader' = [reader EXCEPT ![r].pc = "idle"]
    /\ UNCHANGED <<trace, named, run>>

\* SET, whatever the key holds by now, or a failure, which both ignore
Make(r) ==
    /\ reader[r].pc = "make"
    /\ trace' \in {"made up", trace}
    /\ reader' = [reader EXCEPT ![r].pc = "idle"]
    /\ UNCHANGED <<named, run>>

-----------------------------------------------------------------------------
TraceNext ==
    \/ \E d \in Deliveries, t \in Tickers :
          Record(d, t) \/ Prime(d, t) \/ PrimeFails(d, t)
    \/ Quarantine
    \/ \E t \in Tickers : Rename(t)
    \/ \E r \in Readers : StoreNamed(r) \/ Learn(r) \/ Look(r) \/ Make(r)

TraceSpec == TraceInit /\ [][TraceNext]_traceVars

-----------------------------------------------------------------------------
Recorded == trace \in {"result", "dead-lettered"}

\* A made-up trace replaces the record of a job, of a sibling in its batch or
\* of a quarantine only by a read whose client had the trace id before the
\* job's end, or met it in an entry such a client stored: a read that learns
\* the id from what a worker wrote through never undoes a record, although
\* look and write are two calls and entries of other tickers name the trace.
RecordKept ==
    [][Recorded /\ ~Recorded' =>
          \E r \in Readers :
              /\ reader[r].pc = "make" /\ reader[r].from = "client"
              /\ reader'[r].pc = "idle"]_traceVars
=============================================================================
