---------------------------- MODULE HistoryCache ----------------------------
(***************************************************************************)
(* _YF_HISTORY_CACHE of app/routers/market.py, one key of it (ticker and   *)
(* interval), and the requests of GET /history/{ticker} that use it: each  *)
(* runs _fetch_yfinance_history_sync in a thread, which takes the time     *)
(* before it looks up the entry and long before it stores one, then reads  *)
(* the database and merges the latest row into the last candle.            *)
(*                                                                         *)
(* The list a request merges into is the cached one, or was when it got    *)
(* it: list() copies the list and not its candles.  A list is modelled by  *)
(* when Yahoo was asked for it and when the source of its last candle      *)
(* was, Yahoo or the database.                                             *)
(***************************************************************************)
EXTENDS Naturals

CONSTANTS
    Threads,      \* requests for the history under way
    Ttl,          \* ttl: 30 s, or 120 s for daily candles
    MaxNow        \* bound: last value of the clock

ASSUME HistoryAssumption == Ttl \in Nat \ {0} /\ MaxNow \in Nat

VARIABLES
    now,          \* the clock
    cached,       \* the entry: stamp, and ages of its list and last candle
    thread        \* step and local variables of each request

historyVars == <<now, cached, thread>>

NoRecords == [stamp |-> 0, asOf |-> 0, live |-> 0]
NoRequestYet == [pc |-> "idle", now |-> 0, asOf |-> 0, row |-> 0, shares |-> FALSE]

\* now: taken before the lookup; asOf: when Yahoo answered; row: when the
\* database was read; shares: is its list the cached one?
ThreadStates ==
    [pc: {"idle", "lookup", "fetch", "store", "stale", "read", "merge"},
     now: Nat, asOf: Nat, row: Nat, shares: BOOLEAN]

HistoryTypeOK ==
    /\ now \in Nat
    /\ cached \in [stamp: Nat, asOf: Nat, live: Nat]
    /\ thread \in [Threads -> ThreadStates]

HistoryInit ==
    /\ now = 1
    /\ cached = NoRecords
    /\ thread = [t \in Threads |-> NoRequestYet]

Present == cached # NoRecords
Fresh(t) == Present /\ thread[t].now < cached.stamp + Ttl
Return(t) == thread' = [thread EXCEPT ![t] = NoRequestYet]

\* The request goes on with the cached list itself.
TakeCached(t) ==
    thread' = [thread EXCEPT ![t] = [@ EXCEPT !.pc = "read", !.shares = TRUE]]

-----------------------------------------------------------------------------
(* _fetch_yfinance_history_sync, in a thread.                              *)

TakeTime(t) ==
    /\ thread[t].pc = "idle"
    /\ thread' = [thread EXCEPT ![t] = [@ EXCEPT !.pc = "lookup", !.now = now]]
    /\ UNCHANGED <<now, cached>>

\* Under the lock: an entry younger than the TTL is the answer.
Hit(t) ==
    /\ thread[t].pc = "lookup"
    /\ Fresh(t)
    /\ TakeCached(t)
    /\ UNCHANGED <<now, cached>>

Miss(t) ==
    /\ thread[t].pc = "lookup"
    /\ ~Fresh(t)
    /\ thread' = [thread EXCEPT ![t].pc = "fetch"]
    /\ UNCHANGED <<now, cached>>

YahooAnswers(t) ==
    /\ thread[t].pc = "fetch"
    /\ thread' = [thread EXCEPT ![t] = [@ EXCEPT !.pc = "store", !.asOf = now]]
    /\ UNCHANGED <<now, cached>>

\* An exception, or no candle at all
YahooFails(t) ==
    /\ thread[t].pc = "fetch"
    /\ thread' = [thread EXCEPT ![t].pc = "stale"]
    /\ UNCHANGED <<now, cached>>

\* Under the lock again; the stamp is the time taken before the lookup, and
\* a slow request overwrites what a faster one has stored.  Whoever had the
\* list that was there goes on with a list of its own.
Store(t) ==
    /\ thread[t].pc = "store"
    /\ cached' = [stamp |-> thread[t].now, asOf |-> thread[t].asOf, live |-> thread[t].asOf]
    /\ thread' = [u \in Threads |->
                     IF u = t THEN [thread[t] EXCEPT !.pc = "read", !.shares = TRUE]
                     ELSE [thread[u] EXCEPT !.shares = FALSE]]
    /\ UNCHANGED now

\* The entry of any age, whose stamp is not renewed; without one, whatever
\* the database has
ReturnStale(t) ==
    /\ thread[t].pc = "stale"
    /\ IF Present THEN TakeCached(t) ELSE Return(t)
    /\ UNCHANGED <<now, cached>>

-----------------------------------------------------------------------------
(* get_market_history, in the event loop.                                  *)

\* Mutant: the database is queried as early as Yahoo (asyncio.gather)
ReadRowsEarly(t) ==
    /\ thread[t].pc = "read"
    /\ thread' = [thread EXCEPT ![t] = [@ EXCEPT !.pc = "merge", !.row = thread[t].now]]
    /\ UNCHANGED <<now, cached>>

\* The rows of the ticker, the latest of which is of the last candle's time
ReadRows(t) ==
    /\ thread[t].pc = "read"
    /\ thread' = [thread EXCEPT ![t] = [@ EXCEPT !.pc = "merge", !.row = now]]
    /\ UNCHANGED <<now, cached>>

\* The query fails, or no row is of that time: the list is the answer.
NothingToMerge(t) ==
    /\ thread[t].pc = "read"
    /\ Return(t)
    /\ UNCHANGED <<now, cached>>

\* The row is written into the candle, without the lock and however long ago
\* it was read; if the candle is a cached one, so into the cache.
Merge(t) ==
    /\ thread[t].pc = "merge"
    /\ cached' = IF thread[t].shares
                 THEN [cached EXCEPT !.live = thread[t].row]
                 ELSE cached
    /\ Return(t)
    /\ UNCHANGED now

Elapse ==
    /\ now < MaxNow
    /\ now' = now + 1
    /\ UNCHANGED <<cached, thread>>

-----------------------------------------------------------------------------
HistoryNext ==
    \/ \E t \in Threads :
          \/ TakeTime(t) \/ Hit(t) \/ Miss(t) \/ YahooAnswers(t)
          \/ YahooFails(t) \/ Store(t) \/ ReturnStale(t)
          \/ ReadRows(t) \/ NothingToMerge(t) \/ Merge(t)
    \/ Elapse

HistorySpec == HistoryInit /\ [][HistoryNext]_historyVars

-----------------------------------------------------------------------------
\* What is given out from the cache as fresh was asked for within the TTL,
\* the candles of Yahoo and the merged last one alike: however long fetches
\* take, in whatever order threads store theirs, and although requests write
\* rows into the cached candle that they read before others merged later ones
\* (the last candle may go back in time, but not to before its list).
HitIsFresh ==
    [][\A t \in Threads :
          thread[t].pc = "lookup" /\ thread'[t].pc = "read" =>
              /\ thread[t].now < cached.asOf + Ttl
              /\ thread[t].now < cached.live + Ttl]_historyVars
=============================================================================
