---------------------------- MODULE MarketStore ----------------------------
(***************************************************************************)
(* The table market_pricing and its writers, for one ticker of             *)
(* TICKER_PROFILES: the live fetches of POST /ingest and of the poller     *)
(* (fetch_live_market_content), the backfill after a history read          *)
(* (auto_bootstrap_ticker_pricing), the seeding of main.py at start-up and *)
(* by /admin/seed-data, and the upserts of ProductionSeedManager.          *)
(*                                                                         *)
(* Transactions are PostgreSQL's at READ COMMITTED: a statement sees the   *)
(* rows committed when it starts, and an INSERT that meets the uncommitted *)
(* row of another transaction waits for it.  So what matters of a          *)
(* transaction is what it reads, step by step, and what it finds committed *)
(* when it commits: there its unique constraints decide.                   *)
(***************************************************************************)
EXTENDS Naturals, FiniteSets

CONSTANTS
    Jobs,         \* runs of fetch_live_market_content
    Boots,        \* runs of auto_bootstrap_ticker_pricing
    Seeds,        \* runs of _seed_historical_data_inline
    SeedBars,     \* times of the seeded bars: 16:00 UTC of the last 100 days
    Candles,      \* times of Yahoo's candles
    BenchBars,    \* times of ProductionSeedManager's bars: 20:00 UTC
    Bench         \* ProductionSeedManager as a writer

ASSUME MarketAssumption ==
    /\ SeedBars # {}
    /\ SeedBars \cap BenchBars = {}
    /\ Jobs \cap Seeds = {} /\ Boots \cap Seeds = {} /\ Jobs \cap Boots = {}
    /\ Bench \notin Jobs \cup Boots \cup Seeds

VARIABLES
    rows,         \* committed rows: the time of a bar and who wrote it
    known,        \* the ticker has its row in the table tickers
    job, boot, seed,  \* step and local variables of each run
    announced,    \* history: the bars broadcast to the sockets
    written       \* history: every row that was ever committed

marketVars == <<rows, known, job, boot, seed, announced, written>>

\* A datetime.now() is nobody else's: the job itself stands for it.
Times == SeedBars \cup Candles \cup BenchBars \cup Jobs
Writers == Jobs \cup Boots \cup Seeds \cup {Bench}
Bars == [time: Times, by: Writers]

MarketTypeOK ==
    /\ rows \subseteq Bars
    /\ known \in BOOLEAN
    /\ job \in [Jobs -> [pc: {"idle", "save", "announce", "done", "failed"},
                         time: Times, saw: BOOLEAN]]
    /\ boot \in [Boots -> [pc: {"idle", "save", "done"},
                           times: SUBSET Times, saw: BOOLEAN]]
    /\ seed \in [Seeds -> [pc: {"idle", "wipe", "select", "commit", "done"},
                           victims: SUBSET Bars, saw: BOOLEAN]]
    /\ announced \subseteq Bars
    /\ written \subseteq Bars

MarketInit ==
    /\ rows = {}
    /\ known \in BOOLEAN
    /\ job = [j \in Jobs |-> [pc |-> "idle", time |-> j, saw |-> FALSE]]
    /\ boot = [b \in Boots |-> [pc |-> "idle", times |-> {}, saw |-> FALSE]]
    /\ seed = [s \in Seeds |-> [pc |-> "idle", victims |-> {}, saw |-> FALSE]]
    /\ announced = {}
    /\ written = {}

Taken(R) == {r.time : r \in R}
BarsOf(T, w) == {[time |-> t, by |-> w] : t \in T}

\* Commit: the rows R replace the table, and the ticker is there with them.
Commit(R) ==
    /\ rows' = R
    /\ written' = written \cup R
    /\ known' = TRUE

\* A ticker that another transaction inserted since the SELECT is a conflict.
TickerConflict(saw) == known /\ ~saw

\* Bars of these times are deleted by an open transaction: an INSERT waits.
Locked(T) ==
    \E s \in Seeds :
        /\ seed[s].pc \in {"select", "commit"}
        /\ Taken(seed[s].victims) \cap T # {}

-----------------------------------------------------------------------------
(* fetch_live_market_content                                               *)

\* Yahoo's candle, or without one the payload's price at the current time;
\* then SELECT the ticker.
Fetch(j) ==
    /\ job[j].pc = "idle"
    /\ \E t \in Candles \cup {j} :
          job' = [job EXCEPT ![j] = [pc |-> "save", time |-> t, saw |-> known]]
    /\ UNCHANGED <<rows, known, boot, seed, announced, written>>

JobConflict(j) == TickerConflict(job[j].saw) \/ job[j].time \in Taken(rows)

\* Mutant: a stored bar is left as it is, and the new one announced
SaveOrSkip(j) ==
    /\ job[j].pc = "save"
    /\ ~TickerConflict(job[j].saw)
    /\ IF job[j].time \in Taken(rows)
       THEN UNCHANGED <<rows, known, written>>
       ELSE Commit(rows \cup BarsOf({job[j].time}, j))
    /\ job' = [job EXCEPT ![j].pc = "announce"]
    /\ UNCHANGED <<boot, seed, announced>>

Save(j) ==
    /\ job[j].pc = "save"
    /\ ~Locked({job[j].time})
    /\ ~JobConflict(j)
    /\ Commit(rows \cup BarsOf({job[j].time}, j))
    /\ job' = [job EXCEPT ![j].pc = "announce"]
    /\ UNCHANGED <<boot, seed, announced>>

\* IntegrityError: logged, and the run ends without a broadcast.
SaveRefused(j) ==
    /\ job[j].pc = "save"
    /\ ~Locked({job[j].time})
    /\ JobConflict(j)
    /\ job' = [job EXCEPT ![j].pc = "done"]
    /\ UNCHANGED <<rows, known, boot, seed, announced, written>>

Announce(j) ==
    /\ job[j].pc = "announce"
    /\ announced' = announced \cup BarsOf({job[j].time}, j)
    /\ job' = [job EXCEPT ![j].pc = "done"]
    /\ UNCHANGED <<rows, known, boot, seed, written>>

\* The database is out of reach, or the process dies.
JobFails(j) ==
    /\ job[j].pc \in {"save", "announce"}
    /\ job' = [job EXCEPT ![j].pc = "failed"]
    /\ UNCHANGED <<rows, known, boot, seed, announced, written>>

-----------------------------------------------------------------------------
(* auto_bootstrap_ticker_pricing                                           *)

BootSelect(b) ==
    /\ boot[b].pc = "idle"
    /\ \E T \in SUBSET Candles \ {{}} :
          boot' = [boot EXCEPT ![b] =
                     [pc |-> "save", times |-> T, saw |-> known]]
    /\ UNCHANGED <<rows, known, job, seed, announced, written>>

\* ON CONFLICT DO NOTHING spares the bars that are there.
BootSave(b) ==
    /\ boot[b].pc = "save"
    /\ ~Locked(boot[b].times)
    /\ IF TickerConflict(boot[b].saw)
       THEN UNCHANGED <<rows, known, written>>
       ELSE Commit(rows \cup BarsOf(boot[b].times \ Taken(rows), b))
    /\ boot' = [boot EXCEPT ![b].pc = "done"]
    /\ UNCHANGED <<job, seed, announced>>

BootFails(b) ==
    /\ boot[b].pc = "save"
    /\ boot' = [boot EXCEPT ![b].pc = "done"]
    /\ UNCHANGED <<rows, known, job, seed, announced, written>>

-----------------------------------------------------------------------------
(* _seed_historical_data_inline                                            *)

\* lifespan seeds an empty table; /admin/seed-data does not ask.
SeedStart(s) ==
    /\ seed[s].pc = "idle"
    /\ \/ seed' = [seed EXCEPT ![s].pc = "wipe"]
       \/ rows # {} /\ seed' = [seed EXCEPT ![s].pc = "done"]
    /\ UNCHANGED <<rows, known, job, boot, announced, written>>

\* Mutant: the DELETE is committed on its own
WipeCommitted(s) ==
    /\ seed[s].pc = "wipe"
    /\ rows' = {}
    /\ seed' = [seed EXCEPT ![s] = [@ EXCEPT !.pc = "select", !.victims = rows]]
    /\ UNCHANGED <<known, job, boot, announced, written>>

\* DELETE FROM market_pricing, uncommitted
Wipe(s) ==
    /\ seed[s].pc = "wipe"
    /\ seed' = [seed EXCEPT ![s] = [@ EXCEPT !.pc = "select", !.victims = rows]]
    /\ UNCHANGED <<rows, known, job, boot, announced, written>>

SeedSelect(s) ==
    /\ seed[s].pc = "select"
    /\ seed' = [seed EXCEPT ![s] = [@ EXCEPT !.pc = "commit", !.saw = known]]
    /\ UNCHANGED <<rows, known, job, boot, announced, written>>

Survivors(s) == rows \ seed[s].victims

SeedConflict(s) ==
    \/ TickerConflict(seed[s].saw)
    \/ SeedBars \cap Taken(Survivors(s)) # {}

\* Mutant: bars that are there are skipped, as the backfill does
SeedSaveSkipping(s) ==
    /\ seed[s].pc = "commit"
    /\ Commit(Survivors(s) \cup BarsOf(SeedBars \ Taken(Survivors(s)), s))
    /\ seed' = [seed EXCEPT ![s].pc = "done"]
    /\ UNCHANGED <<job, boot, announced>>

SeedSave(s) ==
    /\ seed[s].pc = "commit"
    /\ ~SeedConflict(s)
    /\ Commit(Survivors(s) \cup BarsOf(SeedBars, s))
    /\ seed' = [seed EXCEPT ![s].pc = "done"]
    /\ UNCHANGED <<job, boot, announced>>

\* A conflict, a failing call, or the death of the process: rolled back.
SeedRolledBack(s) ==
    /\ seed[s].pc \in {"select", "commit"}
    /\ seed' = [seed EXCEPT ![s].pc = "done"]
    /\ UNCHANGED <<rows, known, job, boot, announced, written>>

-----------------------------------------------------------------------------
\* ProductionSeedManager.run_seed: ON CONFLICT DO UPDATE, ticker included
RunSeed ==
    /\ BenchBars # {}
    /\ ~Locked(BenchBars)
    /\ Commit({r \in rows : r.time \notin BenchBars} \cup BarsOf(BenchBars, Bench))
    /\ UNCHANGED <<job, boot, seed, announced>>

MarketNext ==
    \/ \E j \in Jobs :
          Fetch(j) \/ Save(j) \/ SaveRefused(j) \/ Announce(j) \/ JobFails(j)
    \/ \E b \in Boots : BootSelect(b) \/ BootSave(b) \/ BootFails(b)
    \/ \E s \in Seeds :
          \/ SeedStart(s) \/ Wipe(s) \/ SeedSelect(s)
          \/ SeedSave(s) \/ SeedRolledBack(s)
    \/ RunSeed

MarketSpec == MarketInit /\ [][MarketNext]_marketVars

-----------------------------------------------------------------------------
(* Properties.                                                             *)

\* The sockets are told only of bars that the run itself had committed: a
\* run that lost to another writer of the same time announces nothing.
AnnouncedWasStored == announced \subseteq written

\* The seeded prices in the table are one run's whole series, whatever runs
\* overlap: start-ups of several processes, re-seeding, backfills and live
\* fetches between the DELETE of a run and its commit.
OneSeedSeries ==
    \A r \in rows : r.by \in Seeds =>
        /\ BarsOf(SeedBars, r.by) \subseteq rows
        /\ \A q \in rows : q.by \in Seeds => q.by = r.by

\* Re-seeding a table in use never shows it empty to the readers.
NeverEmptied == [][rows # {} => rows' # {}]_rows

\* "Fetches real OHLCV data from Yahoo Finance, then persists to PostgreSQL
\* and broadcasts via WebSocket" (docstring of fetch_live_market_content):
\* a run that found its ticker in the table, and that no fault stopped, has
\* broadcast a bar.
FetchedIsAnnounced ==
    \A j \in Jobs :
        job[j].pc = "done" /\ job[j].saw => \E f \in announced : f.by = j
=============================================================================
