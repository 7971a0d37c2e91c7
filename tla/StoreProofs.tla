---------------------------- MODULE StoreProofs -----------------------------
(***************************************************************************)
(* Proofs about what the API keeps: MarketStore, for every number of runs  *)
(* of every writer and every set of bars; HistoryCache, for every number   *)
(* of threads; DocumentStore, for every number of documents, chunks and    *)
(* embedding runs; and Chunking, for every document, chunk length and      *)
(* overlap shorter than a chunk.                                           *)
(***************************************************************************)
EXTENDS MarketStore, HistoryCache, DocumentStore, Chunking, TLAPS

-----------------------------------------------------------------------------
(* The table of bars.                                                      *)

JobStates == [pc: {"idle", "save", "announce", "done", "failed"},
              time: Times, saw: BOOLEAN]
BootStates == [pc: {"idle", "save", "done"}, times: SUBSET Times, saw: BOOLEAN]
SeedStates == [pc: {"idle", "wipe", "select", "commit", "done"},
               victims: SUBSET Bars, saw: BOOLEAN]

\* A committed bar has a time and a writer.
LEMMA BarsTyped ==
    ASSUME NEW T \in SUBSET Times, NEW w \in Writers
    PROVE  BarsOf(T, w) \subseteq Bars
BY DEF BarsOf, Bars

\* Committing bars keeps the committed rows, now and before, typed.
LEMMA CommitTyped ==
    ASSUME MarketTypeOK, NEW R \in SUBSET Bars, Commit(R)
    PROVE  rows' \subseteq Bars /\ written' \subseteq Bars /\ known' \in BOOLEAN
BY DEF MarketTypeOK, Commit

\* A live fetch keeps everything typed.
LEMMA JobTyped ==
    ASSUME MarketTypeOK, NEW j \in Jobs,
           Fetch(j) \/ Save(j) \/ SaveRefused(j) \/ Announce(j) \/ JobFails(j)
    PROVE  MarketTypeOK'
<1> USE DEF MarketTypeOK
<1>1. CASE Fetch(j)
  <2>1. PICK t \in Candles \cup {j} :
           job' = [job EXCEPT ![j] = [pc |-> "save", time |-> t, saw |-> known]]
    BY <1>1 DEF Fetch
  <2>2. [pc |-> "save", time |-> t, saw |-> known] \in JobStates
    BY DEF JobStates, Times
  <2>3. job' \in [Jobs -> JobStates]
    BY <2>1, <2>2 DEF JobStates
  <2>. QED
    BY <1>1, <2>3 DEF Fetch, JobStates
<1>2. CASE Save(j)
  <2>1. BarsOf({job[j].time}, j) \subseteq Bars
    BY BarsTyped DEF Writers
  <2>2. rows' \subseteq Bars /\ written' \subseteq Bars /\ known' \in BOOLEAN
    BY <1>2, <2>1, CommitTyped DEF Save
  <2>. QED
    BY <1>2, <2>2 DEF Save
<1>3. CASE Announce(j)
  <2>1. BarsOf({job[j].time}, j) \subseteq Bars
    BY BarsTyped DEF Writers
  <2>2. job' \in [Jobs -> JobStates]
    BY <1>3 DEF Announce, JobStates
  <2>3. announced' \subseteq Bars
    BY <1>3, <2>1 DEF Announce
  <2>. QED
    BY <1>3, <2>2, <2>3 DEF Announce, JobStates
<1>4. CASE SaveRefused(j) \/ JobFails(j)
  <2>1. PICK pc \in {"done", "failed"} : job' = [job EXCEPT ![j].pc = pc]
    BY <1>4 DEF SaveRefused, JobFails
  <2>2. job' \in [Jobs -> JobStates]
    BY <2>1 DEF JobStates
  <2>. QED
    BY <1>4, <2>2 DEF SaveRefused, JobFails, JobStates
<1>. QED
  BY <1>1, <1>2, <1>3, <1>4

\* So does a backfill.
LEMMA BootTyped ==
    ASSUME MarketTypeOK, NEW b \in Boots,
           BootSelect(b) \/ BootSave(b) \/ BootFails(b)
    PROVE  MarketTypeOK'
<1> USE DEF MarketTypeOK
<1>1. CASE BootSelect(b)
  <2>1. PICK T \in SUBSET Candles \ {{}} :
           boot' = [boot EXCEPT ![b] =
                      [pc |-> "save", times |-> T, saw |-> known]]
    BY <1>1 DEF BootSelect
  <2>2. [pc |-> "save", times |-> T, saw |-> known] \in BootStates
    BY DEF BootStates, Times
  <2>3. boot' \in [Boots -> BootStates]
    BY <2>1, <2>2 DEF BootStates
  <2>. QED
    BY <1>1, <2>3 DEF BootSelect, BootStates
<1>2. CASE BootSave(b)
  <2>1. BarsOf(boot[b].times \ Taken(rows), b) \subseteq Bars
    BY BarsTyped DEF Writers
  <2>2. rows' \subseteq Bars /\ written' \subseteq Bars /\ known' \in BOOLEAN
    BY <1>2, <2>1, CommitTyped DEF BootSave
  <2>. QED
    BY <1>2, <2>2 DEF BootSave
<1>3. CASE BootFails(b)
  BY <1>3 DEF BootFails
<1>. QED
  BY <1>1, <1>2, <1>3

\* So do both kinds of seeding.
LEMMA SeedTyped ==
    ASSUME MarketTypeOK, NEW s \in Seeds,
           \/ SeedStart(s) \/ Wipe(s) \/ SeedSelect(s)
           \/ SeedSave(s) \/ SeedRolledBack(s)
    PROVE  MarketTypeOK'
<1> USE DEF MarketTypeOK
<1>1. CASE SeedStart(s) \/ Wipe(s) \/ SeedSelect(s) \/ SeedRolledBack(s)
  <2>1. seed' \in [Seeds -> SeedStates]
    <3>1. CASE SeedStart(s) \/ SeedRolledBack(s)
      <4>1. PICK pc \in {"wipe", "done"} : seed' = [seed EXCEPT ![s].pc = pc]
        BY <3>1 DEF SeedStart, SeedRolledBack
      <4>. QED
        BY <4>1 DEF SeedStates
    <3>2. CASE Wipe(s)
      <4>1. [seed[s] EXCEPT !.pc = "select", !.victims = rows] \in SeedStates
        BY DEF SeedStates
      <4>. QED
        BY <3>2, <4>1 DEF Wipe, SeedStates
    <3>3. CASE SeedSelect(s)
      <4>1. [seed[s] EXCEPT !.pc = "commit", !.saw = known] \in SeedStates
        BY DEF SeedStates
      <4>. QED
        BY <3>3, <4>1 DEF SeedSelect, SeedStates
    <3>. QED
      BY <1>1, <3>1, <3>2, <3>3
  <2>. QED
    BY <1>1, <2>1 DEF SeedStart, Wipe, SeedSelect, SeedRolledBack, SeedStates
<1>2. CASE SeedSave(s)
  <2>1. BarsOf(SeedBars, s) \subseteq Bars
    BY BarsTyped DEF Writers, Times
  <2>2. rows' \subseteq Bars /\ written' \subseteq Bars /\ known' \in BOOLEAN
    BY <1>2, <2>1, CommitTyped DEF SeedSave, Survivors
  <2>. QED
    BY <1>2, <2>2 DEF SeedSave
<1>. QED
  BY <1>1, <1>2

\* The upserts keep the types.
LEMMA RunSeedTyped == ASSUME MarketTypeOK, RunSeed PROVE MarketTypeOK'
<1> USE DEF MarketTypeOK
<1>1. BarsOf(BenchBars, Bench) \subseteq Bars
  BY BarsTyped DEF Writers, Times
<1>2. rows' \subseteq Bars /\ written' \subseteq Bars /\ known' \in BOOLEAN
  BY <1>1, CommitTyped DEF RunSeed
<1>. QED
  BY <1>2 DEF RunSeed

-----------------------------------------------------------------------------
(* Seeded prices.                                                          *)

\* Seeded prices are of the seeded times.
SeedTimes == \A r \in rows : r.by \in Seeds => r.time \in SeedBars

\* A run that is about to announce its bar has committed it.
Committed ==
    \A j \in Jobs : job[j].pc = "announce" =>
        [time |-> job[j].time, by |-> j] \in written

MarketIInv ==
    /\ MarketTypeOK
    /\ SeedTimes
    /\ OneSeedSeries
    /\ Committed
    /\ AnnouncedWasStored

\* The invariant holds before the first step.
LEMMA InitMarketIInv == MarketInit => MarketIInv
BY DEF MarketInit, MarketIInv, MarketTypeOK, Times, SeedTimes, OneSeedSeries,
   Committed, AnnouncedWasStored

\* Rows of writers that do not seed, and the loss of bars of other times,
\* leave the seeded series as they are.
LEMMA SeriesKept ==
    ASSUME SeedTimes, OneSeedSeries,
           \A r \in rows' : r.by \in Seeds => r \in rows,
           \A r \in rows : r.time \in SeedBars => r \in rows'
    PROVE  SeedTimes' /\ OneSeedSeries'
BY DEF SeedTimes, OneSeedSeries, BarsOf

\* A run of the seeding commits its series where no other is left.
LEMMA SeriesReplaced ==
    ASSUME SeedTimes, NEW s \in Seeds, SeedSave(s)
    PROVE  SeedTimes' /\ OneSeedSeries'
<1>1. rows' = Survivors(s) \cup BarsOf(SeedBars, s)
  BY DEF SeedSave, Commit
<1>2. \A r \in Survivors(s) : r.by \notin Seeds
  BY DEF SeedSave, SeedConflict, Taken, Survivors, SeedTimes
<1>3. \A r \in BarsOf(SeedBars, s) : r.by = s /\ r.time \in SeedBars
  BY DEF BarsOf
<1>4. \A r \in rows' : r.by \in Seeds => r.by = s /\ r.time \in SeedBars
  BY <1>1, <1>2, <1>3
<1>. QED
  BY <1>1, <1>4 DEF SeedTimes, OneSeedSeries

\* The history of committed rows only grows.
LEMMA WrittenGrows == [MarketNext]_marketVars => written \subseteq written'
BY DEF MarketNext, marketVars, Commit, Fetch, Save, SaveRefused, Announce,
   JobFails, BootSelect, BootSave, BootFails, SeedStart, Wipe, SeedSelect,
   SeedSave, SeedRolledBack, RunSeed

\* The steps of a live fetch.
LEMMA JobKeeps ==
    ASSUME MarketIInv, NEW j \in Jobs,
           Fetch(j) \/ Save(j) \/ SaveRefused(j) \/ Announce(j) \/ JobFails(j)
    PROVE  MarketIInv'
<1> USE DEF MarketIInv
<1>1. MarketTypeOK'
  BY JobTyped
<1>2. SeedTimes' /\ OneSeedSeries'
  <2>1. rows \subseteq rows' /\ rows' \subseteq rows \cup BarsOf({job[j].time}, j)
    BY DEF Fetch, Save, SaveRefused, Announce, JobFails, Commit
  <2>2. \A r \in BarsOf({job[j].time}, j) : r.by \notin Seeds
    BY MarketAssumption DEF BarsOf
  <2>. QED
    BY <2>1, <2>2, SeriesKept
<1>3. Committed' /\ AnnouncedWasStored'
  <2>1. CASE Save(j)
    <3>1. [time |-> job[j].time, by |-> j] \in written'
      BY <2>1 DEF Save, Commit, BarsOf
    <3>2. written \subseteq written' /\ announced' = announced
      BY <2>1 DEF Save, Commit
    <3>3. \A i \in Jobs : job'[i].time = job[i].time /\ (i # j => job'[i] = job[i])
      BY <2>1 DEF Save, MarketTypeOK
    <3>. QED
      BY <3>1, <3>2, <3>3 DEF Committed, AnnouncedWasStored
  <2>2. CASE Announce(j)
    <3>1. BarsOf({job[j].time}, j) \subseteq written
      BY <2>2 DEF Announce, BarsOf, Committed
    <3>. QED
      BY <2>2, <3>1 DEF Announce, Committed, AnnouncedWasStored, MarketTypeOK
  <2>3. CASE Fetch(j) \/ SaveRefused(j) \/ JobFails(j)
    <3>1. \A i \in Jobs : job'[i].pc = "announce" => job'[i] = job[i]
      BY <2>3 DEF Fetch, SaveRefused, JobFails, MarketTypeOK
    <3>2. written' = written /\ announced' = announced
      BY <2>3 DEF Fetch, SaveRefused, JobFails
    <3>. QED
      BY <3>1, <3>2 DEF Committed, AnnouncedWasStored
  <2>. QED
    BY <2>1, <2>2, <2>3
<1>. QED
  BY <1>1, <1>2, <1>3

\* Of the other writers only the seeding replaces the seeded series.
LEMMA WritersKeep ==
    ASSUME MarketIInv, MarketNext,
           \/ \E b \in Boots : BootSelect(b) \/ BootSave(b) \/ BootFails(b)
           \/ \E s \in Seeds :
                 \/ SeedStart(s) \/ Wipe(s) \/ SeedSelect(s)
                 \/ SeedSave(s) \/ SeedRolledBack(s)
           \/ RunSeed
    PROVE  MarketIInv'
<1> USE DEF MarketIInv
<1>1. MarketTypeOK'
  BY BootTyped, SeedTyped, RunSeedTyped
<1>2. SeedTimes' /\ OneSeedSeries'
  <2>1. ASSUME NEW b \in Boots, BootSelect(b) \/ BootSave(b) \/ BootFails(b)
        PROVE  SeedTimes' /\ OneSeedSeries'
    <3>1. rows \subseteq rows' /\ rows' \subseteq
              rows \cup BarsOf(boot[b].times \ Taken(rows), b)
      BY <2>1 DEF BootSelect, BootSave, BootFails, Commit
    <3>2. \A r \in BarsOf(boot[b].times \ Taken(rows), b) : r.by \notin Seeds
      BY MarketAssumption DEF BarsOf
    <3>. QED
      BY <3>1, <3>2, SeriesKept
  <2>2. ASSUME NEW s \in Seeds, SeedStart(s) \/ Wipe(s) \/ SeedSelect(s)
                                   \/ SeedRolledBack(s)
        PROVE  SeedTimes' /\ OneSeedSeries'
    <3>1. rows' = rows
      BY <2>2 DEF SeedStart, Wipe, SeedSelect, SeedRolledBack
    <3>. QED
      BY <3>1, SeriesKept
  <2>3. ASSUME RunSeed PROVE SeedTimes' /\ OneSeedSeries'
    <3>1. \A r \in BarsOf(BenchBars, Bench) : r.by \notin Seeds
      BY MarketAssumption DEF BarsOf
    <3>2. \A r \in rows : r.time \in SeedBars => r \in rows'
      BY <2>3, MarketAssumption DEF RunSeed, Commit
    <3>3. \A r \in rows' : r.by \in Seeds => r \in rows
      BY <2>3, <3>1 DEF RunSeed, Commit
    <3>. QED
      BY <3>2, <3>3, SeriesKept
  <2>. QED
    BY <2>1, <2>2, <2>3, SeriesReplaced
<1>3. job' = job /\ announced' = announced
  BY DEF BootSelect, BootSave, BootFails, SeedStart, Wipe, SeedSelect, SeedSave,
     SeedRolledBack, RunSeed
<1>4. Committed' /\ AnnouncedWasStored'
  BY <1>3, WrittenGrows DEF Committed, AnnouncedWasStored
<1>. QED
  BY <1>1, <1>2, <1>4

\* Every step keeps the invariant, and so does standing still.
LEMMA MarketInductive == MarketIInv /\ [MarketNext]_marketVars => MarketIInv'
<1> SUFFICES ASSUME MarketIInv, [MarketNext]_marketVars PROVE MarketIInv'
  OBVIOUS
<1>1. CASE UNCHANGED marketVars
  BY <1>1 DEF marketVars, MarketIInv, MarketTypeOK, SeedTimes, OneSeedSeries,
     Committed, AnnouncedWasStored
<1>2. CASE MarketNext
  BY <1>2, JobKeeps, WritersKeep DEF MarketNext
<1>. QED
  BY <1>1, <1>2

\* The invariant holds throughout.
LEMMA MarketInvariant == MarketSpec => []MarketIInv
BY InitMarketIInv, MarketInductive, PTL DEF MarketSpec

\* Whatever the writers do, rows, announcements and bookkeeping are well formed.
THEOREM MarketTyped == MarketSpec => []MarketTypeOK
<1>1. MarketIInv => MarketTypeOK
  BY DEF MarketIInv
<1>. QED
  BY <1>1, MarketInvariant, PTL

\* At any time the seeded prices in the table are the whole series of one
\* run, however many runs and other writers overlap.
THEOREM OneSeriesAlways == MarketSpec => []OneSeedSeries
<1>1. MarketIInv => OneSeedSeries
  BY DEF MarketIInv
<1>. QED
  BY <1>1, MarketInvariant, PTL

\* The sockets are told of committed bars only.
THEOREM AnnouncedIsStored == MarketSpec => []AnnouncedWasStored
<1>1. MarketIInv => AnnouncedWasStored
  BY DEF MarketIInv
<1>. QED
  BY <1>1, MarketInvariant, PTL

\* No writer's commit empties the table of a ticker.
THEOREM TableNeverEmptied == MarketSpec => NeverEmptied
<1>1. [MarketNext]_marketVars => [rows # {} => rows' # {}]_rows
  <2> SUFFICES ASSUME MarketNext, rows # {} PROVE rows' # {}
    BY DEF marketVars
  <2>1. ASSUME NEW j \in Jobs,
               Fetch(j) \/ Save(j) \/ SaveRefused(j) \/ Announce(j) \/ JobFails(j)
        PROVE  rows' # {}
    BY <2>1 DEF Fetch, Save, SaveRefused, Announce, JobFails, Commit
  <2>2. ASSUME NEW b \in Boots, BootSelect(b) \/ BootSave(b) \/ BootFails(b)
        PROVE  rows' # {}
    BY <2>2 DEF BootSelect, BootSave, BootFails, Commit
  <2>3. ASSUME NEW s \in Seeds,
               \/ SeedStart(s) \/ Wipe(s) \/ SeedSelect(s)
               \/ SeedSave(s) \/ SeedRolledBack(s)
        PROVE  rows' # {}
    <3>1. PICK t : t \in SeedBars
      BY MarketAssumption
    <3>2. [time |-> t, by |-> s] \in BarsOf(SeedBars, s)
      BY <3>1 DEF BarsOf
    <3>. QED
      BY <2>3, <3>2 DEF SeedStart, Wipe, SeedSelect, SeedSave, SeedRolledBack,
         Commit
  <2>4. CASE RunSeed
    BY <2>4 DEF RunSeed, Commit, BarsOf
  <2>. QED
    BY <2>1, <2>2, <2>3, <2>4 DEF MarketNext
<1>. QED
  BY <1>1, PTL DEF MarketSpec, NeverEmptied

-----------------------------------------------------------------------------
(* The cache of price histories.                                           *)

\* A list is not older than its stamp, and its last candle not older than the
\* list: a request that shares the cached list reads the database after Yahoo
\* was asked for that list.
StampedEarly ==
    /\ cached.stamp <= cached.asOf
    /\ cached.asOf <= cached.live
    /\ cached.asOf <= now
    /\ \A t \in Threads :
          /\ thread[t].now <= now
          /\ thread[t].pc = "store" =>
                thread[t].now <= thread[t].asOf /\ thread[t].asOf <= now
          /\ thread[t].pc = "merge" /\ thread[t].shares => cached.asOf <= thread[t].row

HistoryIInv == HistoryTypeOK /\ StampedEarly

\* Before the first request.
LEMMA InitHistoryIInv == HistoryInit => HistoryIInv
BY DEF HistoryInit, HistoryIInv, HistoryTypeOK, StampedEarly, NoRecords,
   NoRequestYet, ThreadStates

\* The step of a request that leaves the entry alone, to the state s.
LEMMA OwnStep ==
    ASSUME HistoryIInv, NEW t \in Threads, NEW s \in ThreadStates,
           thread' = [thread EXCEPT ![t] = s], UNCHANGED <<now, cached>>,
           s.now <= now,
           s.pc = "store" => s.now <= s.asOf /\ s.asOf <= now,
           s.pc = "merge" /\ s.shares => cached.asOf <= s.row
    PROVE  HistoryIInv'
<1>1. thread' \in [Threads -> ThreadStates]
  BY DEF HistoryIInv, HistoryTypeOK
<1>2. thread'[t] = s /\ \A u \in Threads \ {t} : thread'[u] = thread[u]
  BY DEF HistoryIInv, HistoryTypeOK
<1>3. StampedEarly'
  BY <1>2 DEF HistoryIInv, StampedEarly
<1>. QED
  BY <1>1, <1>3 DEF HistoryIInv, HistoryTypeOK

\* Every step of a request keeps the stamps early and the candles late.
LEMMA HistoryInductive ==
    HistoryIInv /\ [HistoryNext]_historyVars => HistoryIInv'
<1> SUFFICES ASSUME HistoryIInv, [HistoryNext]_historyVars
             PROVE  HistoryIInv'
  OBVIOUS
<1> USE DEF HistoryIInv, HistoryTypeOK, StampedEarly
<1>0. NoRequestYet \in ThreadStates
  BY DEF NoRequestYet, ThreadStates
<1>1. ASSUME NEW t \in Threads, TakeTime(t)
      PROVE  HistoryIInv'
  <2> DEFINE s == [thread[t] EXCEPT !.pc = "lookup", !.now = now]
  <2>1. s \in ThreadStates /\ s.pc = "lookup" /\ s.now = now
    BY DEF ThreadStates
  <2>2. thread' = [thread EXCEPT ![t] = s] /\ UNCHANGED <<now, cached>>
    BY <1>1 DEF TakeTime
  <2>. HIDE DEF s
  <2>. QED
    BY <2>1, <2>2, OwnStep
<1>2. ASSUME NEW t \in Threads, YahooAnswers(t)
      PROVE  HistoryIInv'
  <2> DEFINE s == [thread[t] EXCEPT !.pc = "store", !.asOf = now]
  <2>1. s \in ThreadStates /\ s.pc = "store" /\ s.asOf = now /\ s.now <= now
    BY DEF ThreadStates
  <2>2. thread' = [thread EXCEPT ![t] = s] /\ UNCHANGED <<now, cached>>
    BY <1>2 DEF YahooAnswers
  <2>. HIDE DEF s
  <2>. QED
    BY <2>1, <2>2, OwnStep
<1>3. ASSUME NEW t \in Threads, ReadRows(t)
      PROVE  HistoryIInv'
  <2> DEFINE s == [thread[t] EXCEPT !.pc = "merge", !.row = now]
  <2>1. s \in ThreadStates /\ s.pc = "merge" /\ s.row = now /\ s.now <= now
    BY DEF ThreadStates
  <2>2. thread' = [thread EXCEPT ![t] = s] /\ UNCHANGED <<now, cached>>
    BY <1>3 DEF ReadRows
  <2>. HIDE DEF s
  <2>. QED
    BY <2>1, <2>2, OwnStep
<1>4. ASSUME NEW t \in Threads, UNCHANGED <<now, cached>>,
             NEW pc \in {"fetch", "stale"}, thread' = [thread EXCEPT ![t].pc = pc]
      PROVE  HistoryIInv'
  <2> DEFINE s == [thread[t] EXCEPT !.pc = pc]
  <2>1. s \in ThreadStates /\ s.pc = pc /\ s.now <= now
    BY DEF ThreadStates
  <2>2. thread' = [thread EXCEPT ![t] = s] /\ UNCHANGED <<now, cached>>
    BY <1>4
  <2>. HIDE DEF s
  <2>. QED
    BY <2>1, <2>2, OwnStep
<1>5. ASSUME NEW t \in Threads, TakeCached(t), UNCHANGED <<now, cached>>
      PROVE  HistoryIInv'
  <2> DEFINE s == [thread[t] EXCEPT !.pc = "read", !.shares = TRUE]
  <2>1. s \in ThreadStates /\ s.pc = "read" /\ s.now <= now
    BY DEF ThreadStates
  <2>2. thread' = [thread EXCEPT ![t] = s] /\ UNCHANGED <<now, cached>>
    BY <1>5 DEF TakeCached
  <2>. HIDE DEF s
  <2>. QED
    BY <2>1, <2>2, OwnStep
<1>6. ASSUME NEW t \in Threads, Return(t), UNCHANGED <<now, cached>>
      PROVE  HistoryIInv'
  <2>1. NoRequestYet.pc = "idle" /\ NoRequestYet.now <= now
    BY DEF NoRequestYet
  <2>2. thread' = [thread EXCEPT ![t] = NoRequestYet]
    BY <1>6 DEF Return
  <2>. QED
    BY <1>0, <1>6, <2>1, <2>2, OwnStep
<1>7. ASSUME NEW t \in Threads, Store(t)
      PROVE  HistoryIInv'
  <2>1. thread' \in [Threads -> ThreadStates]
    BY <1>7 DEF Store, ThreadStates
  <2>2. \A u \in Threads :
           /\ thread'[u].now = thread[u].now /\ thread'[u].asOf = thread[u].asOf
           /\ thread'[u].pc = "store" => thread[u].pc = "store"
           /\ thread'[u].pc = "merge" => ~thread'[u].shares
    BY <1>7 DEF Store, ThreadStates
  <2>3. /\ cached' = [stamp |-> thread[t].now, asOf |-> thread[t].asOf,
                      live |-> thread[t].asOf]
        /\ thread[t].now <= thread[t].asOf /\ thread[t].asOf <= now
        /\ thread[t].now \in Nat /\ thread[t].asOf \in Nat /\ now' = now
    BY <1>7 DEF Store, ThreadStates
  <2>. QED
    BY <2>1, <2>2, <2>3
<1>8. ASSUME NEW t \in Threads, Merge(t)
      PROVE  HistoryIInv'
  <2>1. /\ cached' \in [stamp: Nat, asOf: Nat, live: Nat]
        /\ cached'.stamp = cached.stamp /\ cached'.asOf = cached.asOf
        /\ cached'.asOf <= cached'.live
    BY <1>8 DEF Merge, ThreadStates
  <2>2. now' = now /\ thread' = [thread EXCEPT ![t] = NoRequestYet]
    BY <1>8 DEF Merge, Return
  <2>3. /\ thread' \in [Threads -> ThreadStates]
        /\ thread'[t].pc = "idle" /\ thread'[t].now = 0
        /\ \A u \in Threads \ {t} : thread'[u] = thread[u]
    BY <1>0, <2>2 DEF NoRequestYet
  <2>. QED
    BY <2>1, <2>2, <2>3
<1>9. CASE Elapse \/ UNCHANGED historyVars
  BY <1>9 DEF Elapse, historyVars, ThreadStates
<1>10. ASSUME NEW t \in Threads, Miss(t) \/ YahooFails(t)
       PROVE  HistoryIInv'
  BY <1>4, <1>10 DEF Miss, YahooFails
<1>11. ASSUME NEW t \in Threads, Hit(t) \/ ReturnStale(t) \/ NothingToMerge(t)
       PROVE  HistoryIInv'
  BY <1>5, <1>6, <1>11 DEF Hit, ReturnStale, NothingToMerge
<1>. QED
  BY <1>1, <1>2, <1>3, <1>7, <1>8, <1>9, <1>10, <1>11 DEF HistoryNext

\* The records stay well formed, and no entry older than its stamp.
LEMMA HistoryInvariant == HistorySpec => []HistoryIInv
BY InitHistoryIInv, HistoryInductive, PTL DEF HistorySpec

\* TypeOK of the cache, for every number of threads.
THEOREM HistoryTyped == HistorySpec => []HistoryTypeOK
<1>1. HistoryIInv => HistoryTypeOK
  BY DEF HistoryIInv
<1>. QED
  BY <1>1, HistoryInvariant, PTL

\* Candles served from the cache as fresh were asked for within the TTL, the
\* last one included, however slow the fetches and in whatever order their
\* results are stored and the rows of the database merged into them.
THEOREM HitsAreFresh == HistorySpec => HitIsFresh
<1>1. HistoryIInv /\ [HistoryNext]_historyVars =>
        [\A t \in Threads :
            thread[t].pc = "lookup" /\ thread'[t].pc = "read" =>
                /\ thread[t].now < cached.asOf + Ttl
                /\ thread[t].now < cached.live + Ttl]_historyVars
  <2> SUFFICES ASSUME HistoryIInv, HistoryNext, NEW t \in Threads,
                      thread[t].pc = "lookup", thread'[t].pc = "read"
               PROVE  /\ thread[t].now < cached.asOf + Ttl
                      /\ thread[t].now < cached.live + Ttl
    BY DEF historyVars
  <2>1. ASSUME NEW u \in Threads,
               \/ TakeTime(u) \/ Miss(u) \/ YahooAnswers(u) \/ YahooFails(u)
               \/ Store(u) \/ ReturnStale(u) \/ ReadRows(u)
               \/ NothingToMerge(u) \/ Merge(u)
        PROVE  FALSE
    BY <2>1 DEF HistoryIInv, HistoryTypeOK, ThreadStates, TakeTime, Miss,
       YahooAnswers, YahooFails, Store, ReturnStale, ReadRows, NothingToMerge,
       Merge, TakeCached, Return, NoRequestYet
  <2>2. ~Elapse
    BY DEF Elapse
  <2>3. PICK u \in Threads : Hit(u)
    BY <2>1, <2>2 DEF HistoryNext
  <2>4. u = t
    BY <2>3 DEF Hit, TakeCached, HistoryIInv, HistoryTypeOK
  <2>5. thread[t].now < cached.stamp + Ttl
    BY <2>3, <2>4 DEF Hit, Fresh
  <2>. QED
    BY <2>5, HistoryAssumption
       DEF HistoryIInv, HistoryTypeOK, ThreadStates, StampedEarly
<1>. QED
  BY <1>1, HistoryInvariant, PTL DEF HistorySpec, HitIsFresh

-----------------------------------------------------------------------------
(* The store.                                                              *)

EmbedStates == [pc: {"idle", "chunks", "delete", "commit", "mark", "done"},
                doc: Docs \cup {"none"}, victims: SUBSET ChunkRows]

\* All chunks of a document are in the table, from one run.
Whole(d) ==
    \E w \in Embeds \cup {Edgar} : RowsOf(d) = {d} \X Indexes \X {w}

\* A run that found parsed chunks embeds an upload, and deletes rows of it
\* only.
RunsOfUploads ==
    \A e \in Embeds :
        /\ embed[e].pc \in {"delete", "commit", "mark"} =>
              embed[e].doc \in Uploads
        /\ embed[e].pc = "commit" =>
              \A r \in embed[e].victims : r[1] = embed[e].doc

\* Who is about to write that a document is embedded has committed its rows.
CommittedBeforeMarked ==
    /\ \A e \in Embeds : embed[e].pc = "mark" => Whole(embed[e].doc)
    /\ \A d \in syncing : Whole(d)

\* A filing has no rows before it is synced.
NoRowsBefore == \A d \in Filings \ (ingested \cup syncing) : RowsOf(d) = {}

DocumentIInv ==
    /\ DocumentTypeOK
    /\ RunsOfUploads
    /\ CommittedBeforeMarked
    /\ NoRowsBefore
    /\ EmbeddedMeansStored

\* Nothing is known of any document.
LEMMA InitDocumentIInv == DocumentInit => DocumentIInv
BY DEF DocumentInit, DocumentIInv, DocumentTypeOK, RunsOfUploads,
   CommittedBeforeMarked, NoRowsBefore, EmbeddedMeansStored, RowsOf

\* Steps that touch neither rows nor runs, and mark nothing as embedded that
\* is not stored, keep the invariant.
LEMMA RedisKeeps ==
    ASSUME DocumentIInv, UNCHANGED <<chunkRows, embed>>, DocumentTypeOK',
           ingested \subseteq ingested', syncing' \subseteq syncing,
           ingested \cup syncing \subseteq ingested' \cup syncing',
           \A d \in Docs : meta'[d] = "EMBEDDED" =>
                meta[d] = "EMBEDDED" \/ d \in syncing
    PROVE  DocumentIInv'
<1> USE DEF DocumentIInv
<1>1. \A d : RowsOf(d)' = RowsOf(d)
  BY DEF RowsOf
<1>2. \A d : Whole(d)' <=> Whole(d)
  BY <1>1 DEF Whole
<1>3. RunsOfUploads' /\ CommittedBeforeMarked'
  BY <1>2 DEF RunsOfUploads, CommittedBeforeMarked
<1>4. NoRowsBefore'
  BY <1>1 DEF NoRowsBefore
<1>5. \A d \in Docs : meta'[d] = "EMBEDDED" => Whole(d)
  BY DEF CommittedBeforeMarked, EmbeddedMeansStored, Whole
<1>6. EmbeddedMeansStored'
  BY <1>2, <1>5 DEF EmbeddedMeansStored, Whole
<1>. QED
  BY <1>3, <1>4, <1>6

\* Ingestion, expiries and the end of a sync.
LEMMA KeysKeep ==
    ASSUME DocumentIInv,
           \/ \E d \in Docs : Ingest(d) \/ MetaExpires(d) \/ ChunksExpire(d)
                                \/ SyncMeta(d)
           \/ ListExpires
    PROVE  DocumentIInv'
<1> USE DEF DocumentIInv
<1>1. ASSUME NEW d \in Docs, Ingest(d) PROVE DocumentIInv'
  <2>1. /\ meta' \in {meta, [meta EXCEPT ![d] = "parsed"]}
        /\ parsed' \in {parsed, parsed \cup {d}}
        /\ listed' \in {listed, listed \cup {d}}
        /\ ingested' = ingested \cup {d} /\ d \in Uploads
        /\ UNCHANGED <<chunkRows, syncing, embed>>
    BY <1>1 DEF Ingest
  <2>2. DocumentTypeOK'
    BY <2>1 DEF DocumentTypeOK
  <2>3. \A c \in Docs : meta'[c] = "EMBEDDED" => meta[c] = "EMBEDDED"
    BY <2>1 DEF DocumentTypeOK
  <2>. QED
    BY <2>1, <2>2, <2>3, RedisKeeps
<1>2. ASSUME NEW d \in Docs, MetaExpires(d) PROVE DocumentIInv'
  <2>1. DocumentTypeOK'
    BY <1>2 DEF MetaExpires, DocumentTypeOK
  <2>2. \A c \in Docs : meta'[c] = "EMBEDDED" => meta[c] = "EMBEDDED"
    BY <1>2 DEF MetaExpires, DocumentTypeOK
  <2>. QED
    BY <1>2, <2>1, <2>2, RedisKeeps DEF MetaExpires
<1>3. ASSUME NEW d \in Docs, ChunksExpire(d) PROVE DocumentIInv'
  <2>1. DocumentTypeOK'
    BY <1>3 DEF ChunksExpire, DocumentTypeOK
  <2>. QED
    BY <1>3, <2>1, RedisKeeps DEF ChunksExpire
<1>4. ASSUME NEW d \in Docs, SyncMeta(d) PROVE DocumentIInv'
  <2>1. /\ meta' \in {meta, [meta EXCEPT ![d] = "EMBEDDED"]}
        /\ listed' \in {listed, listed \cup {d}}
        /\ ingested' = ingested \cup {d} /\ syncing' = syncing \ {d}
        /\ d \in syncing /\ UNCHANGED <<parsed, chunkRows, embed>>
    BY <1>4 DEF SyncMeta
  <2>2. DocumentTypeOK'
    BY <2>1 DEF DocumentTypeOK
  <2>3. \A c \in Docs : meta'[c] = "EMBEDDED" => meta[c] = "EMBEDDED" \/ c \in syncing
    BY <2>1 DEF DocumentTypeOK
  <2>. QED
    BY <2>1, <2>2, <2>3, RedisKeeps
<1>5. CASE ListExpires
  <2>1. DocumentTypeOK'
    BY <1>5 DEF ListExpires, DocumentTypeOK
  <2>. QED
    BY <1>5, <2>1, RedisKeeps DEF ListExpires
<1>. QED
  BY <1>1, <1>2, <1>3, <1>4, <1>5

\* A run that reads, selects its victims or fails writes nothing.
LEMMA RunKeeps ==
    ASSUME DocumentIInv, NEW e \in Embeds,
           ReadMeta(e) \/ ReadChunks(e) \/ DeleteRows(e) \/ EmbedFails(e)
    PROVE  DocumentIInv'
<1> USE DEF DocumentIInv
<1>1. UNCHANGED <<ingested, meta, parsed, listed, chunkRows, syncing>>
  BY DEF ReadMeta, ReadChunks, DeleteRows, EmbedFails
<1>2. /\ embed' \in [Embeds -> EmbedStates]
      /\ \A i \in Embeds \ {e} : embed'[i] = embed[i]
      /\ embed'[e].pc # "mark"
      /\ embed'[e].pc \in {"delete", "commit"} => embed'[e].doc \in Uploads
      /\ embed'[e].pc = "commit" =>
            \A r \in embed'[e].victims : r[1] = embed'[e].doc
  <2>1. CASE ReadMeta(e)
    <3>1. PICK d \in ingested, pc \in {"done", "chunks"} :
             embed' = [embed EXCEPT ![e] = [pc |-> pc, doc |-> d, victims |-> {}]]
      BY <2>1 DEF ReadMeta
    <3>2. [pc |-> pc, doc |-> d, victims |-> {}] \in EmbedStates
      BY DEF EmbedStates, DocumentTypeOK
    <3>. QED
      BY <3>1, <3>2 DEF DocumentTypeOK, EmbedStates
  <2>2. CASE ReadChunks(e)
    BY <2>2 DEF ReadChunks, Goto, DocumentTypeOK, EmbedStates
  <2>3. CASE DeleteRows(e)
    <3>1. [embed[e] EXCEPT !.pc = "commit", !.victims = RowsOf(embed[e].doc)]
              \in EmbedStates
      BY DEF DocumentTypeOK, EmbedStates, RowsOf
    <3>2. embed'[e] = [embed[e] EXCEPT !.pc = "commit",
                                       !.victims = RowsOf(embed[e].doc)]
      BY <2>3 DEF DeleteRows, DocumentTypeOK
    <3>3. embed[e] \in EmbedStates /\ embed[e].doc \in Uploads
      BY <2>3 DEF DeleteRows, DocumentTypeOK, EmbedStates, RunsOfUploads
    <3>4. /\ embed'[e].pc = "commit" /\ embed'[e].doc = embed[e].doc
          /\ embed'[e].victims = RowsOf(embed[e].doc)
      BY <3>2, <3>3 DEF EmbedStates
    <3>. QED
      BY <2>3, <3>1, <3>3, <3>4 DEF DeleteRows, DocumentTypeOK, EmbedStates, RowsOf
  <2>4. CASE EmbedFails(e)
    BY <2>4 DEF EmbedFails, Goto, DocumentTypeOK, EmbedStates
  <2>. QED
    BY <2>1, <2>2, <2>3, <2>4
<1>3. DocumentTypeOK'
  BY <1>1, <1>2 DEF DocumentTypeOK, EmbedStates
<1>4. RunsOfUploads'
  BY <1>2 DEF RunsOfUploads
<1>5. CommittedBeforeMarked'
  BY <1>1, <1>2 DEF CommittedBeforeMarked, Whole, RowsOf
<1>6. NoRowsBefore' /\ EmbeddedMeansStored'
  BY <1>1 DEF NoRowsBefore, EmbeddedMeansStored, RowsOf
<1>. QED
  BY <1>3, <1>4, <1>5, <1>6

\* A run's INSERT leaves the rows of its document whole and those of the
\* others alone.
LEMMA InsertRowsKeeps ==
    ASSUME DocumentIInv, NEW e \in Embeds, InsertRows(e)
    PROVE  DocumentIInv'
<1> USE DEF DocumentIInv
<1>0. PICK d : d = embed[e].doc
  OBVIOUS
<1>1. /\ embed[e].pc = "commit" /\ d \in Uploads
      /\ RowsOf(d) \subseteq embed[e].victims
      /\ \A r \in embed[e].victims : r[1] = d
      /\ chunkRows' = (chunkRows \ embed[e].victims) \cup ({d} \X Indexes \X {e})
      /\ UNCHANGED <<ingested, meta, parsed, listed, syncing>>
  BY <1>0 DEF InsertRows, RunsOfUploads
<1>2. /\ embed' \in [Embeds -> EmbedStates]
      /\ \A i \in Embeds \ {e} : embed'[i] = embed[i]
      /\ embed'[e].pc = "mark" /\ embed'[e].doc = d
  BY <1>0 DEF InsertRows, Goto, DocumentTypeOK, EmbedStates
<1>3. \A r \in {d} \X Indexes \X {e} : r[1] = d /\ r \in ChunkRows
  BY <1>1 DEF ChunkRows, Docs
<1>4. RowsOf(d)' = {d} \X Indexes \X {e}
  BY <1>1, <1>2, <1>3 DEF RowsOf
<1>5. \A c : c # d => RowsOf(c)' = RowsOf(c)
  BY <1>1, <1>3 DEF RowsOf
<1>6. \A c : Whole(c) => Whole(c)'
  BY <1>4, <1>5 DEF Whole
<1>7. Whole(d)'
  BY <1>4 DEF Whole
<1>8. DocumentTypeOK'
  BY <1>1, <1>2, <1>3 DEF DocumentTypeOK, EmbedStates
<1>9. RunsOfUploads'
  BY <1>1, <1>2 DEF RunsOfUploads
<1>10. CommittedBeforeMarked'
  BY <1>1, <1>2, <1>6, <1>7 DEF CommittedBeforeMarked
<1>11. NoRowsBefore'
  BY <1>1, <1>5, DocumentAssumption DEF NoRowsBefore
<1>12. EmbeddedMeansStored'
  BY <1>1, <1>6 DEF EmbeddedMeansStored, Whole
<1>. QED
  BY <1>8, <1>9, <1>10, <1>11, <1>12

\* A run marks what it has committed.
LEMMA MarkKeeps ==
    ASSUME DocumentIInv, NEW e \in Embeds, MarkEmbedded(e)
    PROVE  DocumentIInv'
<1> USE DEF DocumentIInv
<1>1. /\ embed[e].pc = "mark"
      /\ meta' = [meta EXCEPT ![embed[e].doc] = "EMBEDDED"]
      /\ UNCHANGED <<ingested, parsed, listed, chunkRows, syncing>>
  BY DEF MarkEmbedded
<1>2. /\ embed' \in [Embeds -> EmbedStates]
      /\ \A i \in Embeds \ {e} : embed'[i] = embed[i]
      /\ embed'[e].pc = "done"
  BY DEF MarkEmbedded, Goto, DocumentTypeOK, EmbedStates
<1>3. \A d : (RowsOf(d)' = RowsOf(d)) /\ (Whole(d)' <=> Whole(d))
  BY <1>1 DEF RowsOf, Whole
<1>4. DocumentTypeOK'
  BY <1>1, <1>2 DEF DocumentTypeOK, EmbedStates
<1>5. RunsOfUploads'
  BY <1>2 DEF RunsOfUploads
<1>6. CommittedBeforeMarked'
  BY <1>1, <1>2, <1>3 DEF CommittedBeforeMarked
<1>7. NoRowsBefore'
  BY <1>1, <1>3 DEF NoRowsBefore
<1>8. \A d \in Docs : meta'[d] = "EMBEDDED" => Whole(d)
  BY <1>1 DEF DocumentTypeOK, CommittedBeforeMarked, EmbeddedMeansStored, Whole
<1>9. EmbeddedMeansStored'
  BY <1>3, <1>8 DEF EmbeddedMeansStored, Whole
<1>. QED
  BY <1>4, <1>5, <1>6, <1>7, <1>9

\* The rows of a filing are committed where there were none.
LEMMA SyncRowsKeeps ==
    ASSUME DocumentIInv, NEW d \in Docs, SyncRows(d)
    PROVE  DocumentIInv'
<1> USE DEF DocumentIInv
<1>1. /\ d \in Filings \ (ingested \cup syncing)
      /\ chunkRows' = chunkRows \cup ({d} \X Indexes \X {Edgar})
      /\ syncing' = syncing \cup {d}
      /\ UNCHANGED <<ingested, meta, parsed, listed, embed>>
  BY DEF SyncRows
<1>2. \A r \in {d} \X Indexes \X {Edgar} : r[1] = d /\ r \in ChunkRows
  BY DEF ChunkRows
<1>3. RowsOf(d) = {}
  BY <1>1 DEF NoRowsBefore
<1>4. RowsOf(d)' = {d} \X Indexes \X {Edgar}
  BY <1>1, <1>2, <1>3 DEF RowsOf
<1>5. \A c : c # d => RowsOf(c)' = RowsOf(c)
  BY <1>1, <1>2 DEF RowsOf
<1>6. (\A c : Whole(c) => Whole(c)') /\ Whole(d)'
  BY <1>4, <1>5 DEF Whole
<1>7. DocumentTypeOK'
  BY <1>1, <1>2 DEF DocumentTypeOK
<1>8. RunsOfUploads'
  BY <1>1 DEF RunsOfUploads
<1>9. CommittedBeforeMarked'
  BY <1>1, <1>6 DEF CommittedBeforeMarked
<1>10. NoRowsBefore'
  BY <1>1, <1>5 DEF NoRowsBefore
<1>11. EmbeddedMeansStored'
  BY <1>1, <1>6 DEF EmbeddedMeansStored, Whole
<1>. QED
  BY <1>7, <1>8, <1>9, <1>10, <1>11

\* Every step keeps the invariant.
LEMMA DocumentInductive == DocumentIInv /\ [DocumentNext]_documentVars => DocumentIInv'
<1> SUFFICES ASSUME DocumentIInv, [DocumentNext]_documentVars PROVE DocumentIInv'
  OBVIOUS
<1>1. CASE UNCHANGED documentVars
  BY <1>1 DEF documentVars, DocumentIInv, DocumentTypeOK, RunsOfUploads,
     CommittedBeforeMarked, NoRowsBefore, EmbeddedMeansStored, Whole, RowsOf
<1>. QED
  BY <1>1, KeysKeep, RunKeeps, InsertRowsKeeps, MarkKeeps, SyncRowsKeeps
     DEF DocumentNext

\* The invariant holds throughout.
LEMMA DocumentInvariant == DocumentSpec => []DocumentIInv
BY InitDocumentIInv, DocumentInductive, PTL DEF DocumentSpec

\* The keys, the rows and every run under way are well formed throughout.
THEOREM DocumentTyped == DocumentSpec => []DocumentTypeOK
<1>1. DocumentIInv => DocumentTypeOK
  BY DEF DocumentIInv
<1>. QED
  BY <1>1, DocumentInvariant, PTL

\* A document reported as embedded has all its chunks in the table, from one
\* run, whatever runs overlap or fail and whichever keys expire.
THEOREM EmbeddedIsStored == DocumentSpec => []EmbeddedMeansStored
<1>1. DocumentIInv => EmbeddedMeansStored
  BY DEF DocumentIInv
<1>. QED
  BY <1>1, DocumentInvariant, PTL

-----------------------------------------------------------------------------
(* The chunks of a document.                                               *)

ChunkRecord == [first: Nat, last: Nat, pages: SUBSET Nat]

\* The words accumulated begin with the text, or where the next chunk has
\* to begin; only the flush emits the last word's chunk and stays there.
Carried ==
    /\ chunks = <<>> => from = 1
    /\ chunks # <<>> /\ ~flushed =>
          /\ from + Overlap = chunks[Len(chunks)].last + 1
          /\ from + Overlap <= next
    /\ flushed => next = Len(pageOf) + 1

Contiguous ==
    /\ chunks # <<>> => chunks[1].first = 1
    /\ \A i \in 1..(Len(chunks) - 1) :
          chunks[i + 1].first + Overlap = chunks[i].last + 1

\* The pages collected are pages of accumulated words.
SpanIsTrue == \A p \in span : \E k \in from..(next - 1) : pageOf[k] = p

ChunkingIInv ==
    /\ ChunkingTypeOK
    /\ Carried
    /\ ChunksCover
    /\ SpanIsTrue
    /\ CitedPagesAreTrue

\* Before the first word is read.
LEMMA InitChunkingIInv == ChunkingInit => ChunkingIInv
<1> SUFFICES ASSUME ChunkingInit PROVE ChunkingIInv
  OBVIOUS
<1>1. pageOf \in Seq(Nat) \ {<<>>} /\ Len(pageOf) \in Nat
  BY ChunkingAssumption DEF ChunkingInit
<1>2. Accumulated < Target /\ Target \in Nat
  BY ChunkingAssumption DEF ChunkingInit, Accumulated
<1>3. chunks \in Seq(ChunkRecord) /\ Len(chunks) = 0
  BY DEF ChunkingInit
<1>4. ChunkingTypeOK
  <2>1. next \in 1..(Len(pageOf) + 1) /\ from \in 1..next
    BY <1>1 DEF ChunkingInit
  <2>2. pageOf \in Documents /\ span \subseteq Nat /\ flushed \in BOOLEAN
    BY DEF ChunkingInit
  <2>. QED
    BY <1>2, <1>3, <2>1, <2>2 DEF ChunkingTypeOK, ChunkRecord
<1>5. Carried /\ ChunksCover /\ SpanIsTrue /\ CitedPagesAreTrue
  BY <1>3 DEF ChunkingInit, Carried, ChunksCover, SpanIsTrue, CitedPagesAreTrue
<1>. QED
  BY <1>4, <1>5 DEF ChunkingIInv

\* Appending to the chunks leaves those there are in their places.
LEMMA EmitAppends ==
    ASSUME ChunkingTypeOK, NEW last \in Nat, NEW pages \in SUBSET Nat,
           Emit(last, pages)
    PROVE  /\ chunks' \in Seq(ChunkRecord)
           /\ chunks' # <<>>
           /\ Len(chunks') = Len(chunks) + 1
           /\ chunks'[Len(chunks')] = [first |-> from, last |-> last, pages |-> pages]
           /\ \A i \in 1..Len(chunks) : chunks'[i] = chunks[i]
<1> DEFINE chunk == [first |-> from, last |-> last, pages |-> pages]
<1>1. chunk \in ChunkRecord /\ chunks \in Seq(ChunkRecord)
  BY DEF ChunkingTypeOK, ChunkRecord
<1>2. chunks' = Append(chunks, chunk)
  BY DEF Emit
<1> HIDE DEF chunk
<1>3. /\ chunks' \in Seq(ChunkRecord)
      /\ Len(chunks') = Len(chunks) + 1
      /\ chunks'[Len(chunks) + 1] = chunk
      /\ \A i \in 1..Len(chunks) : chunks'[i] = chunks[i]
  BY <1>1, <1>2
<1>4. Len(chunks) \in Nat /\ chunks' # <<>>
  BY <1>1, <1>2
<1>. QED
  BY <1>3, <1>4 DEF chunk

\* A chunk that begins where the words accumulated begin goes on where the
\* chunk before it asks for, and one that cites their pages is true to them.
LEMMA EmitKeeps ==
    ASSUME ChunkingIInv, ~flushed, NEW last \in Nat, NEW pages \in SUBSET Nat,
           Emit(last, pages), UNCHANGED pageOf,
           \A p \in pages : \E k \in from..last : pageOf[k] = p
    PROVE  /\ chunks' \in Seq(ChunkRecord)
           /\ chunks' # <<>>
           /\ chunks'[Len(chunks')].last = last
           /\ Contiguous'
           /\ CitedPagesAreTrue'
<1> USE DEF ChunkingIInv
<1>1. /\ chunks' \in Seq(ChunkRecord)
      /\ chunks' # <<>>
      /\ Len(chunks') = Len(chunks) + 1
      /\ chunks'[Len(chunks')] = [first |-> from, last |-> last, pages |-> pages]
      /\ \A i \in 1..Len(chunks) : chunks'[i] = chunks[i]
  BY EmitAppends
<1>2. chunks \in Seq(ChunkRecord) /\ Len(chunks) \in Nat
  BY DEF ChunkingTypeOK, ChunkRecord
<1>3. chunks'[1].first = 1
  <2>1. CASE chunks = <<>>
    BY <1>1, <2>1 DEF Carried
  <2>2. CASE chunks # <<>>
    BY <1>1, <1>2, <2>2 DEF ChunksCover
  <2>. QED
    BY <2>1, <2>2
<1>4. ASSUME NEW i \in 1..(Len(chunks') - 1)
      PROVE  chunks'[i + 1].first + Overlap = chunks'[i].last + 1
  <2>1. CASE i = Len(chunks)
    BY <1>1, <1>2, <2>1 DEF Carried
  <2>2. CASE i # Len(chunks)
    <3>1. i \in 1..(Len(chunks) - 1) /\ i + 1 \in 1..Len(chunks)
      BY <1>1, <1>2, <2>2
    <3>. QED
      BY <1>1, <3>1 DEF ChunksCover
  <2>. QED
    BY <2>1, <2>2
<1>5. ASSUME NEW i \in 1..Len(chunks'), NEW p \in chunks'[i].pages
      PROVE  \E k \in chunks'[i].first..chunks'[i].last : pageOf[k] = p
  <2>1. CASE i = Len(chunks')
    <3>1. /\ chunks'[i].first = from /\ chunks'[i].last = last
          /\ chunks'[i].pages = pages
      BY <1>1, <2>1
    <3>. QED
      BY <1>5, <3>1
  <2>2. CASE i # Len(chunks')
    BY <1>1, <1>2, <1>5, <2>2 DEF CitedPagesAreTrue
  <2>. QED
    BY <2>1, <2>2
<1>. QED
  <2>1. chunks'[Len(chunks')].last = last
    BY <1>1
  <2>2. Contiguous'
    BY <1>3, <1>4 DEF Contiguous
  <2>3. CitedPagesAreTrue'
    BY <1>5 DEF CitedPagesAreTrue
  <2>. QED
    BY <1>1, <2>1, <2>2, <2>3

\* One more word, and no chunk.
LEMMA AddWordKeeps == ASSUME ChunkingIInv, AddWord PROVE ChunkingIInv'
<1> USE ChunkingAssumption DEF ChunkingIInv
<1>1. pageOf \in Seq(Nat) /\ next \in Nat /\ from \in Nat
  BY DEF ChunkingTypeOK
<1>2. pageOf[next] \in Nat
  BY <1>1 DEF AddWord, ChunkingTypeOK
<1>3. ChunkingTypeOK'
  <2>1. next' \in 1..(Len(pageOf) + 1) /\ from \in 1..next'
    BY <1>1 DEF AddWord, ChunkingTypeOK
  <2>2. Accumulated' < Target
    BY <1>1 DEF AddWord, Full, Accumulated
  <2>3. span' \subseteq Nat
    BY <1>2 DEF AddWord, ChunkingTypeOK
  <2>. QED
    BY <2>1, <2>2, <2>3 DEF AddWord, ChunkingTypeOK
<1>4. Carried'
  BY <1>1 DEF AddWord, Carried
<1>5. ChunksCover' /\ CitedPagesAreTrue'
  BY DEF AddWord, ChunksCover, CitedPagesAreTrue
<1>6. SpanIsTrue'
  BY <1>1 DEF AddWord, SpanIsTrue, ChunkingTypeOK
<1>. QED
  BY <1>3, <1>4, <1>5, <1>6

\* A full chunk; what is carried over has at least one word of it.
LEMMA CutKeeps == ASSUME ChunkingIInv, Cut PROVE ChunkingIInv'
<1> USE ChunkingAssumption DEF ChunkingIInv
<1>1. pageOf \in Seq(Nat) /\ next \in Nat /\ from \in Nat /\ from <= next
  BY DEF ChunkingTypeOK
<1>2. pageOf[next] \in Nat
  BY <1>1 DEF Cut, ChunkingTypeOK
<1>3. ~flushed
  BY <1>1 DEF Cut, Carried
<1>4. span \cup {pageOf[next]} \in SUBSET Nat
  BY <1>2 DEF ChunkingTypeOK
<1>5. \A p \in span \cup {pageOf[next]} : \E k \in from..next : pageOf[k] = p
  BY <1>1 DEF SpanIsTrue
<1>6. /\ chunks' \in Seq(ChunkRecord) /\ chunks' # <<>>
      /\ chunks'[Len(chunks')].last = next
      /\ Contiguous' /\ CitedPagesAreTrue'
  BY <1>1, <1>3, <1>4, <1>5, EmitKeeps DEF Cut
<1>7. next' = next + 1 /\ from' = next + 1 - Overlap
      /\ span' = {pageOf[next]} /\ UNCHANGED <<pageOf, flushed>>
  BY DEF Cut
<1>8. ChunkingTypeOK'
  <2>1. next - from = Target - 1
    BY <1>1 DEF Cut, Full, Accumulated, ChunkingTypeOK
  <2>2. from' \in 1..next'
    BY <1>1, <1>7, <2>1 DEF ChunkingTypeOK
  <2>3. Accumulated' < Target
    BY <1>1, <1>7 DEF Accumulated
  <2>4. next' \in 1..(Len(pageOf') + 1)
    BY <1>1, <1>7 DEF Cut, ChunkingTypeOK
  <2>. QED
    BY <1>2, <1>6, <1>7, <2>2, <2>3, <2>4 DEF ChunkingTypeOK, ChunkRecord
<1>9. Carried'
  BY <1>1, <1>3, <1>6, <1>7 DEF Carried
<1>10. ChunksCover'
  BY <1>3, <1>6, <1>7 DEF ChunksCover, Contiguous
<1>11. SpanIsTrue'
  BY <1>1, <1>7 DEF SpanIsTrue
<1>. QED
  BY <1>6, <1>8, <1>9, <1>10, <1>11

\* There is always a word left for the last chunk.
LEMMA FlushKeeps == ASSUME ChunkingIInv, Flush PROVE ChunkingIInv'
<1> USE ChunkingAssumption DEF ChunkingIInv
<1>1. pageOf \in Seq(Nat) \ {<<>>} /\ next \in Nat /\ from \in Nat
  BY DEF ChunkingTypeOK
<1>2. next = Len(pageOf) + 1 /\ Len(pageOf) \in Nat /\ Len(pageOf) > 0
  BY <1>1 DEF Flush, ChunkingTypeOK
<1>3. ~flushed /\ flushed' = TRUE /\ UNCHANGED <<pageOf, next, from, span>>
  BY DEF Flush
<1>4. Accumulated > 0
  <2>1. CASE chunks = <<>>
    BY <1>1, <1>2, <2>1 DEF Carried, Accumulated
  <2>2. CASE chunks # <<>>
    BY <1>1, <1>3, <2>2 DEF Carried, Accumulated
  <2>. QED
    BY <2>1, <2>2
<1>5. \A p \in span : \E k \in from..Len(pageOf) : pageOf[k] = p
  BY <1>1, <1>2 DEF SpanIsTrue
<1>6. /\ chunks' \in Seq(ChunkRecord) /\ chunks' # <<>>
      /\ chunks'[Len(chunks')].last = Len(pageOf)
      /\ Contiguous' /\ CitedPagesAreTrue'
  BY <1>2, <1>3, <1>4, <1>5, EmitKeeps DEF Flush, ChunkingTypeOK
<1>7. ChunkingTypeOK'
  BY <1>3, <1>6 DEF ChunkingTypeOK, ChunkRecord, Accumulated
<1>8. Carried'
  BY <1>2, <1>3, <1>6 DEF Carried
<1>9. ChunksCover'
  BY <1>3, <1>6 DEF ChunksCover, Contiguous
<1>10. SpanIsTrue'
  BY <1>3 DEF SpanIsTrue
<1>. QED
  BY <1>6, <1>7, <1>8, <1>9, <1>10

\* Every step keeps the invariant, and so does standing still.
LEMMA ChunkingInductive == ChunkingIInv /\ [ChunkingNext]_chunkingVars => ChunkingIInv'
<1> SUFFICES ASSUME ChunkingIInv, [ChunkingNext]_chunkingVars PROVE ChunkingIInv'
  OBVIOUS
<1>1. CASE UNCHANGED chunkingVars
  BY <1>1 DEF chunkingVars, ChunkingIInv, ChunkingTypeOK, Accumulated, Carried,
     ChunksCover, SpanIsTrue, CitedPagesAreTrue
<1>. QED
  BY <1>1, AddWordKeeps, CutKeeps, FlushKeeps DEF ChunkingNext

\* The invariant holds throughout.
LEMMA ChunkingInvariant == ChunkingSpec => []ChunkingIInv
BY InitChunkingIInv, ChunkingInductive, PTL DEF ChunkingSpec

\* The chunks and the window over the words are well formed throughout.
THEOREM ChunkingTyped == ChunkingSpec => []ChunkingTypeOK
<1>1. ChunkingIInv => ChunkingTypeOK
  BY DEF ChunkingIInv
<1>. QED
  BY <1>1, ChunkingInvariant, PTL

\* No word of a document is left out of its chunks, and neighbours share
\* exactly the words of the overlap.
THEOREM ChunksAlwaysCover == ChunkingSpec => []ChunksCover
<1>1. ChunkingIInv => ChunksCover
  BY DEF ChunkingIInv
<1>. QED
  BY <1>1, ChunkingInvariant, PTL

\* No chunk is cited by a page that it has no word of.
THEOREM CitationsAreTrue == ChunkingSpec => []CitedPagesAreTrue
<1>1. ChunkingIInv => CitedPagesAreTrue
  BY DEF ChunkingIInv
<1>. QED
  BY <1>1, ChunkingInvariant, PTL

\* The reference for chunk_document: every chunk begins a fixed stride after
\* the one before, all but the last hold exactly Target words, and that one
\* fewer than a word more.
ChunkLayout ==
    \A i \in 1..Len(chunks) :
        /\ chunks[i].first = 1 + (i - 1) * (Target - Overlap)
        /\ chunks[i].last < chunks[i].first + Target
        /\ i < Len(chunks) => chunks[i].last + 1 = chunks[i].first + Target

\* ... and before the flush the last one is as full as the others, with the
\* words accumulated beginning at the next stride.
LayoutInv ==
    /\ ChunkLayout
    /\ ~flushed =>
          /\ \A i \in 1..Len(chunks) :
                chunks[i].last + 1 = chunks[i].first + Target
          /\ from = 1 + Len(chunks) * (Target - Overlap)

\* Every step keeps the layout.
LEMMA LayoutInductive ==
    ChunkingIInv /\ LayoutInv /\ [ChunkingNext]_chunkingVars => LayoutInv'
<1> SUFFICES ASSUME ChunkingIInv, LayoutInv, [ChunkingNext]_chunkingVars
             PROVE  LayoutInv'
  OBVIOUS
<1> USE ChunkingAssumption DEF ChunkingIInv
<1>1. /\ pageOf \in Seq(Nat) /\ next \in Nat /\ from \in Nat /\ from <= next
      /\ Len(chunks) \in Nat
      /\ Target \in Nat /\ Overlap \in Nat /\ Overlap < Target
  BY DEF ChunkingTypeOK
<1>2. CASE AddWord \/ UNCHANGED chunkingVars
  BY <1>2 DEF AddWord, chunkingVars, LayoutInv, ChunkLayout
<1>3. ASSUME NEW last \in Nat, NEW pages \in SUBSET Nat, Emit(last, pages),
             ~flushed, last < from + Target,
             ~flushed' => /\ last + 1 = from + Target
                          /\ from' = from + (Target - Overlap)
      PROVE  LayoutInv'
  <2> DEFINE n == Len(chunks)
             stride == Target - Overlap
  <2>1. /\ Len(chunks') = n + 1
        /\ chunks'[n + 1].first = from /\ chunks'[n + 1].last = last
        /\ \A i \in 1..n : chunks'[i] = chunks[i]
    <3>1. /\ Len(chunks') = Len(chunks) + 1
          /\ chunks'[Len(chunks')] = [first |-> from, last |-> last, pages |-> pages]
          /\ \A i \in 1..Len(chunks) : chunks'[i] = chunks[i]
      BY <1>3, EmitAppends
    <3>. QED
      BY <3>1
  <2>2. /\ \A i \in 1..n : /\ chunks[i].first = 1 + (i - 1) * stride
                          /\ chunks[i].last < chunks[i].first + Target
                          /\ chunks[i].last + 1 = chunks[i].first + Target
        /\ from = 1 + n * stride
    BY <1>3 DEF LayoutInv, ChunkLayout
  <2>3. \A i \in 1..(n + 1) : i \in 1..n \/ i = n + 1
    BY <1>1
  <2>4. stride \in Nat /\ (n + 1) - 1 = n /\ (n + 1) * stride = n * stride + stride
    BY <1>1
  <2> HIDE DEF n, stride
  <2>5. ASSUME NEW i \in 1..(n + 1)
        PROVE  /\ chunks'[i].first = 1 + (i - 1) * stride
               /\ chunks'[i].last < chunks'[i].first + Target
               /\ i < n + 1 => chunks'[i].last + 1 = chunks'[i].first + Target
               /\ ~flushed' => chunks'[i].last + 1 = chunks'[i].first + Target
    <3>1. CASE i \in 1..n
      BY <2>1, <2>2, <3>1
    <3>2. CASE i = n + 1
      <4>1. i - 1 = n /\ n \in Nat
        BY <1>1, <3>2 DEF n
      <4>. QED
        BY <1>3, <2>1, <2>2, <3>2, <4>1
    <3>. QED
      BY <2>3, <3>1, <3>2
  <2>6. ~flushed' => from' = 1 + (n + 1) * stride
    <3> SUFFICES ASSUME ~flushed' PROVE from' = 1 + (n + 1) * stride
      OBVIOUS
    <3>1. from' = from + stride
      BY <1>3 DEF stride
    <3>2. n * stride \in Nat
      BY <1>1, <2>4 DEF n
    <3>. QED
      BY <2>2, <2>4, <3>1, <3>2
  <2>7. ChunkLayout'
    BY <2>1, <2>5 DEF ChunkLayout, stride
  <2>. QED
    BY <2>1, <2>5, <2>6, <2>7 DEF LayoutInv, stride
<1>4. CASE Cut
  <2>1. Emit(next, span \cup {pageOf[next]}) /\ from' = next + 1 - Overlap
    BY <1>4 DEF Cut
  <2>2. span \cup {pageOf[next]} \in SUBSET Nat
    <3>1. pageOf[next] \in Nat
      BY <1>1, <1>4 DEF Cut, ChunkingTypeOK
    <3>. QED
      BY <3>1 DEF ChunkingTypeOK
  <2>3. next + 1 = from + Target
    BY <1>1, <1>4 DEF Cut, Full, Accumulated, ChunkingTypeOK
  <2>4. ~flushed
    BY <1>1, <1>4 DEF Cut, Carried
  <2>. QED
    BY <1>1, <1>3, <2>1, <2>2, <2>3, <2>4
<1>5. CASE Flush
  <2>1. ~flushed /\ flushed' /\ next = Len(pageOf) + 1 /\ Len(pageOf) \in Nat
    BY <1>1, <1>5 DEF Flush, ChunkingTypeOK
  <2>2. CASE Accumulated > 0
    <3>1. Emit(Len(pageOf), span) /\ span \in SUBSET Nat
      BY <1>5, <2>2 DEF Flush, ChunkingTypeOK
    <3>2. Len(pageOf) < from + Target
      BY <1>1, <2>1 DEF ChunkingTypeOK, Accumulated
    <3>. QED
      BY <1>3, <2>1, <3>1, <3>2
  <2>3. CASE ~(Accumulated > 0)
    BY <1>5, <2>1, <2>3 DEF Flush, LayoutInv, ChunkLayout
  <2>. QED
    BY <2>2, <2>3
<1>. QED
  BY <1>2, <1>4, <1>5 DEF ChunkingNext

\* The chunks of every text are those of the reference, computed word by
\* word though they are.
THEOREM ChunksAreLaidOut == ChunkingSpec => []ChunkLayout
<1>1. ChunkingInit => LayoutInv
  <2> SUFFICES ASSUME ChunkingInit PROVE LayoutInv
    OBVIOUS
  <2>1. Len(chunks) = 0 /\ from = 1
    BY DEF ChunkingInit
  <2>2. 0 * (Target - Overlap) = 0
    BY ChunkingAssumption
  <2>. QED
    BY <2>1, <2>2 DEF LayoutInv, ChunkLayout
<1>2. LayoutInv => ChunkLayout
  BY DEF LayoutInv
<1>. QED
  BY <1>1, <1>2, ChunkingInvariant, LayoutInductive, PTL DEF ChunkingSpec
=============================================================================
