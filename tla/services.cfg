SPECIFICATION FairServices
CONSTANTS
    Callers = {c1, c2}
    Rpm = 2
    Window = 5
    MaxTime = 9
    Jobs = {j1}
    Boots = {b1}
    Seeds = {s1, s2}
    SeedBars = {d1, d2}
    Candles = {d2}
    BenchBars = {d3}
    Bench = bench
    Threads = {t1, t2}
    Ttl = 2
    MaxNow = 4
    Uploads = {u1}
    Filings = {f1}
    Embeds = {e1, e2}
    Edgar = edgar
    Indexes = {1, 2}
    Documents <- MCDocuments
    Target = 4
    Overlap = 2
    Computations = {k1, k2}
    MaxSnapshots = 4
    Texts <- MCTexts
    RecursionLimit = 11
    Requests = {r1, r2}
    NoRequest = NoRequest
    Tickers = {x1, x2}
    Deliveries = {v1, v2}
    Readers = {q1, q2}
CHECK_DEADLOCK FALSE
INVARIANT TypeOK
INVARIANT WindowRemembered
INVARIANT OnlyPassedCount
INVARIANT AnnouncedWasStored
INVARIANT OneSeedSeries
INVARIANT EmbeddedMeansStored
INVARIANT ChunksCover
INVARIANT CitedPagesAreTrue
INVARIANT FreefallIsNoBuy
INVARIANT LaterIsNewer
INVARIANT VersionsGapless
INVARIANT InvalidIsTheModels
INVARIANT StepsSuffice
INVARIANT OnlyTheHolderFetches
INVARIANT LateReadsKeepAnalysis
PROPERTY NeverEmptied
PROPERTY HitIsFresh
PROPERTY ImplementsWorkerRun
PROPERTY RecordKept
PROPERTY EveryReadReturns
