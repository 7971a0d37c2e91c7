SPECIFICATION MarketSpec
CONSTANTS
    Jobs = {j1, j2}
    Boots = {}
    Seeds = {}
    SeedBars = {d1}
    Candles = {d2}
    BenchBars = {}
    Bench = bench
CHECK_DEADLOCK FALSE
INVARIANT FetchedIsAnnounced
