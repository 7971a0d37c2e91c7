----------------------------- MODULE MCServices -----------------------------
(***************************************************************************)
(* The components beside the job pipeline on small instances.  They share  *)
(* no state, so each behaviour here is one of a single component, chosen   *)
(* by focus in the initial state; the others stay where they begin.        *)
(***************************************************************************)
EXTENDS RateLimiter, MarketStore, HistoryCache, DocumentStore, Chunking,
        CompositeSignal, SignalSnapshots, Analysis, CacheAside, TraceIndex

VARIABLE focus

\* Every way to lay out up to eight words on three pages
MCDocuments ==
    {s \in UNION {[1..n -> 1..3] : n \in 1..8} :
        \A i \in 1..(Len(s) - 1) : s[i] <= s[i + 1]}

\* No verdict, one, one in another case, and two that contradict each other
MCTexts ==
    {{}, {<<"BUY", "exact">>}, {<<"INVALID", "exact">>}, {<<"SELL", "cased">>},
     {<<"SELL", "exact">>, <<"BUY", "cased">>}}

TypeOK ==
    /\ LimiterTypeOK
    /\ MarketTypeOK
    /\ HistoryTypeOK
    /\ DocumentTypeOK
    /\ ChunkingTypeOK
    /\ SignalTypeOK
    /\ SnapshotTypeOK
    /\ AnalysisTypeOK
    /\ CacheTypeOK
    /\ TraceTypeOK

Init ==
    /\ focus \in {"limiter", "market", "history", "documents", "chunking",
                  "signal", "snapshots", "analysis", "cache", "trace"}
    /\ LimiterInit
    /\ MarketInit
    /\ HistoryInit
    /\ DocumentInit
    /\ ChunkingInit
    /\ SignalInit
    /\ SnapshotInit
    /\ AnalysisInit
    /\ CacheInit
    /\ TraceInit
    /\ focus # "market" => ~known
    /\ focus # "chunking" => pageOf = <<1>>
    /\ focus # "signal" =>
          indicators = [sma |-> "NEUTRAL", rsi |-> "none",
                        bb |-> "WITHIN_BANDS",
                        risk |-> [sharpe |-> "none", drawdown |-> "none"]]

Next ==
    /\ UNCHANGED focus
    /\ IF focus = "limiter" THEN LimiterNext ELSE UNCHANGED limiterVars
    /\ IF focus = "market" THEN MarketNext ELSE UNCHANGED marketVars
    /\ IF focus = "history" THEN HistoryNext ELSE UNCHANGED historyVars
    /\ IF focus = "documents" THEN DocumentNext ELSE UNCHANGED documentVars
    /\ IF focus = "chunking" THEN ChunkingNext ELSE UNCHANGED chunkingVars
    /\ IF focus = "signal" THEN SignalNext ELSE UNCHANGED signalVars
    /\ IF focus = "snapshots" THEN SnapshotNext ELSE UNCHANGED snapshotVars
    /\ IF focus = "analysis" THEN AnalysisNext ELSE UNCHANGED analysisVars
    /\ IF focus = "cache" THEN CacheNext ELSE UNCHANGED cacheVars
    /\ IF focus = "trace" THEN TraceNext ELSE UNCHANGED traceVars

servicesVars ==
    <<focus, limiterVars, marketVars, historyVars, documentVars, chunkingVars,
      signalVars, snapshotVars, analysisVars, cacheVars, traceVars>>

Services == Init /\ [][Next]_servicesVars

\* Only the reads of the cache are asked to end.
FairServices == Services /\ CacheFairness
=============================================================================
