--------------------------- MODULE ServicesProofs ---------------------------
(***************************************************************************)
(* What is proved of each component alone holds of it beside the others:   *)
(* the composition of MCServices, over every behaviour and for every value *)
(* of the constants, implements the specification of each of its parts.    *)
(***************************************************************************)
EXTENDS MCServices, RateLimiterProofs, StoreProofs, AnalysisProofs,
        CacheAsideProofs

\* A step of the composition is a step of a component or leaves it alone,
\* because no two components share a variable.
LEMMA EveryStepIsTheirs ==
    ASSUME [Next]_servicesVars
    PROVE  /\ [LimiterNext]_limiterVars
           /\ [MarketNext]_marketVars
           /\ [HistoryNext]_historyVars
           /\ [DocumentNext]_documentVars
           /\ [ChunkingNext]_chunkingVars
           /\ [SignalNext]_signalVars
           /\ [SnapshotNext]_snapshotVars
           /\ [AnalysisNext]_analysisVars
           /\ [CacheNext]_cacheVars
           /\ [TraceNext]_traceVars
<1>1. CASE Next
  BY <1>1 DEF Next
<1>2. CASE UNCHANGED servicesVars
  BY <1>2 DEF servicesVars
<1>. QED
  BY <1>1, <1>2

\* Refinement: put side by side, each component still does only what its own
\* specification allows, so that every theorem about it carries over.
THEOREM PartsImplemented ==
    Services => /\ LimiterSpec /\ MarketSpec /\ HistorySpec /\ DocumentSpec
                /\ ChunkingSpec /\ SignalSpec /\ SnapshotSpec /\ AnalysisSpec
                /\ CacheSpec /\ TraceSpec
<1>1. Init => /\ LimiterInit /\ MarketInit /\ HistoryInit /\ DocumentInit
              /\ ChunkingInit /\ SignalInit /\ SnapshotInit /\ AnalysisInit
              /\ CacheInit /\ TraceInit
  BY DEF Init
<1>2. Services => LimiterSpec /\ MarketSpec
  BY <1>1, EveryStepIsTheirs, PTL DEF Services, LimiterSpec, MarketSpec
<1>3. Services => HistorySpec /\ DocumentSpec
  BY <1>1, EveryStepIsTheirs, PTL DEF Services, HistorySpec, DocumentSpec
<1>4. Services => ChunkingSpec /\ SignalSpec
  BY <1>1, EveryStepIsTheirs, PTL DEF Services, ChunkingSpec, SignalSpec
<1>5. Services => SnapshotSpec /\ AnalysisSpec
  BY <1>1, EveryStepIsTheirs, PTL DEF Services, SnapshotSpec, AnalysisSpec
<1>6. Services => CacheSpec /\ TraceSpec
  BY <1>1, EveryStepIsTheirs, PTL DEF Services, CacheSpec, TraceSpec
<1>. QED
  BY <1>2, <1>3, <1>4, <1>5, <1>6, PTL

\* TypeOK of the composition, for every value of the constants.
THEOREM ServicesTyped == Services => []TypeOK
<1>1. /\ LimiterTypeOK /\ MarketTypeOK /\ HistoryTypeOK /\ DocumentTypeOK
      /\ ChunkingTypeOK /\ SignalTypeOK /\ SnapshotTypeOK /\ AnalysisTypeOK
      /\ CacheTypeOK /\ TraceTypeOK
      => TypeOK
  BY DEF TypeOK
<1>. QED
  BY <1>1, PartsImplemented, LimiterTyped, MarketTyped, HistoryTyped,
     DocumentTyped, ChunkingTyped, SignalTyped, SnapshotTyped, AnalysisTyped,
     CacheTyped, TraceTyped, PTL
=============================================================================
