# Verification of the async fintech gateway

TLA+ models of the gateway's asynchronous core, the TLC configurations that check them on small
instances, and TLAPS proofs of what matters most for every instance. Paths below are relative to
the repository (`src/`), `app/` stands for `src/backend/app/`.

## 1. The system

A client posts a ticker; the API process writes a job key to Redis and publishes the job to a Redis
stream; consumers, embedded in the API process or in a stand-alone worker container
(`backend/docker-compose.yml:33`), run the analysis and write the result back; the dashboard follows
the job over a WebSocket and by polling.

```
 browser ---POST---> API process --SET job key, XADD--> Redis stream / group / PEL
    ^  ^                 |   ^                              | XREADGROUP, XAUTOCLAIM, XACK
    |  '---- poll -------'   |                              v
    '---- WebSocket frames --' ConnectionManager <--- consumer tasks --> circuit breaker, semaphore
                                                           |--> job key, batch key, cache, DLQ
 GET /results --> CacheAsideManager --> Redis cache + lease lock --> PostgreSQL
```

| Component | State | Operations | Hard because |
|---|---|---|---|
| Stream broker, `app/core/broker.py` | stream, group position, pending-entries list (PEL) with delivery counts, dead-letter stream | ensure group, enqueue, reclaim, route to DLQ, delivery count | redelivery, two-step dead-lettering |
| Stream consumer, `app/workers/consumer.py` | live asyncio tasks, job and batch keys | start, poll, reclaim, process, drain | tasks of the same job interleave; crashes; lost replies; swallowed errors |
| Command edge, analysis worker, `app/routers/intelligence.py` | job key, batch key | submit, submit batch, run analysis | order of writes and publication; partial failure |
| Circuit breaker, `app/core/resilience.py`; semaphore and controller in `consumer.py` | circuit, counts, trials; semaphore object, limit | can_execute, record_success/failure; scale, clamp | one singleton asked by the loop and by all tasks; the semaphore is replaced under its holders |
| Cache-aside, `app/core/cache.py`; trace keys, also in `intelligence.py` and `consumer.py` | cache entry, lease lock, trace keys | read, store, index the trace, invalidate; the worker's write-through, quarantine, the trace route | expiry at any moment, purge during a fetch, dying leaders, slow reads that store what is out of date; look and write are two calls |
| Live feed, `app/routers/websocket.py`, `useWebSocket.ts`, `dashboard/[ticker]/page.tsx` | connection and sequence per job id; socket, last sequence number, shown status | register, push, broadcast, prune; reconnect, check sequence, poll, show a cached memo | four writers of one status, lost and reordered |
| Rate limiter, `app/core/limiter.py` | sorted set of time stamps per client address | sweep and count, refuse, add | count and add are two calls; the key's TTL is set between them |
| Price table, `app/routers/market.py`, `app/main.py`, `app/core/production_seeder.py` | rows of `market_pricing`, unique per ticker and time | live fetch, backfill, seeding, upsert | check, delete and insert of overlapping transactions |
| History cache, `app/routers/market.py` | one entry per ticker and interval in the process | look up, fetch, store, answer stale; merge the latest row into the cached candle | threads that take the time long before they store; writes into the entry outside its lock |
| Documents, `app/routers/documents.py`, `app/workers/edgar_worker.py`, `app/core/document_parser.py` | Redis keys of a document, rows of `document_chunks` | ingest, chunk, embed, sync a filing | two embeddings at once, keys that expire, half-failed writes |
| Analysis graph, `app/graph/`, `app/routers/intelligence.py` | state of the LangGraph run, outcome of the job | agent, tools, reporting, gatekeeper; complete, fail | two parsers of one report, retries against a recursion limit |
| Analytics, `app/core/analytics.py` | rows of `signal_snapshots` | score, store a new version | read-then-insert of the version |
| Trace aggregator, telemetry, event emitter, chaos drills, consoles, audits | – | – | no shared control of their own |

What makes each correct: *broker and consumer* – a delivered job is never lost, never settled without
evidence, always settled in the end, dead-lettered only when exhausted; a batch is completed exactly
when all its jobs concluded. *Breaker and concurrency* – consistent counts, no permit lost or
invented, no waiter stranded, an open circuit clamped, ingestion resumes. *Cache* – a lease has one
believer, every read returns, what a worker wrote is not undone by a read that began later, nor the record
under a trace id by one that met the id in the worker's entry. *Live feed* – the page ends up showing how
the job ended. *Limiter* – the window forgets nothing, and requests that overlap exceed the limit by no
more than their number. *Prices* – only what was stored is announced, the
seeded series is one series, the table is never emptied, a cache hit is not older than its TTL.
*Documents* – what is reported as embedded can be searched in full, chunks cover the text and cite true
pages. *Analysis* – a verdict is the model's, the last frame and the job key agree, snapshots are
numbered forwards.

## 2. Modules

| Module | Models | State and actions against the code |
|---|---|---|
| `Broker` | the stream, its group and the DLQ | one action per function of `broker.py` and per Redis command it stands for; `deliveries` is the PEL's counter kept as history |
| `Submission` (extends `Broker`) | the command edge | `PrewarmJob`, `PublishJob`, `PrewarmBatch`, `PublishBatchJob`: one step per await of the two POST routes |
| `Consumer` (extends `Submission`) | worker processes and their tasks | `task[t].pc` is the await `_process_single_message` is at; `Analyse` to `RecordFailure` is `run_intelligence_worker` |
| `AtLeastOnce` | what the queue promises | `delivered`, `evidence`, `settled`; abstract specification |
| `ConsumerProperties` | properties of `Consumer`, its refinement of `AtLeastOnce`, the inductive invariant | – |
| `ConsumerProofs` | theorems about `Consumer` | – |
| `MCConsumer` | symmetry for TLC | – |
| `CircuitBreaker` | `GroqLLMCircuitBreaker` | its methods are synchronous: one step each |
| `LlmGate` (extends `CircuitBreaker`) | the polling loop, tasks, semaphores and controller of one worker process | `sem`/`permits` are semaphore objects; `task[j].sem` is the object a task entered; `totalLag` is what the controller was answered before it resumes (`ReadLag`, `Scale`) |
| `CacheAside` | `get_cached_result` for one ticker beside the worker's write-through, with purges, expiries and crashes | `req[r].pc` is the await a request is at, its name the lock token; `entry` says whether the payload is an analysis or a baseline; `lost` and `excused` are histories |
| `TraceIndex` | the key `trace:{trace_id}` of one trace id, which the jobs of a batch share, and all its writers | `Record` and `Prime` are the two writes of `run_intelligence_worker`, `Quarantine` the one of the consumer; `Look` and `Make` the two calls of `_index_trace_snapshot` and of `GET /trace`; `named` tells for each ticker who put the id into its cache entry, `reader[r].from` whom a read has it from |
| `LiveFeed` | `ConnectionManager`, the socket endpoint, the hook, the page | `conn`/`sequence` are the two dictionaries at one job id; `handler[k]` is the endpoint coroutine of socket `k`; `ShowMemo` is `fetchCachedIntelligence`, and `memoed` says that it wrote the view last |
| `RateLimiter` | `RateLimiter.__call__` for one client | `hits` and `deadline` are the Redis key; the pipeline is one step (`Block`, `Pass`, `SweepFails`), the later `ZADD` another (`AddStamp`, `AddFails`) |
| `MarketStore` | the writers of `market_pricing` for one ticker | `job`, `boot`, `seed` are runs of the three kinds of writer, a step per statement or commit; `rows` is what is committed, with its writer |
| `HistoryCache` | the entry of one key, `_fetch_yfinance_history_sync` and the merge of `get_market_history` | a thread takes the time, looks up under the lock, fetches, stores under the lock; then the request reads the database (`ReadRows`) and writes the latest row into the last candle (`Merge`), the cached one if it still shares it; `cached.asOf` and `cached.live` are the ages of the list and of that candle |
| `DocumentStore` | keys and rows of documents | `Ingest`; `ReadMeta`, `ReadChunks`, `DeleteRows`, `InsertRows`, `MarkEmbedded` are the awaits of `embed_document_chunks`; `SyncRows`, `SyncMeta` the two halves of a filing's sync; each key expires |
| `Chunking` | `chunk_document`, word by word | `pageOf[k]` is the page of word `k`; `from`, `next`, `span` are `accumulated_words` and `chunk_pages` |
| `CompositeSignal` | the score of `compute_composite_signal` | one step for every combination of indicators |
| `SignalSnapshots` | the row it then writes | `ReadVersion` is the SELECT, `InsertSnapshot` INSERT and commit |
| `Analysis` | one run of `run_intelligence_worker` in detail; `Consumer` has the graph as one step | `node` is the graph node, then the worker's own await; a report is the set of verdicts it spells |
| `MCServices` | the modules from `RateLimiter` on, `CacheAside` and `TraceIndex`, for one run | they share no state; `focus` picks the component that moves |
| `WorkerRun` | what `run_intelligence_worker` promises of one job | `phase`, `key`, `told`; abstract specification |
| `LlmGateProofs`, `CacheAsideProofs`, `LiveFeedProofs`, `RateLimiterProofs`, `AnalysisProofs` | theorems about the modules of the same names; `CacheAsideProofs` also about `TraceIndex`, `AnalysisProofs` also about `CompositeSignal` and `SignalSnapshots` | – |
| `StoreProofs` | theorems about `MarketStore`, `HistoryCache`, `DocumentStore`, `Chunking` | – |
| `ServicesProofs` | theorems about the composition of `MCServices` | – |

Operators marked "Mutant" are deliberately wrong variants of the definition below them; a property
must fail when the variant takes the definition's place.

### Abstractions

* A job is published once under a fresh uuid4, so its name is its stream entry. Malformed entries,
  which no code of the repository publishes, are left out.
* Time: an entry may be claimed whenever it is pending (the code waits 30 s, which a job waiting for
  the semaphore or for the LLM easily exceeds); leases, cache entries and waits may run out at any
  moment; the breaker's cooldown is a flag that becomes true. Job keys do not expire (3600 s), and a trace
  (3600 s) outlives the cache entries (300 s) and reads that name it.
* `Consumer` lets a task wait as long as it likes where the code waits for the semaphore or the
  breaker; `LlmGate` models those and reduces the stream to unread and pending entries. There, an entry
  another task of the process holds is not reclaimed, and the three calls after the analysis are one step.
  A call there may raise a rate limit or another error. In the code `run_intelligence_worker` catches
  nearly everything (`intelligence.py:230`), so trips are rarer than in the model; what still escapes
  are errors of the except branch itself.
* Where time matters it is a clock: in `RateLimiter` every stamp is another one (`time.time()` is fine
  enough), in `HistoryCache` reads of one instant are possible. Processes and Redis agree on the time.
* PostgreSQL's transactions are those of READ COMMITTED: a step per statement that reads what others
  committed, unique constraints decided when the transaction commits. An INSERT that meets the
  uncommitted row of another transaction waits for it, so nothing is lost by deciding there.
* Fresh ids (uuid4, `datetime.now()`) are nobody else's and stand for themselves. What writes only under
  an id that nobody has yet – ingestion, a filing's rows – is one step with the partial failures it may
  have; so is `ProductionSeedManager`'s single transaction of upserts, taken at its commit.
* Scores are counted in twentieths, since the weights are 0.30, 0.25, 0.25 and 0.20; indicators are
  the classes the code sorts them into. Reports are sets of verdicts, each spelled exactly as the
  gatekeeper searches for it or in another case.
* Payloads are their status. `LiveFeed` has one job; frames about other jobs are left out.
* A Redis call that fails after it took effect is the effect followed by the failure (`DeliveryLost`,
  `RecordFailureRaises`, `RedisFails`).

## 3. Runs

| Run | Instance | Shows |
|---|---|---|
| `consumer_safety` | 2 workers, 2 tasks, a batch of 2 jobs, limit of 1 delivery, 1 fault | safety of the pipeline and refinement of `AtLeastOnce` (1.1 M states) |
| `consumer_liveness` | 2 workers, 2 tasks, 1 job, 2 deliveries, 2 attempts, 2 faults | `DeliveredIsSettled` |
| `batch_concludes` | 1 worker, 2 tasks, a batch of 1 | **violated**: see below |
| `quarantine_untried` | 1 worker, 4 tasks, 3 deliveries as in the code | **violated** |
| `llm_gate` | 2 jobs, limits 1..2, threshold 2, 2 attempts, 2 failing calls | breaker and semaphore properties |
| `ingestion_resumes` | 2 jobs, threshold 1, 1 failing call | **violated** |
| `hard_cap` | 3 jobs, limits 1..2 | **violated** |
| `live_feed` | 2 sockets, 1 failing read, 1 status request in flight | a row that polls while pending settles, unless a failed request or a memo wrote last; first socket delivers |
| `card_settles` | 1 socket, polling as the single-job card does | **violated** |
| `services` | the ten components of `MCServices`, instances below | 17 safety properties beside the types, `Analysis` implements `WorkerRun`, and every read of the cache returns |
| `live_price` | 2 fetches, 1 daily candle | **violated** |
| `strict_limit` | 2 requests at a time, limit 2 | **violated** |

Why the bounds are enough: the hazards are about two tasks on one job (2 slots), of one worker or two,
about another job that the batch waits for (2 jobs), and about one thing going wrong at the worst
moment (1 or 2 faults). A delivery limit of 1 lets the second delivery exhaust a job; the proofs cover
every other value. Two cache requests give a leader and a waiter that becomes its successor, each of
which may be the slow read that meets the write-through; `CacheAsideProofs` covers any number. In `LlmGate` four
semaphore names suffice for two jobs: the current one, the one each task entered, a fresh one. In
`LiveFeed` two sockets give an old handler that prunes a new connection; a reply read before a frame
and applied after it needs one request in flight. `MaxFaults`, `MaxErrors`, `MaxSockets` (the hook's
`MAX_RETRIES`) and the number of task slots bound what the program bounds otherwise or not at all.
Deadlock checking is off everywhere: all these systems stop when the jobs are done.

The instances of `services`: *limiter* – 2 requests at a time, limit 2, window 5, clock up to 9, so that
the window and the key's TTL pass while a request is between count and add. *Prices* – one live fetch, one
backfill, two seedings of 2 bars, `ProductionSeedManager`, and a candle at the time of a seeded bar: two
writers of every kind of conflict. *History* – 2 requests, TTL 2, clock up to 4: an entry expires
while a request that shares its candle is between the database and the merge. *Documents* – an upload and
a filing of 2 chunks, 2 embedding runs. *Chunking* – every text of up to 8 words on 3 pages, chunks of 4
with an overlap of 2: up to 4 chunks, page borders inside overlaps. *Signal* – every combination.
*Snapshots* – 2 overlapping computations, 4 rows. *Analysis* – 5 answers of the model, among them a
contradictory one, recursion limit 11, which tool rounds reach and rejections do not. *Cache* – 2 requests
beside one write-through at a time. *Traces* – 2 tickers (sibling jobs of a batch), 2 runs under way, 2 reads:
one looks while the other writes. `MaxTime`, `MaxNow` and `MaxSnapshots` end what has no end in the code.
Only the reads of the cache are assumed to be fair (`CacheFairness`), for `EveryReadReturns`.

### What the violated runs show

* `batch_concludes`: `consumer.py:172` returns from the quarantine branch without
  `_update_batch_progress`; a batch whose last job is dead-lettered stays `queued` although line 386
  counts `dead_lettered` as concluded.
* `quarantine_untried`: reclaiming the entries of tasks that merely wait for the semaphore counts as
  delivery; the job is dead-lettered "after n failed attempts" (`consumer.py:130`) with none made.
* `ingestion_resumes`: the polling gate (`consumer.py:426`) consumes the single trial of the half-open
  circuit; an empty read gives it to nobody, and with no task left to succeed the loop pauses for ever.
* `hard_cap`: holders of a replaced semaphore and of the new one together exceed `MAX_CONCURRENCY`.
* `card_settles`: the card polls only while `processing` (`page.tsx:232`, `249`), the batch rows also
  while `queued`; a card that has seen `queued` is stranded if no frame comes, as for a quarantined job
  or one run by the stand-alone worker, whose `ConnectionManager` has no clients.
* `live_price`: Yahoo's daily candle has the same time all day. The first fetch stores it; each later
  one violates `uix_ticker_timestamp`, which line 155 of `market.py` catches, so the newer price is neither
  persisted nor broadcast, although the docstring (`market.py:74`) promises both.

* `strict_limit`: the count of the window is taken by a pipeline (`limiter.py:22`), the stamp added by a later
  call (`limiter.py:46`). Requests of one address that overlap are compared with the same count and pass
  together, although `market.py:19` calls the limit strict and the refusal (`limiter.py:40`) says
  "Maximum {self.rpm} requests per minute allowed." By how much it can be exceeded is proved
  (`OvershootIsBounded`).

Three more observations hold in the models without contradicting any text of the repository: a weighted
score below 60 loses less by a drawdown of more than 50 % at a negative Sharpe ratio (a cap of 45) than by
one of more than 35 % (15 points off); overlapping computations may store two snapshots of one version,
so `LaterIsNewer` promises no more than order; a cached memo that arrives while a job runs marks its card
completed and ends the polling, so that a dead letter is never shown (`ViewSettles` excepts it).

### Fairness

asyncio runs every ready coroutine, so steps of tasks, requests and handlers are weakly fair.
*Consumer*: a container runtime restarts a dead worker; each due pass of the loop claims everything
idle, so `Reclaim` is fair – strongly, because the model's task slots may all be taken for a while.
Polling is **not** assumed fair: `ingestion_resumes` shows that it is not. Faults are finite.
*LlmGate*: `asyncio.Semaphore` wakes waiters in order (strong fairness of `Acquire`); reclaiming
precedes the gate in the loop (strong fairness of `Reclaim`); time passes (`Tick`); the controller is not
assumed to run. *CacheAside*: only
the requests themselves are fair; no expiry is assumed. *LiveFeed*: frames and replies arrive while
their connection lasts and the interval timer fires; nothing forces a connection to exist or stay.

## 4. Proofs

`ConsumerProofs` assumes only the named assumptions on the constants (a positive delivery limit, the
batch is a set of jobs, names that stand for "none" are not jobs or workers) and proves for every
number of jobs, workers, tasks, retries and faults:

* `InvInductive`: `IInv` is inductive. `NoEntryLost` alone is not: that an acknowledgement has
  evidence depends on what its task established several steps before. `TaskOK` records that for each
  step (a task at `ack` has analysed its job, one at `dlq_ack` has dead-lettered it, one in the
  quarantine branch has seen an exhausted count); `StreamInv` makes entries unique and pending ones
  delivered; `KeysInv` and `OutcomeInv` link stream, keys and history. `Grow` is the rely condition:
  no step of anybody takes back what another task has established. Each broker operation gets one
  lemma about the data invariant, each task step one case.
* `TypeCorrect`, `NothingLost`, `QuarantineSound`, `BatchSound`, `PickupPrewarmed` follow from it.
* `RedeliveryOnly`: a concluded job goes back to `processing` only if its entry was delivered twice. It
  needs `OnceInv`, inductive relative to `IInv`: a job delivered once has one task, which found it unfinished.
* `TasksGoForward`: a task's attempts, its place in one and the batch members it has read only grow, and its
  delivery stays the same, until it ends. So every reclaimed entry has an end to wait for: the safety half
  of `DeliveredIsSettled`.
* `Refinement`: `Consumer` implements `AtLeastOnce`. `ReadNew` is *Deliver*, the first written result
  or dead-letter entry is *Record*, `XAck` is *Settle*, everything else stutters.

Each of the other proof modules has an `IInv` of its own. What it adds to the properties, and why:

* `LlmGateProofs`, from the assumptions on the limits: `TypeCorrect`, `BreakerIsConsistent`,
  `PermitsAreConserved`, `OpenStaysClamped` (every way into `OPEN` clamps before anybody else runs, and a controller
  that resumes with an older lag looks at the circuit of now). That permits stay within their bounds is no matter of types:
  `Conserved` balances free and held permits of each semaphore object, the current one against the limit,
  the replaced ones against the greatest concurrency from above and, as long as a task knows them, the
  smallest from below. So `WaitersAreServed` – who waits finds a permit or a holder who will return
  one, the safety half of `TasksEnd` – and `CapHoldsPerSemaphore`, the part of the cap that `hard_cap` leaves
  standing. `UnreadIdle` keeps a task from being started twice for one entry; from it `TasksGoForward`: the
  attempts left and the place in the attempt are a measure that falls with every step of a task.
* `CacheAsideProofs`, for any set of requests: `CacheTyped`; `LeaseSound` (the lock names one request,
  leadership starts only at the lock, whoever takes the lock from a fetching leader leaves a record) and
  from it `StampedeProtected`: of two leaders at the database one has lost its lease; `LateReadsSound`
  (inductive as it stands, given the types). `ReadsGoForward`: a read takes eight steps at most, the safety
  half of `EveryReadReturns`. On `TraceIndex`, for any tickers, runs and reads: `TraceTyped` and
  `RecordsAreKept`, from `WorkersTraceIsThere`: wherever a trace id has got from a worker (a run about to
  prime, an entry, a read about to look) the trace is there, because a worker records before it primes and
  nobody deletes a trace; so such a read finds it, whatever siblings, quarantines and other reads do.
* `LiveFeedProofs`, for any number of sockets, polls and errors: `TypeCorrect`; from `ToldInv` (whatever is
  cached, sent, replied or shown, except by a memo, names no end but the job's) `OutcomesAreTrue` and `WrongViewIsPolled`, the
  safety half of `ViewSettles`; from `FirstInv` (on the first socket the frames are numbered on from the
  last one the hook saw, without a hole) `FirstSocketIsOrderly` and `ResultIsKept`, the safety half of
  `FirstSocketDelivers`.
* `RateLimiterProofs`, for any number of requests, any limit and window: `LimiterTyped`,
  `WindowIsRemembered`, `PassedOnly`, `OvershootIsBounded`. `Stamps` keeps stamps under way distinct, past and
  unrecorded; `ExpiresLate` says that the TTL outlives every stamp recorded or about to be. The last theorem
  bounds the cardinality of a window by the stamps counted and those of requests still between count and add.
* `StoreProofs` on prices: `OneSeriesAlways`, `AnnouncedIsStored`, `TableNeverEmptied` from `SeedTimes`
  (seeded rows are at the seeded times, so two whole series would collide in the unique constraint) and
  `Committed` (who is about to announce a bar has committed it); `HitsAreFresh` for `HistoryCache`, from
  `StampedEarly`: an entry's stamp is not later than its list or than
  any row merged or about to be merged into its candle.
* `StoreProofs` on documents: `EmbeddedIsStored` from `RunsOfUploads` (a run deletes rows of its own
  document), `CommittedBeforeMarked` (who is about to mark a document has committed all its rows) and
  `NoRowsBefore`. For every text, chunk length and shorter overlap `ChunksAlwaysCover` and `CitationsAreTrue`:
  `Carried` ties the accumulated words to the end of the last chunk, `SpanIsTrue` the collected pages to
  accumulated words; and `ChunksAreLaidOut`, which compares the loop with the closed form of what it computes.
* `AnalysisProofs`: `InvalidIsSaid`, `StepsAlwaysSuffice`, `FramesAgree` from `StepsAccounted` (steps as a
  function of tool rounds and rejections), `ReportIsChecked` and `FrameComesLast`. `AnalysisRefines`: `Analysis`
  implements `WorkerRun`, with `KeyFollowsNode` for what the key holds at which node; the graph stutters, its
  end is *Complete*, the except branch *Fail*, a frame *Tell*, and what escapes the worker *Escape*.
  `NoBuyInFreefall` by cases; `NumberingIsForward` and `NoVersionMissing` from `BasesAreEarlier` and
  `PendingVersions` (a version about to be inserted is above all rows its SELECT saw, and no number below it
  is missing).
* `ServicesProofs`: `PartsImplemented`, the composition of the ten components implements the
  specification of each of them, because no two share a variable; so `ServicesTyped` follows from the type
  theorems of the parts, and every other theorem about a part holds of the composition.

Only model-checked: liveness under fairness (`DeliveredIsSettled`, `TasksEnd`, `PendingIsSettled`,
`OpenIsLeft`, `EveryReadReturns`, `ViewSettles`, `FirstSocketDelivers`), since the prover handles neither it
nor ENABLED. Every safety property of a passing run is also a theorem.

## 5. Not modelled

Most of the repository's lines are React components, type declarations, static catalogues served as JSON
(API specification, architecture, topology), request schemas, audit scripts and load testers: they keep
no state that two operations change, and no model stands for them. In detail:

* Read-only routes and views, the DLQ view, the spans of the trace view, the memo's text; authentication;
  ping and pong.
* Of the dashboard: batch matrix, reload from local storage, tab synchronisation, charts and layout.
* Data: prices, indicators as SQL computes them, prompts, texts, vectors and similarity search, PDF
  extraction, the synthetic filing.
* `ProductionSeedManager`'s signals and passages: fixed rows, upserted by one caller. The stand-alone
  script `seed_premium_data.py`, which deletes and reinserts prices when an operator runs it: `NeverEmptied`
  and `OneSeedSeries` speak of the application's own writers.
* Trace aggregator, telemetry, event emitter: nothing in the system decides by them.
* Chaos drills: the same broker operations on streams of their own.
* Code that nothing calls: the EDGAR daemon, `run_batch_intelligence_orchestrator`, `acquire_mutex`.

`PROJECT.json` gives the reason for each component and lists the hazards no property covers.

## 6. Plan

Done, in this order: broker, submission and consumer with the abstract queue and its proofs; breaker and
concurrency; cache lease; live feed; the contents of the cache and the trace index; rate limiter; price table and
history cache; documents and chunking; analysis graph; composite signal and its snapshots; proofs of their
safety properties and of the safety halves of most liveness properties. Next:

1. `LiveFeed` with a second job of the same ticker, and the dashboard's batch matrix and tab synchronisation.
2. A run against README.md:89, which expects repeated failures in the dead-letter queue.
3. Theorems for what 1 and 2 add; of the present properties only liveness is left to TLC.
