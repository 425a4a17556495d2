# A TLA+ model of SentinelLog

SentinelLog takes log entries over HTTP, redacts them, queues them in a bounded
channel, writes them in batches to a store, embeds them and looks for anomalies
in the background, and answers structured, semantic and "why did it fail"
queries per tenant. Everything runs in one process. This directory models the
parts whose correctness depends on the order in which goroutines run, checks
them with TLC on small instances, and proves the most important results with
TLAPS for every value of the parameters.

File references are relative to the root of the repository.

## The system

| Part | State | Operations | Interacts with |
|---|---|---|---|
| ingest handler `internal/ingest/handler.go` | per request: decoded entries, loop index, two counters | `ServeHTTP` | limiter, redactor, buffer |
| buffer `internal/buffer/buffer.go` | a channel, two atomic counters | `Publish` (never blocks), `Consume`, `Close` | handlers send, the writer receives, main closes |
| batch writer `internal/writer/writer.go` | the batch | `Run`: receive, tick, drain, flush | buffer, store, the context of main |
| log store `internal/store/store.go` | append-only slice; ID = index + 1 | `WriteBatch`, `Since`, `Search`, `Get` | writer, workers, queries |
| lifecycle `cmd/ingest/main.go` | stage of the shutdown, a wait group | signal, `Shutdown`, `Close`, wait, exit | everything |
| rate limiter `internal/ratelimit/tokenbucket.go` | a bucket per tenant | `Allow`, `Sweep` | handlers, sweeper goroutine |
| embedding worker `internal/worker/embedworker.go` | checkpoint, contents seen, two counters | `Run`, `tick`, `process`, `Lag` | store (polls), vector store, `/metrics` |
| vector store `internal/vector/vector.go` | items per tenant | `Upsert`, `Search` | embedding worker, knowledge base, queries |
| anomaly worker, detector, feed `internal/worker/anomalyworker.go`, `internal/anomaly/` | checkpoint, baseline per series, ring of events | `tick`, `Observe`, `Push`, `Recent` | store, queries |
| query service `internal/query/` | none of its own | structured and semantic search, `WhyDidFail`, anomalies | rbac, audit, store, vector store, knowledge base, feed |
| audit log `internal/audit/audit.go` | a chain of records | `Append`, `Verify`, `Head` | query service |
| knowledge base `internal/kb/kb.go` | documents | `Add`, `GetByRef` | vector store, queries |
| redaction `internal/redaction/` | none | `Redact` | handler |
| metrics `internal/metrics/` | counters, histogram | `Observe`, `Render` | everything |
| rbac, authentication, configuration, embedder | none, or fixed at start | pure lookups and functions | their callers |

What is hard in it:

* **Shutdown.** One context stops the writer and the workers at the moment the
  signal arrives, while handlers go on publishing until `srv.Shutdown` has
  waited for them, or has given up. The channel is closed after that.
* **Backpressure.** Handlers race for the last places of the channel and must
  never wait; a request may be taken in part.
* **Batches.** Flushes on size, on the ticker, while draining and at the end;
  a store that fails drops the batch.
* **Clock readings before the mutex** in the limiter, on both sides.
* **Checkpoints.** Workers poll a store that grows under them, and mark work as
  done in an order that matters.
* **The exit.** The wait group counts four goroutines that learn of the end in
  three ways: the context, the closed channel of the sweeper, the last pass.
* **Metrics.** A page is put together from readings taken one after the other,
  and a histogram is created by whoever needs it first.

PROJECT.json lists these hazards one by one, at the line where each bites, with
the property that watches it.

What makes each part correct:

* hot path: nothing accepted is lost, duplicated or reordered on its way to the
  store; answers report what happened; no handler ever blocks; memory between
  clients and store is bounded; a shutdown ends and keeps what was accepted
  before the signal;
* limiter: no tenant exceeds burst plus refill in any window of time, whatever
  calls overtake each other and whatever the sweeper forgets;
* embedding worker: what the checkpoint has passed is searchable, each content
  once, citing its oldest entry; the lag reaches each threshold the backlog has
  reached, up to what it can count;
* anomaly worker: every entry is counted in exactly one window; the feed is
  bounded and tenant-scoped;
* query layer: nothing of another tenant is returned, refused actions leave no
  trace, granted ones leave an audit record first, citations resolve;
* audit log: a chain that is accepted reads as it was written, and no record is
  blamed without cause;
* metrics: the numbers on one page do not contradict each other, and no
  observation is lost or put into the wrong bucket;
* the process: it is its parts, so what holds of each holds of them together;
  every accepted entry becomes searchable, and a signal ends every goroutine.

## Modules

| Module | Role |
|---|---|
| `IngestContract` | what the hot path promises: accepted entries become durable in order, a clean exit waits for those accepted before the signal |
| `HotPath` | handlers, buffer, writer, store and main, one action per step another goroutine can observe; implements `IngestContract` |
| `HotPathProofs` | invariants, refinement, and how far handlers and writer are from their end, for all constants |
| `RateLimiter` | the token bucket and its sweeper |
| `RateLimiterProofs` | the window bound and what it rests on, for all constants |
| `EmbedWorker` | the embedding worker against a growing store, with the reader of the lag |
| `EmbedWorkerProofs` | checkpoint, citations, counters, lag, the last pass and its length, for all constants |
| `Detector` | the moving average of a series and its test, as operators |
| `Listing` | how a loop with a limit lists what is kept in the order of its arrival, as operators |
| `ListingProofs` | that such a list is in order, has no more than its limit, and omits only what is older, for every finite set of positions |
| `AnomalyWorker` | the anomaly worker, its baselines and the feed, against a growing store; extends `Detector` and `Listing` |
| `AnomalyWorkerProofs` | the counts, the alerts, the bounds of a baseline, the feed and the length of a window, for all constants |
| `AuditLog` | the chain of records, what may be done to it, and `Verify` |
| `AuditLogProofs` | that alterations are found and blames earned, for all constants |
| `QueryService` | requests of several tenants against stores that grow; extends `Listing`, composes `AuditLog` |
| `Metrics` | a histogram of the registry: look-up or creation, observation, cumulative buckets |
| `QueryMetrics` | the query layer with the latency histogram around its endpoints; composes `QueryService` and `Metrics` |
| `QueryProofs` | answers, citations, audit records and the histogram, for all constants |
| `System` | the process: extends `HotPath`, runs `EmbedWorker` on its store, and waits for every goroutine at the end |
| `SystemProofs` | the process behaves like its parts, what a clean exit leaves searchable, and how much of a shutdown is left, for all constants |
| `MCHotPath`, `MCRateLimiter`, `MCEmbedWorker`, `MCAnomalyWorker`, `MCAuditLog`, `MCQueryService`, `MCQueryMetrics`, `MCSystem` | values of the constants for TLC |

```
IngestContract <-- HotPath -----.            Detector <-- AnomalyWorker
                                 >-- System
                   EmbedWorker -'            AuditLog <-- QueryService --.
                                                                          >-- QueryMetrics
                   RateLimiter                            Metrics -------'

                                            Listing  <-- AnomalyWorker, QueryService
```

A definition whose comment says *Faulty* is a plausible mistake in the code it
stands next to. No specification uses it: it exists to be put in the place of
its neighbour, to see that a property notices (PROJECT.json, `mutants`).

### HotPath

A request is one process; `hpc[r]` is where `ServeHTTP` is, or how it answered.
An entry is `[req, idx, redacted]`: which request, its place in the array, and
the flag `Redact` sets. What `Validate` says of an entry is the only thing the
model keeps of its text: a body is a sequence of booleans. `Refuse` covers the
answers 401, 405, 429 and a body that does not decode.

`Publish` is two steps, as in the code: the channel operation (`PublishSends`,
`PublishFull`, or `PublishPanics` on a closed channel) and then the counter
(`CountAccepted`, `CountShed`).

The writer is one process. `mode` tells the outer select ("run") from the drain
loop ("drain") and the final flush ("last"); `wpc` is where it is: in a select,
at a flush, inside `WriteBatch`, returned. `WriteBatch` appends entry by entry,
as its loop does; the batch is consumed from the front where the code iterates
and then truncates, which no other goroutine can tell apart.

main goes through `mpc`: serving, signalled (the context is cancelled, which is
what `CtxDone` says), shutdown, close, waiting, and then exited or killed.
`ShutdownReturns` waits for every handler, as net/http documents it, and
`ShutdownExpires` may happen at any time. net/http lets a connection accepted
earlier deliver its request while Shutdown waits, hence `Arrive` is possible
then, and after a Shutdown that expired. `wg.Wait` waits for the other
goroutines too; they are in `System`. A second signal has no effect in
the code and is left out. Buffer and batch sizes are at least one, as configured
by default.

`sent` and `cut` are history: every entry sent on the channel in order, and how
many there were at the signal. `lost` counts entries that were dropped after
they were received.

### RateLimiter

Time and tokens are integers; the unit is what one tick of the clock refills. A
request costs `Cost` units and the ceiling is `Capacity`, so rate and burst are
free. Rounding of `float64` is left out. `ReadClock` and the three cases of
`Allow` are separate steps, because the code reads the clock before it takes the
mutex; so is the sweeper. `MaxStall` bounds the time between the two steps of a
call: without a bound a goroutine could present a stamp older than the TTL.

The assumption `Capacity + 2 * MaxStall <= TTL` says that an idle bucket is full
again well before it is deleted. With the defaults (1000 per second, burst 2000)
a bucket refills in two seconds and the TTL is ten minutes, so stalls of almost
five minutes are harmless. The code does not enforce it: with a burst worth more
than ten minutes of refill, deleting an idle bucket would grant tokens. That case
is assumed away, in the runs and in the proofs.

`win` is a window of time chosen at the start and never changed; `used` is what
each tenant was granted on stamps inside it. As the window is arbitrary, the
invariant speaks of all windows.

### EmbedWorker

The store is the sequence of the contents written so far, an entry's ID its
index; a content stands for what `ContentHash` hashes (tenant, service,
message). The hash is taken to be injective. `tick` is the steps `Poll` (read the
checkpoint), `Since`, then per entry `ProcessSeen`, or `ProcessNew` and `Upsert`,
then `Advance` (the checkpoint, under the mutex) and `OnEmbedded` (the metric,
after it). `Embed` is a function of the content and needs no step. `process`
returns nil on every path, so `pushDLQ` is never called and the dead-letter
queue is not modelled.

A scrape of `/metrics` is four steps. `Render` writes the counters before the
gauges and each kind by name, so the page shows `sl_embedded_total`
(`ScrapeEmbedded`), then `sl_embed_lag`, which is the two reads of `Lag`
(`LagBegins`, `LagEnds`), then `sl_store_written_total` (`ScrapeWritten`), while
worker and store move on. `shown` and `lag` are what the page says so far. `Lag`
counts at most a million entries (`LagLimit`), which its comment ("store head −
checkpoint") does not mention. So `LagReachesThresholds` speaks of thresholds: when n entries
are pending it says at least n, for n up to the limit, and beyond it a backlog
that grows cannot be told from one that shrinks. What
the page says was written is not stored in the model: when `ScrapeWritten` is
about to read it, it is at least the length of the store.

### System

`System` extends `HotPath` by the variables of `EmbedWorker` and instantiates
that module over `StoredContents`, the contents of the store the writer fills.
Its `WriteBatch` is replaced by the writer of `HotPath`, its `Signal` by main's,
its scrape is left out. One store thus has two views, and `EmbedWorkerRefined`
says that the surroundings are what `EmbedWorker` assumes.

`WriteBatch` of the store holds the mutex for a whole batch, so `Since` waits
while one is being appended (`StoreLocked`), which the writer's steps, one per
entry, would otherwise hide. Of the anomaly worker and the sweeper only whether
they have returned is kept: they change nothing the others read. The anomaly
worker returns once the context is cancelled; the sweeper, which does not watch
the context, once main has closed its channel, right after the buffer.

`Shutdown` is main after the signal. Its `ExitClean` needs `AllReturned`:
`wg.Wait` covers the writer and these three. `ExitForced`, the last timer, is an
action of its own, since no fairness is assumed of it. `ecut` is what `cut` is in
`EmbedWorker`: head and checkpoint when the context was cancelled.

### Detector and AnomalyWorker

`main` builds the detector with alpha = 1/4, so after n values the mean is a
multiple of 1/4^(n-1) and the variance one of its square. A baseline keeps the
two numerators and `scale` = 4^(n-1), and everything is exact; |z| >= threshold
is compared by squares. Rounding is left out, and with it the comparison of the
standard deviation with 1e-9, which here is with zero.

`tick` is the steps `Tick` (read the checkpoint, `Since`, count the errors of
each series), one `ObserveNormal` or `ObserveAnomaly` per series of the window,
`Push` and `OnEvent` after an anomaly, and `EndTick`, which moves the checkpoint.
The code ranges over a Go map, so the series are observed in any order. A series
with entries but no errors is observed with zero, one without entries is not.
The ctx.Done branch returns at once (`Leave`): this worker makes no last pass.
`Recent` is an operator, since it is one call under a mutex: `RecentIsNewest`
says in every state what a reader would get. The time of an event is its
number among the values of its series. What matches the tenant is given by its
positions in the ring, which `NewestFirst` lists from the end, up to the limit.

### AuditLog

A digest is the sequence of the lines that were hashed, the record's own last, so
SHA-256 is taken to be injective. The line is not: `hashRecord` joins the fields
with `|` and escapes none that occurs in a field. A text is therefore the sequence
of its pieces between separators, and `Joined` puts the texts of tenant, actor,
action and resource one behind the other: where one field ends and the next
begins is lost. Number, time and previous hash hold no separator and stand at the
ends of the line, so they are told apart. What the program itself appends is
`Plain`: the names of tenants and actors, from the table of `main`, and those of
actions, from `rbac`, are one piece, while a resource is a client's text of any
number of pieces. An altered record need not be plain.

`Append`, `Verify` and `Head` hold the mutex from end to end; `AppendRecord` is a
step, the others are operators on the records.

What the package promises is about records changed behind its back, which its
tests do by writing to the slice: `Change` a content, `Refit` the hashes of one
record to its content and predecessor, `Remove` a record. Their compositions
are all rewritings of the suffix of a chain that keep the numbers of its
records, with hashes that fit or not. The variables next to the slice
(`lastHash`, `seq`) are not altered; `lastHash` is the head that one would
anchor elsewhere.

`Reads` says what the hash can tell of a record: number, hashes, time and the
joined text are those of the record written, and so is each field, if the record
is plain. `AlterationFound` and `BlameIsEarned` are stated with it. A record that is
accepted and is not the one written is thus not plain: it has a separator
in its tenant, actor or action, which no record of the program has, and which
`Verify` does not look for.

### QueryService

A text is its topic: what a filter compares and what the score of a vector
depends on, by the table `Score`. `docs` is filled before the server starts, as
`seedKB` does; entries, vectors and events are then added at any time by
`WriteEntry`, `IndexEntry` and `RaiseEvent`, which stand for the other modules.
Each step of a request is a call that takes a lock of its own: the search of
the index, then a look-up per hit, so that both stores may have grown between.

`rpc[r]` goes from `entered` through the checks (`Forbid`, `Audit`) to `scan`
(structured search), or `retrieve` and `resolve` (semantic search). `WhyDidFail`
calls `SemanticSearch`, which checks and records again: `nested`. The audit log
is an instance of `AuditLog` over this module's variables, of which only
`Init` and `AppendRecord` are used; the resource of a record is one piece here, as
these properties do not look into it. The sort in `Search` is not stable: `TopK`
is the set of all lists it can produce. The filters of a structured search are
taken as one; `Scan` and `ReadFeed` list the positions of what matches, newest
first, `Grounded` those of the hits that reach `MinScore`, in the order of the
ranking (`NewestFirst` and `InOrder` of `Listing`). There is at least one
identity, which stands in `req` until a request arrives, and finitely many
requests. The branches for an empty tenant are not reachable, since each
configured identity has one, and the vectors of main all have the dimension of
the embedder. Summaries are text and left out; whether there is one is whether
the list of sources is empty.

### Metrics and QueryMetrics

`Observe` looks a histogram up under the lock of the registry, makes it if there
is none, and fills it under its own lock: `Find` and `observe`. `heap` holds the
histograms allocated and `hist` says which of them the registry has, so that an
observer may be left with one that no page shows; the code never lets that
happen, a registry that creates without looking would. `Rendered` adds up the
buckets as `render` does, by a recursive function; the sum of a histogram, a float, is left out.

`QueryMetrics` lets each request of `QueryService` observe a latency after its
answer, whatever the status, as `timed` does. All endpoints share one histogram.

## Runs

| Run | Shows | Bounds |
|---|---|---|
| `hot_path_safety` | conservation, order, honest answers, no blocking, bounded backlog, what a clean exit keeps | 2 requests, bodies of two valid entries, one valid and one invalid, none; channel 2, batch 2; a store that may fail |
| `system` | refinement of `IngestContract` and `EmbedWorker` by the whole process; what an exit leaves searchable; everything accepted is searchable eventually; a shutdown ends | 1 request of two entries with different contents, channel 1, batch 2, ticks of 1, a store that does not fail |
| `workers_exit_first` | a finding, below | as `system` |
| `buffer_lost_on_exit` | a finding, below | 2 requests |
| `rejected_but_stored` | a finding, below | 2 requests |
| `rate_limiter` | window bound, harmless sweeps | 1 tenant, 2 callers, capacity 3, cost 2, stall 2, TTL 7, clock to 11 |
| `embed_worker` | checkpoint, citations, counters, last pass, lag, a page of metrics that adds up | 2 contents, 6 entries, ticks of 2, lag limit 3 |
| `anomaly_worker` | each error counted once, alerts earned and not swallowed, bounded baselines, the feed, liveness | a series of each of 2 tenants, 6 entries, windows of 3, feed of 2, threshold 2, warm-up 2 |
| `audit_log` | what is accepted reads as written, the right record is blamed | 3 appends; 2 contents to append, one with a separator in its resource, and that one with the separator moved; any alterations |
| `middle_change_passes` | a finding, below | as `audit_log` |
| `query_answers` | tenant isolation, citations, ranking and limits while everything grows | 1 request, 3 identities of 2 tenants and 3 roles, 2 topics, 1 document, 3 writes |
| `query_audit` | granted searches are recorded, in the right name; every latency is in its bucket | 2 requests, 3 identities, 1 topic, 1 write; bounds 1 and 5, latencies 1, 3 and 6 |

Why the bounds are enough:

* hot path: two requests are the fewest that race for a place in the channel,
  that fill a batch from two sources, and of which one is in flight while
  Shutdown waits. Four entries fill the channel and a batch at once and leave
  one over to shed. Batches of two distinguish a flush on size from one on the
  ticker. Channels of two and of one (in `system`) cover a queue with an order and
  one that is full after every send. Two things are out of this run's
  reach and rest on the theorems: that channel and batch together hold no more than
  their capacities (`BacklogIsBounded`; four entries are no more than that), and that with a
  store that does not fail nothing at all is dropped, a clause of `Conservation`.
* system: what two requests can do to each other is in `hot_path_safety`; here one
  request meets the workers. Of its two entries the second may be shed, and the
  first flushed alone by the ticker, or both by size, or either by the drain or
  the last flush. A tick of one lets the embedding worker lag behind a batch, so
  that the last pass may cover the store or leave a rest.
* limiter: tenants share nothing but the sweeper, which looks at each bucket on
  its own, so one is enough. Two callers are the fewest that overtake. The clock
  runs past a TTL and a refill, so that a bucket is used, deleted and used again
  inside one window; the TTL is the smallest the assumption allows, and with a
  smaller one TLC finds a sweep that grants tokens.
* embedding worker: six entries need three ticks of two, batches that are
  longer than a tick, and repeat a content within a batch and across ticks. The
  lag limit is below the store's bound, so the lag saturates in the run; a scrape
  can span two ticks and a batch.
* anomaly worker: six entries are two full windows, or up to six short ones, so
  that a series learns several values, jumps and settles; a batch of more than a
  window's rest splits over two windows. Three events overflow a feed of two,
  with events of the other tenant in between.
* audit log: three records have a first, an inner and a last one, before and
  after an append on an altered chain. One separator is enough to move text between
  two fields, and the third content differs in its text.
* queries: a request only reads the stores and appends to the audit log, which
  no answer depends on; so one request beside the writers shows what any
  number gets, and two are the fewest whose records could be confused. Limits
  are 1, or the default of 2, with up to three entries and a document, so that
  hits are cut, tie and are dropped; one of the two topics is below `MinScore`.
  The feed limit of 1 is exceeded by the second event. Two requests are the fewest
  that race to create the histogram; their latencies fall on a bound, between two
  and above all.

Symmetry over the requests and the callers is used in `hot_path_safety` and
`rate_limiter`; these identifiers are only compared for equality, and no liveness is checked there.
Deadlock is checked in every run: a process that has exited stutters explicitly
(`Terminated`).

Fairness. `HotPath!ThreadFairness` says that a goroutine which can take a step
eventually takes it (handlers past decoding, the writer), and that the ticker
ticks. `System!SystemFairness` adds the embedding worker, the return of the other
two, and main, for which the deadline of Shutdown passes. Nothing is assumed of
clients (`Arrive`, `Decode`, `Refuse`), of the operator (`Signal`), or of the last
timer of main (`ExitForced`), so `ShutdownCompletes` shows that the timer is not
needed. Weak fairness is enough in the writer's select because the number of
requests is finite, so the receive branch is not ready for ever. The ctx.Done
branch of the embedding worker needs strong fairness: it competes with a ticker
that is ready again and again, and Go's select chooses among the ready ones at
random. `AnomalyWorker` assumes weak fairness of the worker outside its ctx.Done
branch: until the signal, its ticker ticks and nothing else can disable a step of
it. No liveness is stated of `EmbedWorker` alone, whose liveness depends on the
writer and the signal and is in `System`, nor of `RateLimiter`, `AuditLog`,
`QueryService` and `Metrics`: their operations end by themselves.

## Findings

In each place a comment promises more than the code does.

1. **Entries accepted during shutdown can stay in the channel.** The signal
   cancels the context the writer watches (`cmd/ingest/main.go:117-123`); the
   writer drains until the channel is empty *at that moment* and returns
   (`internal/writer/writer.go:74-76`). Handlers that Shutdown is still waiting
   for go on publishing and answer 202. `buf.Close()` follows, nobody receives,
   and main logs "drained cleanly". The header of `main.go` (18-19) promises
   "close HTTP, close the buffer, let the writer drain" and "Nothing sitting in
   the buffer is lost". What does hold, and is proved, is `DrainGuarantee`: what
   was accepted *before* the signal is kept.
2. **A request answered 400 may have been stored in part.** `Validate` runs
   inside the loop that publishes (`internal/ingest/handler.go:66-87`), so the
   entries before the invalid one are already in the channel. The header of the
   file orders validation before publication.
3. **The workers do not wait for the writer.** Embedding and anomaly worker watch
   the same context as the writer (`cmd/ingest/main.go:124`). The one makes a last
   pass and returns, the other returns at once (`internal/worker/anomalyworker.go:44`),
   while the writer is still receiving and flushing. What it flushes after that is
   neither embedded nor looked at. The header of `main.go` (18-19) gives the order
   "close the buffer, let the writer drain, workers exit". What does hold, and is
   proved, is `ExitIsSearchable`: what was in the store at the signal, up to one
   tick, is searchable after a clean exit.
4. **A record in the middle can change without breaking a hash.** `hashRecord`
   (`internal/audit/audit.go:97-98`) joins the fields with an unescaped `|`, and
   the resource is a client's text. A record with action `search` and resource
   `semantic:disk|full` is hashed as one with action `search|semantic:disk` and
   resource `full`, so the one can be replaced by the other, also in the middle,
   and `Verify` and `Head` accept the chain. The header of the file (4-5) says that
   modifying a record in the middle breaks every hash after it and is detected.
   What does hold, and is proved, is `AlterationFound`: the joined text is as
   written, and so are the fields wherever tenant, actor and action hold no
   separator.

Three more were read off the code and need no run. Reading the anomaly feed leaves
no audit record: `handleAnomalies` (`internal/query/handler.go:104-114`) checks a
capability that viewers lack, reads the feed and answers, while the header of
`internal/query/service.go` (5-7) says that every sensitive query is written to the
audit log; for the other three endpoints `GrantedMeansAudited` holds. `Lag` counts
no more than a million entries, as described above. And a `ListenAndServe` that
fails ends the process without a drain (`ServeFails`), which `IngestContract` does
not exclude: it allows the process to be killed at any time.

## Proofs

`tlapm` checks everything below for all constants that satisfy the assumptions
of the modules.

**HotPathProofs.** The results about the queue rest on four inductive invariants, proved
one on top of the other:

* `TypeOK`, in which entries are typed as redacted ones; this already says that
  the guards of `appendGuarded` and `WriteBatch` never fire.
* `ShutdownInv`: which stages of main and of the writer can be combined, and
  that a handler past a returned Shutdown exists only if it was given up on.
  `AbortOnlyAfterForcedClose` is a part of it.
* `QueueInv`: the lengths of store, batch and channel and the number of dropped
  entries add up to what was sent; while nothing was dropped each position of
  the three is the corresponding position of `sent` (`Aligned`); and from the
  final flush on everything before the signal is in the store or the batch.
  `Conservation` as stated, an equation between sequences, is not inductive in a
  form the provers handle, `Aligned` is: an action changes it at one end only.
  The clause on the final flush is what makes `DrainGuarantee` inductive: the
  writer takes that flush only after the signal and with an empty channel.
* `BacklogInv`: the channel, and the batch at each place of the writer.

Three more, each on top of the types, give what clients and operators see:

* `LoopInv`: the local counters of `ServeHTTP` against its loop index and answer.
* `SentInv`: what a request has in `sent`, and what is in `sent` altogether,
  against the local and the shared counter; a handler between its send and its
  count is one short. With `LoopInv` it gives `ReplyIsHonest`, alone `CounterLag`.
* `OrderInv`: the entries of one request have rising indexes within and across
  store, batch and channel, all behind the handler's own index. It is stated of
  pairs of positions in the three queues and not of their concatenation, so that
  it survives a failing store taking a batch out of the middle.

`ImplementsContract` maps `sent`, `store` and `cut` to the contract's variables
and the stages of main to its phases. `PublishSends` implements `Accept`,
`WriteEntry` implements `Persist` (by `Aligned`, the entry written is the oldest
that is not durable), `ExitClean` implements `Exit` (by `QueueInv`), and all
other steps stutter.

`SurroundingsHold` is what the modules of the other parts assume of the hot path
when they are checked alone: the store grows at its end and nowhere else, by
redacted entries, and a context once cancelled stays so.

**RateLimiterProofs.** The key is that `tokens - lastSeen` never rises while a
bucket exists: a refill leaves it unchanged or lowers it to the ceiling, and a
grant lowers it by the cost, in whatever order the stamps come. `WindowInv` says
that what was granted in the window plus this difference is at most `Capacity`
minus the start of the window; a grant leaves at least zero tokens on a stamp
within the window, which gives `WindowBound`. Deleting a bucket raises the
difference, which is where `ClockInv` (stamps and cutoffs against the clock) and
`DebtInv` (how far below zero) are needed: `SweptIsFull`.

**EmbedWorkerProofs.** The checkpoint moves after the entries are embedded, and a
content is marked before its vector exists, so none of the properties is
inductive by itself:

* `RangeInv`: the tick still holds the checkpoint it read, its IDs are in order
  and within the store, and the checkpoint Lag read is not ahead. The types need
  it (a lag, a count and a reference are then natural numbers), and it gives
  `LagReachesThresholds`.
* `SeenInv` and `FreshInv`: every entry handled so far is marked (`Handled` says
  how far that is at each place of the loop), every marked content has a vector
  except the one about to get it, and that one occurs in no earlier entry and in
  no vector, so that `Upsert` really adds. With `CitesOldest` they are inductive
  and give `CheckpointCovers`.
* `PassInv`: the last tick starts at or past the checkpoint of the signal and
  reads what the store held then, up to its limit. It gives `FinalPassCovers`.
* `CountInv`: embedded is the checkpoint; deduplicated and vectors add up to
  `Handled`. It gives `CountersAddUp`.
* `PageInv`: what a scrape has shown as embedded is at most the checkpoint, then
  at most the checkpoint that Lag read. Counting after the checkpoint has moved
  (`CountInv`) is what makes the first true. It gives `ScrapeAddsUp`.

**AnomalyWorkerProofs.**

* `RangeInv`: a window begins behind the checkpoint and ends within the store,
  whatever is appended meanwhile; proved with the types.
* `CountInv`: `window` still holds the errors of its range, as entries once
  stored do not change, and the sum observed of a series is the number of errors
  up to `Covered`. The step is `ErrorsAdd`, on the errors of two adjacent ranges.
* `BaseInv` ties each baseline to the values it was fed, in clauses that
  `Learn` preserves (`LearnFits`): their number is `count`; mean and variance keep
  within any bounds of the values (`LearnWithin`); while the values are constant
  the variance is zero and the mean their value (`LearnConstant`), so that any
  other value is far (`JumpIsFar`); and the last value is not far from the
  baseline that learned it (`NoEcho`): the variance has grown with the jump by more
  than the threshold leaves room for, which is where `ZThreshold >= 2` is needed.

`EventsAreEarned`, `JumpRaises`, `BaselineBounded` and `CountedOnce` follow.
`RecentIsNewest` needs two facts: the ring holds the last events delivered, no
more than its capacity (`FeedInv`, inductive over `Push`), and each event of a tenant
is listed at the place that the number of newer ones gives it (`NewestByRank`,
below). `RecentIs` puts them together: positions in the feed are positions in what
was raised, moved by what was evicted.

**ListingProofs.** The order of a set of positions is a `CHOOSE`, so it has to be
shown that there is one. `CanBeOrdered` does it with a least counterexample
(`FirstNumber`, from the well-foundedness of the natural numbers): of the positions
up to which the set cannot be ordered take the least; up to the one before it can
be, and the position, if it is in the set, goes to the end. `InOrderLists` states what the
modules use of it, each position once and rising; `NewestLists` is the same for a
list from the end with a limit, and says that what it omits is older than all
it has. `NewestByRank` puts it by counting: at place i of a list of events is
the one of the tenant with i - 1 newer ones.

**AuditLogProofs.** Verify walks forward, so what a sound chain looks like is an
induction over positions, which the prover cannot take from the library. It is
done with a least counterexample (`FirstOf`): `DigestsSpell` says that in a chain
sound up to a position, the digest there has that many elements, and that its
elements are the lines of the records. Two sound chains that end in one digest
therefore agree in the line and the hashes of every record (`HeadDetermines`).
What a line tells is `SameLineReads`: the joined text, and, if tenant, actor and
action are one piece each in both records, the fields, since they are then the first
three pieces and the resource is the rest (`FieldsTakenApart`). `WrittenInv`, the
inductive invariant, says that the history is sound, ends in `lastHash` and is
`Plain`; with it `AlterationFound` is these two and `BlameIsEarned` applies them to
prefixes. Contents, pieces and fields are any: a separator may be anywhere in an
altered record and in any resource.
`Alter` is unrestricted in these proofs but for the types: `WrittenInv` does not
mention the records that can be altered.

**SystemProofs.** Every step of the process is a step of `HotPath` or leaves its
variables alone (`HotPathSteps`), so `HotPathInside` carries every theorem of
HotPathProofs over; `SystemKeepsContract` is one of them. `EmbedWorkerInside` is
the same for the embedding worker, and needs invariants of the hot path: an append
by the writer is a `WriteBatch` of one entry (`ContentAdded`), and it stays within
`MaxEntries`, which here is the number of entries there are, because no entry is
stored twice (`StoreFits`, from `OncePerEntryInOrder`; the entries are assumed
finite). A cancelled context is `Signal` or a stutter.
EmbedWorkerProofs is then instantiated (`Inner`), and `ExitsAreSearchable`
combines its `CheckpointCovers` and `FinalPassCovers` with `ExitWaits`: at a clean
exit the worker has returned.

**QueryProofs.** Between two steps of a request everything it looks at may
grow, so the invariants say what of a reading is still true later. They rest on
`NothingLost`: entries, documents, vectors, events and records are only added.

* `FlowInv`, proved with the types: which endpoints and which capabilities a
  place of a request implies, and that it holds hits only while it resolves them.
* `IndexInv`: each vector in the index of a tenant is `Backed`, that is, its
  reference names a text of that tenant, with the topic the vector was made of.
  `FoundInv`: hits are in the index of the tenant that asks, and whatever an
  answer lists is backed. `Backed` is stable, as texts do not change, which is what a
  look-up after the search relies on. Together they give `AnswersAreOwn`.
* `KnownInv`: what was there when a request came still is. With `NewestLists`,
  `NewestOf` follows: no match known at the beginning is missing from an answer,
  unless the answer is full of newer ones. It is `NewestAreFound`.
* `HitsOf`: the hits resolved so far, as the answer shows them, followed by those
  left are the list that the search returned, in its order, and every known
  vector outside it is no closer, with the list full. No reference is lost on the
  way, because hits are backed and a look-up of what is backed succeeds. At the
  answer it becomes `EvidenceOf`; that `WhyDidFail` keeps the hits reaching
  `MinScore` and no others is `GroundedIsCited`. It gives `EvidenceIsCited`.
* `AuditedInv` counts: for each identity and kind of search there are as
  many records as requests past their check. `Audit` adds one to both
  (`AuditMakesDue`), and no other step changes either (`OthersMakeNoneDue`). The
  nested check of `WhyDidFail` grants whenever the outer one did, since who may ask
  may search; otherwise it could refuse after the first record. It gives
  `GrantedMeansAudited`.
* `RoomInv`: the log has one record for each half of a search that has passed
  (`Halves`), so the bound on its length in `AuditLog` is never what stops an
  append. Hence `LogInside`: the log of the query layer behaves as `AuditLog`, and
  AuditLogProofs, instantiated over it (`Chain`), holds of it. As no query alters
  a record (`RecordsStay`), the log verifies at any time and ends in the hash that
  `Head` returns: `QueriesAreChained`.

With the histogram around it, each step of the query layer is one of
`QueryService` or a stutter (`TimedInside`), which carries these over
(`GrantsAreAudited` is the one that a run checks there); each step seen from the
registry is one of `Metrics` (`RegistryInside`). `HistInv` says that there is at
most one histogram, that whoever has found one has found it, and that each bucket
counts the observations between its bounds. The page shows sums; that the sums of
the first buckets count the observations up to a bound (`RenderedSums`) is again
by least counterexample, its step being that a set of observations splits
at a bound (`BucketsSplit`). `HistogramHolds` is the result.

### What is proved of progress

Fairness and ENABLED are outside what the prover handles, so that something
eventually happens is left to TLC. The other half of such an argument is not: that
nothing goes round in circles. For each thread there is a measure, a number that
says how many steps it has left, and the theorem is an action property: the
number stays within a bound given by the capacities, each step of the thread lowers
it, and the steps of the others do not raise it. So the thread is through after
at most that many steps of its own, in every behaviour, and all that
is left to assume is that it is scheduled.

| Theorem | Measure | Bound | What can raise it |
|---|---|---|---|
| `HandlersGetOn` | `StepsLeft(r)`, from the entries behind the index of the loop | `2 * Len(body) + 1` | decoding a body, with which it starts |
| `WriterEnds` | `WorkLeft`, from the channel, the batch and the two loops of `Run` | `5 * BufferSize + 2 * BatchSize + 4` | a handler's send |
| `PassesEnd` | `PassLeft`, from the entries of the pass not handled yet | `2 * Limit + 3` | the poll that starts the next pass |
| `WorkerEnds` | `Remaining`, the pass and the last one after it | `4 * Limit + 7` | the ticker, chosen although the context may be cancelled |
| `WindowsEnd` | `WindowLeft`, from the series of the window not observed yet | `3 * Limit + 1` | the tick that starts the next window |
| `ShutdownGetsOn` | `ProcessLeft`, the sum over main, writer, workers and sweeper | `5 * BufferSize + 2 * BatchSize + 4 * TickLimit + 18` | a send before `Close`; the ticker of the embedding worker |

The measures rest on the invariants above: `BacklogInv` and `RangeInv` bound the
channel, the batch and what a tick took from the store, `LoopInv` the index of a
handler; and `WorkerEnds` needs that there is no poll after the last pass.

They show what each fairness condition of the specifications is there for.
`ShutdownCompletes` needs weak fairness of each thread, so that it takes the
steps it has left, and one condition more: in Go a `select` with
both cases ready may take the ticker any number of times, and by the last column
that is the only way for the shutdown to be put off after `Close`. Strong fairness of
the choice of `ctx.Done` excludes it. For `EventuallySearchable` and
`EventuallyObserved` the measures say that a pass ends before entries that arrive
while it runs are looked at; what they do not say, and TLC checks, is that a pass
that covers a given entry begins.

Only model-checked: liveness (`EventuallySearchable`, `ShutdownCompletes`,
`EventuallyObserved`) and `NeverBlocks`, that an entry is answered without
waiting, which is stated with ENABLED; `HandlersGetOn` is the part of it that the
prover can state, that the steps are few. Every other property of the passing
runs is a theorem. Proved and not run are these bounds, `StoreOnlyGrows`, and
`DebtIsBounded`, on how far overtaking calls can take a bucket below zero.

## Not modelled

* What the redactor replaces. Regular expressions, the entropy measure and the
  Luhn sum decide character by character, and the redactor keeps no state: there
  is no order of steps to get wrong, and a model of the characters would be the
  code again. That every entry passes through it, and that the writer and the
  store check, is modelled.
* The embedder and the cosine of two vectors, pure functions on floats; the
  models use that they are functions of the content. `Score` is any table.
* Rounding of floating-point numbers, in the limiter, the detector and the sum of
  a histogram.
* Authentication beyond its result, a look-up in a table that never changes.
* The configuration, whose values are constants here, under the assumptions
  named in each module. Values that would disable a part, such as a buffer or a
  batch of size zero, are excluded; nothing in the code refuses them.
* The text formats of requests, answers, metrics and logs.

PROJECT.json has a note for each part.

## Plan

Every module is checked, and proved about as far as the prover reaches. What
could be added is the anomaly worker inside `System`, of which only whether it has
returned is kept: `AnomalyWorker` over the store that the writer fills, as
`EmbedWorker` is now.
