---------------------------- MODULE EmbedWorker ----------------------------
(***************************************************************************)
(* The embedding worker: it polls the store past a checkpoint, embeds each *)
(* content once and puts its vector into the vector store.                 *)
(*                                                                         *)
(*   src/internal/worker/embedworker.go   Run, tick, process, Lag          *)
(*   src/internal/store/store.go          WriteBatch and Since             *)
(*   src/internal/model/stored.go         ContentHash and Ref              *)
(*   src/internal/vector/vector.go        Upsert                           *)
(*   src/internal/metrics/metrics.go      Render, the metrics of this part *)
(*                                                                         *)
(* The batch writer appends to the store while the worker runs, /metrics   *)
(* is scraped, and the context may be cancelled at any time. process never *)
(* returns an error, so the dead-letter queue of the worker is never used  *)
(* and is left out.                                                        *)
(***************************************************************************)
EXTENDS Integers, Sequences, FiniteSets

CONSTANTS
  Contents,    \* what ContentHash tells apart: tenant, service and message
  Batches,     \* the batches the writer may write
  Limit,       \* entries per tick (200)
  LagLimit,    \* most entries Lag counts (1 000 000)
  MaxEntries   \* bound on the store

ASSUME EmbedWorkerAssumption ==
  /\ Batches \subseteq Seq(Contents)
  /\ Limit \in Nat \ {0}
  /\ LagLimit \in Nat
  /\ MaxEntries \in Nat

VARIABLES
  store,      \* content of every stored entry; its ID is its index
  lastID,     \* the checkpoint
  seen,       \* contents already processed
  vec,        \* the items of the vector store
  wpc,        \* "poll", "since", "process", "upsert", "advance", "count", "done"
  mode,       \* "run", or "last" for the pass after ctx.Done
  from,       \* the checkpoint as this tick read it
  at, until,  \* the ID in process, and the last one this tick read
  embedded,   \* metric sl_embedded_total
  deduped,    \* metric sl_embed_dedup_total
  lpc,        \* the scrape: "idle", "counted", "read", "lagged"
  lfrom,      \* the checkpoint as Lag read it
  shown, lag, \* what it has written so far: sl_embedded_total, sl_embed_lag
  ctxDone,    \* the context is cancelled
  cut         \* history: head of the store and checkpoint at that moment

worker  == <<wpc, mode, from, at, until>>
reader  == <<lpc, lfrom, shown, lag>>
index   == <<lastID, seen, vec, embedded, deduped>>
signal  == <<ctxDone, cut>>
vars    == <<store, index, worker, reader, signal>>

Least(a, b) == IF a < b THEN a ELSE b

Init ==
  /\ store = <<>>
  /\ lastID = 0 /\ seen = {} /\ vec = {} /\ embedded = 0 /\ deduped = 0
  /\ wpc = "poll" /\ mode = "run" /\ from = 0 /\ at = 0 /\ until = 0
  /\ lpc = "idle" /\ lfrom = 0 /\ shown = 0 /\ lag = 0
  /\ ctxDone = FALSE /\ cut = [head |-> 0, done |-> 0]

\* The writer's flush; Since cannot see half of it, both hold the store's mutex.
WriteBatch(b) ==
  /\ Len(store) + Len(b) <= MaxEntries
  /\ store' = store \o b
  /\ UNCHANGED <<index, worker, reader, signal>>

Signal ==
  /\ ~ctxDone
  /\ ctxDone' = TRUE
  /\ cut' = [head |-> Len(store), done |-> lastID]
  /\ UNCHANGED <<store, index, worker, reader>>

-----------------------------------------------------------------------------
(* The worker *)

\* Either branch of the select in Run starts a tick, which reads the checkpoint.
\* Faulty: the checkpoint skips an entry.
SkipOne == lastID + 1
Checkpoint == lastID

Poll ==
  /\ wpc = "poll"
  /\ wpc' = "since"
  /\ from' = Checkpoint
  /\ UNCHANGED <<store, index, mode, at, until, reader, signal>>

\* The ctx.Done branch. Faulty: the worker leaves without its last pass.
LeaveAtDone ==
  /\ wpc = "poll"
  /\ ctxDone
  /\ wpc' = "done"
  /\ UNCHANGED <<store, index, mode, from, at, until, reader, signal>>

SeeDone ==
  /\ wpc = "poll"
  /\ ctxDone
  /\ wpc' = "since"
  /\ mode' = "last"
  /\ from' = Checkpoint
  /\ UNCHANGED <<store, index, at, until, reader, signal>>

\* Where tick returns to. Faulty: the last pass is followed by another.
PollAgain == "poll"
AfterTick == IF mode = "last" THEN "done" ELSE "poll"

SinceEmpty ==
  /\ wpc = "since"
  /\ Len(store) <= from
  /\ wpc' = AfterTick
  /\ UNCHANGED <<store, index, mode, from, at, until, reader, signal>>

Since ==
  /\ wpc = "since"
  /\ Len(store) > from
  /\ at' = from + 1
  /\ until' = Least(from + Limit, Len(store))
  /\ wpc' = "process"
  /\ UNCHANGED <<store, index, mode, from, reader, signal>>

\* The loop over the entries, past the one in process.
NextEntry ==
  IF at = until THEN wpc' = "advance" /\ UNCHANGED at
                ELSE wpc' = "process" /\ at' = at + 1

\* Contents that need no vector. Faulty: every content is taken for new.
Unseen == {}
Known == seen

ProcessSeen ==
  /\ wpc = "process"
  /\ store[at] \in Known
  /\ deduped' = deduped + 1
  /\ NextEntry
  /\ UNCHANGED <<store, lastID, seen, vec, embedded, mode, from, until, reader, signal>>

\* The content is marked before its vector exists.
ProcessNew ==
  /\ wpc = "process"
  /\ store[at] \notin Known
  /\ seen' = seen \cup {store[at]}
  /\ wpc' = "upsert"
  /\ UNCHANGED <<store, lastID, vec, embedded, deduped, mode, from, at, until,
                 reader, signal>>

\* Upsert ignores a reference it already holds. Faulty: the vector is not kept.
ForgetItem(item) == vec
Upserted(item) == IF \E v \in vec : v.ref = item.ref THEN vec ELSE vec \cup {item}

Upsert ==
  /\ wpc = "upsert"
  /\ vec' = Upserted([ref |-> at, content |-> store[at]])
  /\ NextEntry
  /\ UNCHANGED <<store, lastID, seen, embedded, deduped, mode, from, until, reader, signal>>

\* The checkpoint moves under the mutex, the metric after it.
Advance ==
  /\ wpc = "advance"
  /\ lastID' = IF until > lastID THEN until ELSE lastID
  /\ wpc' = "count"
  /\ UNCHANGED <<store, seen, vec, embedded, deduped, mode, from, at, until, reader, signal>>

OnEmbedded ==
  /\ wpc = "count"
  /\ embedded' = embedded + (until - from)
  /\ wpc' = AfterTick
  /\ UNCHANGED <<store, lastID, seen, vec, deduped, mode, from, at, until, reader, signal>>

Work ==
  \/ Poll
  \/ SeeDone
  \/ SinceEmpty
  \/ Since
  \/ ProcessSeen
  \/ ProcessNew
  \/ Upsert
  \/ Advance
  \/ OnEmbedded

-----------------------------------------------------------------------------
(* A scrape of /metrics. Render writes the counters before the gauges and    *)
(* each in the order of their names, so sl_embedded_total comes first, then  *)
(* sl_embed_lag and then sl_store_written_total. Lag reads the checkpoint    *)
(* under the worker's mutex and the store after it is released.              *)

ScrapeEmbedded ==
  /\ lpc = "idle"
  /\ lpc' = "counted"
  /\ shown' = embedded
  /\ UNCHANGED <<store, index, worker, lfrom, lag, signal>>

LagBegins ==
  /\ lpc = "counted"
  /\ lpc' = "read"
  /\ lfrom' = lastID
  /\ UNCHANGED <<store, index, worker, shown, lag, signal>>

\* Faulty: off by one, and counting the checkpoint itself.
PendingPast(id) == Least(LagLimit, Len(store) - id) - 1
PendingFrom(id) == Least(LagLimit, Len(store) - id + 1)
Pending(id) == Least(LagLimit, Len(store) - id)

LagEnds ==
  /\ lpc = "read"
  /\ lpc' = "lagged"
  /\ lag' = Pending(lfrom)
  /\ lfrom' = 0
  /\ UNCHANGED <<store, index, worker, shown, signal>>

\* The last of the three is read without the store's mutex: it is at least the
\* number of entries in the store, and more while a batch is being written. The
\* page is sent and forgotten.
ScrapeWritten ==
  /\ lpc = "lagged"
  /\ lpc' = "idle"
  /\ shown' = 0 /\ lag' = 0
  /\ UNCHANGED <<store, index, worker, lfrom, signal>>

Scrape ==
  \/ ScrapeEmbedded
  \/ LagBegins
  \/ LagEnds
  \/ ScrapeWritten

Next ==
  \/ \E b \in Batches : WriteBatch(b)
  \/ Signal
  \/ Work
  \/ Scrape

Spec == Init /\ [][Next]_vars

-----------------------------------------------------------------------------
(* Properties *)

TypeOK ==
  /\ store \in Seq(Contents)
  /\ lastID \in Nat
  /\ seen \subseteq Contents
  /\ vec \subseteq [ref : Nat \ {0}, content : Contents]
  /\ embedded \in Nat /\ deduped \in Nat
  /\ wpc \in {"poll", "since", "process", "upsert", "advance", "count", "done"}
  /\ mode \in {"run", "last"}
  /\ from \in Nat /\ at \in Nat /\ until \in Nat
  /\ lpc \in {"idle", "counted", "read", "lagged"} /\ lfrom \in Nat
  /\ shown \in Nat /\ lag \in Nat
  /\ ctxDone \in BOOLEAN
  /\ cut \in [head : Nat, done : Nat]

\* Everything up to the checkpoint is searchable: its content has a vector, its
\* own or that of an earlier entry with the same content. The worker marks a
\* content before it embeds it, so this rests on the checkpoint moving last.
CheckpointCovers ==
  /\ lastID <= Len(store)
  /\ \A id \in 1..lastID : \E v \in vec : v.content = store[id]

\* A vector cites the oldest stored entry with its content, so no content has
\* two, whatever is written while the worker runs.
CitesOldest ==
  \A v \in vec :
    /\ v.ref \in 1..Len(store)
    /\ store[v.ref] = v.content
    /\ \A id \in 1..(v.ref - 1) : store[id] # v.content

\* Between ticks every entry up to the checkpoint was counted once, as embedded,
\* and those without a vector of their own once more, as deduplicated.
CountersAddUp ==
  wpc \in {"poll", "since", "done"} =>
    embedded = lastID /\ deduped + Cardinality(vec) = lastID

\* The best-effort pass after the signal: when the worker ends, it has handled
\* what was pending at the signal, up to one tick's worth.
FinalPassCovers ==
  wpc = "done" => lastID >= Least(cut.head, cut.done + Limit)

\* Lag is there for scaling and alerting: whenever at least n entries are pending
\* as it reads the store, it says at least n, for every n it can count to, although
\* the checkpoint it subtracts may have moved since. Beyond LagLimit it cannot tell
\* one backlog from another.
LagReachesThresholds ==
  [][LagEnds => \A n \in 1..LagLimit : Len(store) - lastID >= n => lag' >= n]_vars

\* The metrics of one scrape add up although each is read at another time: when
\* sl_store_written_total comes to be read, it is at least what the page shows as
\* embedded and as pending.
ScrapeAddsUp == lpc = "lagged" => shown + lag <= Len(store)
=============================================================================
