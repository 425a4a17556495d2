--------------------------- MODULE AnomalyWorker ---------------------------
(***************************************************************************)
(* The anomaly worker: it polls the store past a checkpoint, counts the    *)
(* errors of each series in what it got, feeds the counts to the detector  *)
(* and pushes what the detector raises into the feed.                      *)
(*                                                                         *)
(*   src/internal/worker/anomalyworker.go   Run and tick                   *)
(*   src/internal/anomaly/feed.go           Push and Recent                *)
(*   src/internal/store/store.go            WriteBatch and Since           *)
(*                                                                         *)
(* A series is a tenant and one of its services. The worker observes the   *)
(* series of a window in the order of a Go map, which is any. Entries      *)
(* arrive and the feed is read at any of its steps.                        *)
(***************************************************************************)
EXTENDS Detector, Listing

CONSTANTS
  Series,
  Tenants,
  TenantOf,     \* the tenant of each series
  Batches,      \* the batches the writer may write
  Limit,        \* entries per window (100 000)
  FeedCap,      \* events in the feed (1000)
  MaxEntries    \* bound on the store

Entries == [series : Series, error : BOOLEAN]

ASSUME AnomalyWorkerAssumption ==
  /\ TenantOf \in [Series -> Tenants]
  /\ Batches \subseteq Seq(Entries)
  /\ Limit \in Nat \ {0}
  /\ FeedCap \in Nat \ {0}
  /\ MaxEntries \in Nat

VARIABLES
  store,      \* the stored entries; an ID is an index
  lastID,     \* the checkpoint
  base,       \* Detector.base
  feed,       \* Feed.events, oldest first
  events,     \* metric sl_anomaly_events_total
  wpc,        \* "poll", "observe", "push", "notify", "done"
  until,      \* the last ID of this window
  window,     \* errors of each series in it
  todo,       \* series of the window not yet observed
  ctxDone,    \* the context is cancelled
  values,     \* history: what was observed of each series
  total,      \* history: its sum
  raised      \* history: the events the detector raised

worker  == <<wpc, until, window, todo>>
history == <<values, total, raised>>
vars    == <<store, lastID, base, feed, events, worker, ctxDone, history>>

\* An event: the n-th value of its series. The count stands for the time.
Events == [series : Series, value : Nat, n : Nat \ {0}]

Init ==
  /\ store = <<>>
  /\ lastID = 0
  /\ base = [k \in Series |-> Absent]
  /\ feed = <<>> /\ events = 0
  /\ wpc = "poll" /\ until = 0 /\ window = [k \in Series |-> 0] /\ todo = {}
  /\ ctxDone = FALSE
  /\ values = [k \in Series |-> <<>>] /\ total = [k \in Series |-> 0] /\ raised = <<>>

WriteBatch(b) ==
  /\ Len(store) + Len(b) <= MaxEntries
  /\ store' = store \o b
  /\ UNCHANGED <<lastID, base, feed, events, worker, ctxDone, history>>

Signal ==
  /\ ~ctxDone
  /\ ctxDone' = TRUE
  /\ UNCHANGED <<store, lastID, base, feed, events, worker, history>>

-----------------------------------------------------------------------------
(* The worker *)

\* Unlike the embedding worker, this one makes no last pass.
Leave ==
  /\ wpc = "poll"
  /\ ctxDone
  /\ wpc' = "done"
  /\ UNCHANGED <<store, lastID, base, feed, events, until, window, todo, ctxDone,
                 history>>

\* IDs of the errors of a series in a range.
Errors(k, ids) == {id \in ids : store[id].series = k /\ store[id].error}

\* Since finds the first ID past the checkpoint. Faulty: off by one.
FreshPastNext == Len(store) > lastID + 1
Fresh == Len(store) > lastID

\* The ticker branch. A tick that finds nothing new changes nothing. A series
\* of the window without an error is observed too, as zero.
Tick ==
  /\ wpc = "poll"
  /\ Fresh
  /\ until' = Least(lastID + Limit, Len(store))
  /\ window' = [k \in Series |-> Cardinality(Errors(k, (lastID + 1)..until'))]
  /\ todo' = {store[id].series : id \in (lastID + 1)..until'}
  /\ wpc' = "observe"
  /\ UNCHANGED <<store, lastID, base, feed, events, ctxDone, history>>

\* Observe updates the baseline, whatever it answers.
Observe(k) ==
  /\ wpc = "observe"
  /\ k \in todo
  /\ todo' = todo \ {k}
  /\ base' = [base EXCEPT ![k] = Learn(@, window[k])]
  /\ values' = [values EXCEPT ![k] = Append(@, window[k])]
  /\ total' = [total EXCEPT ![k] = @ + window[k]]

ObserveNormal(k) ==
  /\ Observe(k)
  /\ ~Anomalous(base[k], window[k])
  /\ UNCHANGED <<store, lastID, feed, events, wpc, until, window, ctxDone, raised>>

ObserveAnomaly(k) ==
  /\ Observe(k)
  /\ Anomalous(base[k], window[k])
  /\ raised' = Append(raised, [series |-> k, value |-> window[k], n |-> base[k].count + 1])
  /\ wpc' = "push"
  /\ UNCHANGED <<store, lastID, feed, events, until, window, ctxDone>>

\* The newest n of a sequence.
Newest(s, n) == SubSeq(s, Len(s) - Least(n, Len(s)) + 1, Len(s))

\* Push appends, and cuts to the newest FeedCap. Faulty: a full feed takes no
\* more.
DropNew(s, e) == IF Len(s) >= FeedCap THEN s ELSE Append(s, e)
Pushed(s, e) == Newest(Append(s, e), FeedCap)

Push ==
  /\ wpc = "push"
  /\ feed' = Pushed(feed, raised[Len(raised)])
  /\ wpc' = "notify"
  /\ UNCHANGED <<store, lastID, base, events, until, window, todo, ctxDone, history>>

\* The callback that main registers.
OnEvent ==
  /\ wpc = "notify"
  /\ events' = events + 1
  /\ wpc' = "observe"
  /\ UNCHANGED <<store, lastID, base, feed, until, window, todo, ctxDone, history>>

\* Faulty: the checkpoint moves to the head of the store, not of the window.
StoreHead == Len(store)
WindowEnd == until

EndTick ==
  /\ wpc = "observe"
  /\ todo = {}
  /\ lastID' = WindowEnd
  /\ wpc' = "poll"
  /\ UNCHANGED <<store, base, feed, events, until, window, todo, ctxDone, history>>

Work ==
  \/ Tick
  \/ \E k \in Series : ObserveNormal(k) \/ ObserveAnomaly(k)
  \/ Push
  \/ OnEvent
  \/ EndTick

\* The worker has returned.
Terminated == wpc = "done" /\ UNCHANGED vars

Next ==
  \/ \E b \in Batches : WriteBatch(b)
  \/ Signal
  \/ Leave
  \/ Work
  \/ Terminated

Spec == Init /\ [][Next]_vars

\* The ticker ticks and the worker's goroutine is scheduled.
FairSpec == Spec /\ WF_vars(Work)

-----------------------------------------------------------------------------
(* The reader of the feed, one call under its mutex *)

Mine(t) == {i \in 1..Len(feed) : TenantOf[feed[i].series] = t}

Recent(t, n) ==
  LET shown == NewestFirst(Mine(t), n) IN [i \in DOMAIN shown |-> feed[shown[i]]]

-----------------------------------------------------------------------------
(* Properties *)

TypeOK ==
  /\ store \in Seq(Entries)
  /\ lastID \in Nat
  /\ base \in [Series -> Baselines]
  /\ feed \in Seq(Events) /\ events \in Nat
  /\ wpc \in {"poll", "observe", "push", "notify", "done"}
  /\ until \in Nat /\ window \in [Series -> Nat] /\ todo \subseteq Series
  /\ ctxDone \in BOOLEAN
  /\ values \in [Series -> Seq(Nat)] /\ total \in [Series -> Nat]
  /\ raised \in Seq(Events)

\* The last entry that has gone into the values of a series.
Covered(k) ==
  IF wpc \in {"observe", "push", "notify"} /\ k \notin todo THEN until ELSE lastID

\* Every error entry is counted in exactly one window of its series, whatever is
\* written during a tick: the counts observed add up to the errors up to the
\* checkpoint, or to the end of the window for the series already observed.
CountedOnce ==
  /\ lastID <= Len(store)
  /\ \A k \in Series : total[k] = Cardinality(Errors(k, 1..Covered(k)))

\* An alert names a value that was observed, after the warm-up, and never one
\* that repeats the value before it: a sustained level raises at most one event,
\* because the update lets the variance grow with the jump.
EventsAreEarned ==
  \A i \in 1..Len(raised) :
    LET e == raised[i] IN
    /\ e.n \in 2..Len(values[e.series]) /\ e.n >= Warmup
    /\ values[e.series][e.n] = e.value
    /\ values[e.series][e.n - 1] # e.value

\* "A division by zero must not swallow an obvious jump" (anomaly.go): after the
\* warm-up, the first value that leaves a constant series raises an event.
JumpRaises ==
  \A k \in Series : \A n \in 2..Len(values[k]) :
    /\ n >= Warmup
    /\ \A i \in 1..(n - 1) : values[k][i] = values[k][1]
    /\ values[k][n] # values[k][1]
    => \E i \in 1..Len(raised) : raised[i].series = k /\ raised[i].n = n

\* However the counts jump, the mean stays between the least and the greatest of
\* them and the variance below 3/4 of their squared distance: an outlier cannot
\* push a baseline out of what was really seen.
BaselineBounded ==
  \A k \in Series : \A lo, hi \in {values[k][i] : i \in 1..Len(values[k])} :
    (\A i \in 1..Len(values[k]) : lo <= values[k][i] /\ values[k][i] <= hi)
      => /\ lo * base[k].scale <= base[k].mean
         /\ base[k].mean <= hi * base[k].scale
         /\ 4 * base[k].varc <= 3 * ((hi - lo) * base[k].scale) * ((hi - lo) * base[k].scale)

\* What was raised and has reached the feed.
Delivered == IF wpc = "push" THEN Len(raised) - 1 ELSE Len(raised)

\* A tenant that asks for its n most recent events gets them newest first, none
\* of another tenant, and an event is missing only if n newer ones are shown or
\* FeedCap newer ones were raised, its own or those of other tenants.
RecentIsNewest ==
  \A t \in Tenants, n \in 1..FeedCap :
    LET got == Recent(t, n)
        own == {i \in 1..Delivered : TenantOf[raised[i].series] = t}
        kept == {i \in own : Delivered - i < FeedCap
                             /\ Cardinality({j \in own : j > i}) < n}
    IN  /\ Len(got) = Cardinality(kept)
        /\ \A i \in kept : got[Cardinality({j \in kept : j >= i})] = raised[i]

\* Every stored entry is eventually in a window, unless the process is stopping.
EventuallyObserved ==
  \A id \in 1..MaxEntries : id <= Len(store) ~> lastID >= id \/ ctxDone
=============================================================================
