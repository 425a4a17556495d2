------------------------- MODULE EmbedWorkerProofs -------------------------
(***************************************************************************)
(* Proofs about EmbedWorker, for every set of contents and batches and     *)
(* every tick size, lag limit and size of the store.                       *)
(***************************************************************************)
EXTENDS EmbedWorker, FiniteSetTheorems, TLAPS

-----------------------------------------------------------------------------
(* Types and ranges. The types do not hold by themselves: that a lag and a   *)
(* count are natural numbers rests on the order of the IDs.                  *)

Ticking    == {"since", "process", "upsert", "advance"}
InEntries  == {"process", "upsert", "advance"}

\* The order of the IDs the worker and the reader of Lag hold.
RangeInv ==
  /\ lastID <= Len(store)
  /\ lfrom <= lastID
  /\ wpc \in Ticking => from = lastID
  /\ wpc \in InEntries => from < at /\ at <= until /\ until <= Len(store)
  /\ wpc = "advance" => at = until
  /\ wpc = "count" => from < until /\ lastID = until

\* Appending a batch keeps the entries already stored.
LEMMA WriteKeeps ==
  ASSUME TypeOK, NEW b \in Batches, WriteBatch(b)
  PROVE  /\ store' \in Seq(Contents)
         /\ Len(store') >= Len(store)
         /\ \A id \in 1..Len(store) : store'[id] = store[id]
<1>1. store \in Seq(Contents) /\ b \in Seq(Contents)
  BY EmbedWorkerAssumption DEF TypeOK
<1>2. store' = store \o b
  BY DEF WriteBatch
<1>3. Len(b) \in Nat /\ Len(store) \in Nat
  BY <1>1
<1>4. Len(store') = Len(store) + Len(b)
  BY <1>1, <1>2
<1>5. \A id \in 1..Len(store) : store'[id] = store[id]
  BY <1>1, <1>2
<1>6. store' \in Seq(Contents)
  BY <1>1, <1>2
<1> QED  BY <1>3, <1>4, <1>5, <1>6

\* A scrape changes nothing but its own page.
LEMMA ScrapeOnlyReads == Scrape => UNCHANGED <<store, index, worker, signal>>
  BY DEF Scrape, ScrapeEmbedded, LagBegins, LagEnds, ScrapeWritten

\* Every variable keeps its type and the worker's IDs stay in order: the
\* checkpoint never passes the store, and only the tick that read it moves it.
THEOREM TypeCorrect == Spec => [](TypeOK /\ RangeInv)
<1> USE EmbedWorkerAssumption DEF Ticking, InEntries
<1>1. Init => TypeOK /\ RangeInv
  <2> SUFFICES ASSUME Init
               PROVE  TypeOK /\ RangeInv
    OBVIOUS
  <2>1. store \in Seq(Contents) /\ Len(store) = 0
    BY DEF Init
  <2>2. cut \in [head : Nat, done : Nat]
    BY DEF Init
  <2>3. seen \subseteq Contents /\ vec \subseteq [ref : Nat \ {0}, content : Contents]
    BY DEF Init
  <2>4. RangeInv
    BY <2>1 DEF Init, RangeInv
  <2> QED  BY <2>1, <2>2, <2>3, <2>4 DEF Init, TypeOK
<1>2. TypeOK /\ RangeInv /\ [Next]_vars => (TypeOK /\ RangeInv)'
  <2> SUFFICES ASSUME TypeOK, RangeInv, [Next]_vars
               PROVE  TypeOK' /\ RangeInv'
    OBVIOUS
  <2> USE DEF index, worker, reader, signal, AfterTick
  <2>0. Len(store) \in Nat
    BY DEF TypeOK
  <2>1. ASSUME NEW b \in Batches, WriteBatch(b)
        PROVE  TypeOK' /\ RangeInv'
    <3>1. store' \in Seq(Contents) /\ Len(store') >= Len(store)
      BY <2>1, WriteKeeps
    <3>2. Len(store') \in Nat
      BY <3>1
    <3>3. UNCHANGED <<index, worker, reader, signal>>
      BY <2>1 DEF WriteBatch
    <3> QED  BY <2>0, <3>1, <3>2, <3>3 DEF TypeOK, RangeInv
  <2>2. CASE Signal
    BY <2>0, <2>2 DEF Signal, TypeOK, RangeInv
  <2>3. CASE Poll
    BY <2>3 DEF Poll, Checkpoint, TypeOK, RangeInv
  <2>4. CASE SeeDone
    BY <2>4 DEF SeeDone, Checkpoint, TypeOK, RangeInv
  <2>5. CASE SinceEmpty
    BY <2>5 DEF SinceEmpty, TypeOK, RangeInv
  <2>6. CASE Since
    BY <2>0, <2>6 DEF Since, Least, TypeOK, RangeInv
  <2>7. CASE ProcessSeen
    BY <2>7 DEF ProcessSeen, NextEntry, TypeOK, RangeInv
  <2>8. CASE ProcessNew
    <3>1. store[at] \in Contents
      BY <2>0, <2>8 DEF ProcessNew, TypeOK, RangeInv
    <3> QED  BY <2>8, <3>1 DEF ProcessNew, TypeOK, RangeInv
  <2>9. CASE Upsert
    <3>1. store[at] \in Contents /\ at \in Nat \ {0}
      BY <2>0, <2>9 DEF Upsert, TypeOK, RangeInv
    <3>2. vec' \subseteq [ref : Nat \ {0}, content : Contents]
      BY <2>9, <3>1 DEF Upsert, Upserted, TypeOK
    <3> QED  BY <2>9, <3>2 DEF Upsert, NextEntry, TypeOK, RangeInv
  <2>10. CASE Advance
    BY <2>0, <2>10 DEF Advance, TypeOK, RangeInv
  <2>11. CASE OnEmbedded
    <3>1. until - from \in Nat
      BY <2>11 DEF OnEmbedded, TypeOK, RangeInv
    <3> QED  BY <2>11, <3>1 DEF OnEmbedded, TypeOK, RangeInv
  <2>12. CASE ScrapeEmbedded
    BY <2>12 DEF ScrapeEmbedded, TypeOK, RangeInv
  <2>13. CASE LagBegins
    BY <2>13 DEF LagBegins, TypeOK, RangeInv
  <2>14. CASE LagEnds
    BY <2>0, <2>14 DEF LagEnds, Pending, Least, TypeOK, RangeInv
  <2>15. CASE ScrapeWritten
    BY <2>15 DEF ScrapeWritten, TypeOK, RangeInv
  <2>16. CASE UNCHANGED vars
    BY <2>16 DEF vars, TypeOK, RangeInv
  <2> QED
    BY <2>1, <2>2, <2>3, <2>4, <2>5, <2>6, <2>7, <2>8, <2>9, <2>10, <2>11,
       <2>12, <2>13, <2>14, <2>15, <2>16 DEF Next, Work, Scrape
<1> QED  BY <1>1, <1>2, PTL DEF Spec

\* The lag says at least n when at least n entries are pending, for every n it can
\* count to: the checkpoint Lag read is never ahead of the one in force.
THEOREM LagIsHonest == Spec => LagReachesThresholds
<1>1. TypeOK /\ RangeInv /\ LagEnds
        => \A n \in 1..LagLimit : Len(store) - lastID >= n => lag' >= n
  <2> SUFFICES ASSUME TypeOK, RangeInv, LagEnds,
                      NEW n \in 1..LagLimit, Len(store) - lastID >= n
               PROVE  lag' >= n
    OBVIOUS
  <2>1. lag' = Least(LagLimit, Len(store) - lfrom)
    BY DEF LagEnds, Pending
  <2>2. Len(store) \in Nat /\ lastID \in Nat /\ lfrom \in Nat /\ lfrom <= lastID
    BY DEF TypeOK, RangeInv
  <2> QED  BY <2>1, <2>2, EmbedWorkerAssumption DEF Least
<1> QED  BY <1>1, TypeCorrect, PTL DEF LagReachesThresholds

-----------------------------------------------------------------------------
(* What is searchable. The checkpoint moves last, so the invariant must say  *)
(* what holds of the entries of a tick that is under way.                    *)

\* The last entry whose content is known to the worker.
Handled ==
  IF wpc \in {"process", "upsert"} THEN at - 1
  ELSE IF wpc = "advance" THEN until ELSE lastID

\* A content is marked before it has a vector; at most one waits for its own.
SeenInv ==
  /\ \A id \in 1..Handled : store[id] \in seen
  /\ \A c \in seen :
       (\E v \in vec : v.content = c) \/ (wpc = "upsert" /\ c = store[at])
  /\ \A v \in vec : v.content \in seen

\* The content about to be embedded is in no earlier entry and in no vector.
FreshInv ==
  wpc = "upsert" =>
    /\ store[at] \in seen
    /\ \A v \in vec : v.content # store[at]
    /\ \A id \in 1..(at - 1) : store[id] # store[at]

IndexInv == SeenInv /\ FreshInv /\ CitesOldest

\* The vector of a fresh content is really added.
LEMMA UpsertAdds ==
  ASSUME FreshInv, CitesOldest, Upsert
  PROVE  vec' = vec \cup {[ref |-> at, content |-> store[at]]}
<1>1. \A v \in vec : v.ref # at
  BY DEF FreshInv, CitesOldest, Upsert
<1> QED  BY <1>1 DEF Upsert, Upserted

\* The marks and the vectors always fit the entries handled so far.
LEMMA IndexInvariant == Spec => []IndexInv
<1> USE DEF Ticking, InEntries
<1>1. Init => IndexInv
  BY DEF Init, IndexInv, SeenInv, FreshInv, CitesOldest, Handled
<1>2. TypeOK /\ RangeInv /\ IndexInv /\ [Next]_vars => IndexInv'
  <2> SUFFICES ASSUME TypeOK, RangeInv, IndexInv, [Next]_vars
               PROVE  IndexInv'
    OBVIOUS
  <2> USE DEF index, worker, reader, signal, AfterTick, IndexInv
  <2>0. /\ Len(store) \in Nat
        /\ lastID \in Nat /\ from \in Nat /\ at \in Nat /\ until \in Nat
    BY DEF TypeOK
  <2>1. ASSUME NEW b \in Batches, WriteBatch(b)
        PROVE  IndexInv'
    <3>1. \A id \in 1..Len(store) : store'[id] = store[id]
      BY <2>1, WriteKeeps
    <3>2. Len(store') \in Nat /\ Len(store') >= Len(store)
      BY <2>1, WriteKeeps
    <3>3. UNCHANGED <<lastID, seen, vec, wpc, at, until>>
      BY <2>1 DEF WriteBatch
    <3>4. Handled' = Handled /\ Handled \in Int /\ Handled <= Len(store)
      BY <2>0, <3>3 DEF Handled, RangeInv
    <3>5. wpc = "upsert" => store'[at] = store[at]
      BY <2>0, <3>1 DEF RangeInv
    <3>6. SeenInv'
      BY <2>0, <3>1, <3>3, <3>4, <3>5 DEF SeenInv
    <3>7. FreshInv'
      BY <2>0, <3>1, <3>3, <3>5 DEF FreshInv, RangeInv
    <3>8. CitesOldest'
      BY <2>0, <3>1, <3>2, <3>3 DEF CitesOldest
    <3> QED  BY <3>6, <3>7, <3>8
  <2>2. CASE Signal
    BY <2>2 DEF Signal, SeenInv, FreshInv, CitesOldest, Handled
  <2>3. CASE Poll
    BY <2>3 DEF Poll, SeenInv, FreshInv, CitesOldest, Handled
  <2>4. CASE SeeDone
    BY <2>4 DEF SeeDone, SeenInv, FreshInv, CitesOldest, Handled
  <2>5. CASE SinceEmpty
    BY <2>5 DEF SinceEmpty, SeenInv, FreshInv, CitesOldest, Handled
  <2>6. CASE Since
    <3>1. UNCHANGED <<store, seen, vec>> /\ wpc = "since" /\ wpc' = "process"
      BY <2>6 DEF Since
    <3>2. Handled' = Handled
      BY <2>0, <2>6, <3>1 DEF Since, Handled, RangeInv
    <3> QED  BY <3>1, <3>2 DEF SeenInv, FreshInv, CitesOldest
  <2>7. CASE ProcessSeen
    <3>1. UNCHANGED <<store, seen, vec>> /\ wpc = "process" /\ wpc' # "upsert"
      BY <2>7 DEF ProcessSeen, NextEntry
    <3>2. Handled' = at /\ Handled = at - 1
      BY <2>0, <2>7 DEF ProcessSeen, NextEntry, Handled
    <3>3. store[at] \in seen
      BY <2>7 DEF ProcessSeen, Known
    <3>4. SeenInv'
      BY <2>0, <3>1, <3>2, <3>3 DEF SeenInv
    <3> QED  BY <3>1, <3>4 DEF FreshInv, CitesOldest
  <2>8. CASE ProcessNew
    <3>1. UNCHANGED <<store, vec, at>> /\ wpc = "process" /\ wpc' = "upsert"
      BY <2>8 DEF ProcessNew
    <3>2. seen' = seen \cup {store[at]} /\ store[at] \notin seen
      BY <2>8 DEF ProcessNew, Known
    <3>3. Handled' = at - 1 /\ Handled = at - 1
      BY <3>1 DEF Handled
    <3>4. SeenInv'
      BY <3>1, <3>2, <3>3 DEF SeenInv
    <3>5. FreshInv'
      BY <3>1, <3>2, <3>3 DEF FreshInv, SeenInv
    <3> QED  BY <3>1, <3>4, <3>5 DEF CitesOldest
  <2>9. CASE Upsert
    <3>1. UNCHANGED <<store, seen>> /\ wpc = "upsert" /\ wpc' # "upsert"
      BY <2>9 DEF Upsert, NextEntry
    <3>2. vec' = vec \cup {[ref |-> at, content |-> store[at]]}
      BY <2>9, UpsertAdds
    <3>3. Handled' = at /\ Handled = at - 1
      BY <2>0, <2>9 DEF Upsert, NextEntry, Handled
    <3>4. store[at] \in seen /\ \A id \in 1..(at - 1) : store[id] # store[at]
      BY <3>1 DEF FreshInv
    <3>5. SeenInv'
      <4>1. \A id \in 1..at : store[id] \in seen
        BY <2>0, <3>3, <3>4 DEF SeenInv
      <4>2. ASSUME NEW c \in seen
            PROVE  \E v \in vec' : v.content = c
        <5>1. CASE \E v \in vec : v.content = c
          BY <3>2, <5>1
        <5>2. CASE c = store[at]
          <6> DEFINE item == [ref |-> at, content |-> store[at]]
          <6>1. item \in vec' /\ item.content = c
            BY <3>2, <5>2
          <6> QED  BY <6>1
        <5> QED  BY <5>1, <5>2 DEF SeenInv
      <4>3. \A v \in vec' : v.content \in seen
        BY <3>2, <3>4 DEF SeenInv
      <4> QED  BY <3>1, <3>3, <4>1, <4>2, <4>3 DEF SeenInv
    <3>6. CitesOldest'
      <4>1. at \in 1..Len(store)
        BY <2>0, <3>1 DEF RangeInv
      <4> QED  BY <3>1, <3>2, <3>4, <4>1 DEF CitesOldest
    <3> QED  BY <3>1, <3>5, <3>6 DEF FreshInv
  <2>10. CASE Advance
    <3>1. UNCHANGED <<store, seen, vec>> /\ wpc = "advance" /\ wpc' = "count"
      BY <2>10 DEF Advance
    <3>2. Handled' = Handled
      BY <2>0, <2>10, <3>1 DEF Advance, Handled, RangeInv
    <3> QED  BY <3>1, <3>2 DEF SeenInv, FreshInv, CitesOldest
  <2>11. CASE OnEmbedded
    BY <2>11 DEF OnEmbedded, SeenInv, FreshInv, CitesOldest, Handled
  <2>12. CASE Scrape
    <3>1. UNCHANGED <<store, index, worker>>
      BY <2>12, ScrapeOnlyReads
    <3> QED  BY <3>1 DEF SeenInv, FreshInv, CitesOldest, Handled
  <2>13. CASE UNCHANGED vars
    BY <2>13 DEF vars, SeenInv, FreshInv, CitesOldest, Handled
  <2> QED
    BY <2>1, <2>2, <2>3, <2>4, <2>5, <2>6, <2>7, <2>8, <2>9, <2>10, <2>11,
       <2>12, <2>13 DEF Next, Work
<1> QED  BY <1>1, <1>2, TypeCorrect, PTL DEF Spec

\* Whatever the checkpoint has passed can be found by a search.
THEOREM CheckpointIsSearchable == Spec => []CheckpointCovers
<1>1. TypeOK /\ RangeInv /\ IndexInv => CheckpointCovers
  <2> SUFFICES ASSUME TypeOK, RangeInv, IndexInv
               PROVE  CheckpointCovers
    OBVIOUS
  <2> USE DEF Ticking, InEntries
  <2>1. lastID \in Nat /\ at \in Nat /\ until \in Nat /\ from \in Nat
    BY DEF TypeOK
  <2>2. lastID <= Handled /\ Handled \in Int
    BY <2>1 DEF Handled, RangeInv
  <2>3. wpc = "upsert" => lastID < at
    BY <2>1 DEF RangeInv
  <2>4. ASSUME NEW id \in 1..lastID
        PROVE  \E v \in vec : v.content = store[id]
    <3>1. store[id] \in seen
      BY <2>1, <2>2 DEF IndexInv, SeenInv
    <3>2. wpc = "upsert" => store[id] # store[at]
      BY <2>1, <2>3 DEF IndexInv, FreshInv
    <3> QED  BY <3>1, <3>2 DEF IndexInv, SeenInv
  <2> QED  BY <2>4 DEF CheckpointCovers, RangeInv
<1> QED  BY <1>1, TypeCorrect, IndexInvariant, PTL

\* A vector refers to the oldest entry with its content.
THEOREM CitationsAreOldest == Spec => []CitesOldest
<1>1. IndexInv => CitesOldest
  BY DEF IndexInv
<1> QED  BY <1>1, IndexInvariant, PTL

-----------------------------------------------------------------------------
(* The pass after the signal *)

\* From the signal on: the last tick starts at or past the checkpoint of that
\* moment and reads what the store held then, up to its limit.
PassInv ==
  /\ cut.done <= lastID /\ cut.head <= Len(store)
  /\ wpc = "done" => mode = "last"
  /\ mode = "last" => ctxDone
  /\ mode = "last" /\ wpc \in InEntries =>
       until >= Least(cut.head, cut.done + Limit)
  /\ mode = "last" /\ wpc = "count" => lastID >= Least(cut.head, cut.done + Limit)
  /\ FinalPassCovers

\* The pass after ctx.Done covers what was pending at the signal, or a full
\* tick's worth of it.
THEOREM FinalPassHolds == Spec => []FinalPassCovers
<1> USE EmbedWorkerAssumption DEF Ticking, InEntries
<1>1. Init => PassInv
  <2> SUFFICES ASSUME Init
               PROVE  PassInv
    OBVIOUS
  <2>1. Len(store) = 0 /\ cut.head = 0 /\ cut.done = 0
    BY DEF Init
  <2> QED  BY <2>1 DEF Init, PassInv, FinalPassCovers
<1>2. TypeOK /\ TypeOK' /\ RangeInv /\ PassInv /\ [Next]_vars => PassInv'
  <2> SUFFICES ASSUME TypeOK, TypeOK', RangeInv, PassInv, [Next]_vars
               PROVE  PassInv'
    OBVIOUS
  <2> USE DEF index, worker, reader, signal, AfterTick, FinalPassCovers
  <2>0. /\ Len(store) \in Nat /\ cut.head \in Nat /\ cut.done \in Nat
        /\ lastID \in Nat /\ from \in Nat /\ at \in Nat /\ until \in Nat
    BY DEF TypeOK
  <2>1. ASSUME NEW b \in Batches, WriteBatch(b)
        PROVE  PassInv'
    <3>1. Len(store') \in Nat /\ Len(store') >= Len(store)
      BY <2>1, WriteKeeps
    <3>2. UNCHANGED <<index, worker, reader, signal>>
      BY <2>1 DEF WriteBatch
    <3> QED  BY <2>0, <3>1, <3>2 DEF PassInv
  <2>2. CASE Signal
    <3>1. cut'.head = Len(store) /\ cut'.done = lastID
      BY <2>2 DEF Signal
    <3>2. mode # "last" /\ UNCHANGED <<store, lastID, mode, wpc>>
      BY <2>2 DEF Signal, PassInv
    <3> QED  BY <2>0, <3>1, <3>2 DEF PassInv
  <2>3. CASE Poll
    BY <2>3 DEF Poll, PassInv
  <2>4. CASE SeeDone
    BY <2>4 DEF SeeDone, PassInv
  <2>5. CASE SinceEmpty
    <3>1. lastID >= cut.head
      BY <2>0, <2>5 DEF SinceEmpty, PassInv, RangeInv
    <3> QED  BY <2>0, <2>5, <3>1 DEF SinceEmpty, PassInv, Least
  <2>6. CASE Since
    <3>1. until' >= Least(cut.head, cut.done + Limit)
      BY <2>0, <2>6 DEF Since, PassInv, RangeInv, Least
    <3> QED  BY <2>6, <3>1 DEF Since, PassInv
  <2>7. CASE ProcessSeen
    BY <2>7 DEF ProcessSeen, NextEntry, PassInv
  <2>8. CASE ProcessNew
    BY <2>8 DEF ProcessNew, PassInv
  <2>9. CASE Upsert
    BY <2>9 DEF Upsert, NextEntry, PassInv
  <2>10. CASE Advance
    BY <2>0, <2>10 DEF Advance, PassInv, RangeInv, Least
  <2>11. CASE OnEmbedded
    BY <2>11 DEF OnEmbedded, PassInv
  <2>12. CASE Scrape
    <3>1. UNCHANGED <<store, index, worker, signal>>
      BY <2>12, ScrapeOnlyReads
    <3> QED  BY <3>1 DEF PassInv
  <2>13. CASE UNCHANGED vars
    BY <2>13 DEF vars, PassInv
  <2> QED
    BY <2>1, <2>2, <2>3, <2>4, <2>5, <2>6, <2>7, <2>8, <2>9, <2>10, <2>11,
       <2>12, <2>13 DEF Next, Work
<1>3. PassInv => FinalPassCovers
  BY DEF PassInv
<1> QED  BY <1>1, <1>2, <1>3, TypeCorrect, PTL DEF Spec

-----------------------------------------------------------------------------
(* The metrics *)

\* Every entry handled has a vector of its own or was counted as deduplicated;
\* sl_embedded_total follows the checkpoint.
CountInv ==
  /\ embedded = IF wpc = "count" THEN from ELSE lastID
  /\ IsFiniteSet(vec)
  /\ deduped + Cardinality(vec) = Handled

\* The counters follow the worker through a tick.
LEMMA CountInvariant == Spec => []CountInv
<1> USE DEF Ticking, InEntries
<1>1. Init => CountInv
  <2> SUFFICES ASSUME Init
               PROVE  CountInv
    OBVIOUS
  <2>1. IsFiniteSet(vec) /\ Cardinality(vec) = 0
    BY FS_EmptySet DEF Init
  <2> QED  BY <2>1 DEF Init, CountInv, Handled
<1>2. TypeOK /\ RangeInv /\ IndexInv /\ CountInv /\ [Next]_vars => CountInv'
  <2> SUFFICES ASSUME TypeOK, RangeInv, IndexInv, CountInv, [Next]_vars
               PROVE  CountInv'
    OBVIOUS
  <2> USE DEF index, worker, reader, signal, AfterTick
  <2>0. /\ Len(store) \in Nat /\ deduped \in Nat /\ embedded \in Nat
        /\ lastID \in Nat /\ from \in Nat /\ at \in Nat /\ until \in Nat
    BY DEF TypeOK
  <2>1. Cardinality(vec) \in Nat
    BY FS_CardinalityType DEF CountInv
  <2>2. ASSUME UNCHANGED <<index, at, until>>, wpc # "count", wpc' # "count",
               Handled' = Handled
        PROVE  CountInv'
    BY <2>2 DEF CountInv
  <2>3. ASSUME UNCHANGED <<index, from, at, until, wpc>>
        PROVE  CountInv'
    <3>1. Handled' = Handled
      BY <2>3 DEF Handled
    <3> QED  BY <2>3, <3>1 DEF CountInv
  <2>4. CASE Poll
    BY <2>2, <2>4 DEF Poll, Handled
  <2>5. CASE SeeDone
    BY <2>2, <2>5 DEF SeeDone, Handled
  <2>6. CASE SinceEmpty
    BY <2>2, <2>6 DEF SinceEmpty, Handled
  <2>7. CASE Since
    <3>1. UNCHANGED <<vec, lastID, embedded, deduped>>
          /\ wpc = "since" /\ wpc' = "process"
      BY <2>7 DEF Since
    <3>2. Handled' = Handled
      BY <2>0, <2>7 DEF Since, Handled, RangeInv
    <3> QED  BY <3>1, <3>2 DEF CountInv
  <2>8. CASE ProcessSeen
    <3>1. Handled' = at /\ Handled = at - 1
      BY <2>0, <2>8 DEF ProcessSeen, NextEntry, Handled
    <3>2. deduped' = deduped + 1 /\ UNCHANGED <<vec, lastID, embedded>>
          /\ wpc = "process" /\ wpc' # "count"
      BY <2>8 DEF ProcessSeen, NextEntry
    <3> QED  BY <2>0, <2>1, <3>1, <3>2 DEF CountInv
  <2>9. CASE ProcessNew
    <3>1. Handled' = Handled
      BY <2>9 DEF ProcessNew, Handled
    <3>2. UNCHANGED <<vec, lastID, embedded, deduped>>
          /\ wpc = "process" /\ wpc' = "upsert"
      BY <2>9 DEF ProcessNew
    <3> QED  BY <3>1, <3>2 DEF CountInv
  <2>10. CASE Upsert
    <3> DEFINE item == [ref |-> at, content |-> store[at]]
    <3>1. vec' = vec \cup {item}
      BY <2>10, UpsertAdds DEF IndexInv
    <3>2. item \notin vec
      BY <2>10 DEF Upsert, IndexInv, FreshInv
    <3> HIDE DEF item
    <3>3. IsFiniteSet(vec') /\ Cardinality(vec') = Cardinality(vec) + 1
      BY <3>1, <3>2, FS_AddElement DEF CountInv
    <3>4. Handled' = at /\ Handled = at - 1
      BY <2>0, <2>10 DEF Upsert, NextEntry, Handled
    <3>5. UNCHANGED <<lastID, embedded, deduped>>
          /\ wpc = "upsert" /\ wpc' # "count"
      BY <2>10 DEF Upsert, NextEntry
    <3> QED  BY <2>0, <2>1, <3>3, <3>4, <3>5 DEF CountInv
  <2>11. CASE Advance
    <3>1. wpc = "advance" /\ wpc' = "count" /\ lastID' = until /\ from' = from
      BY <2>0, <2>11 DEF Advance, RangeInv
    <3>2. embedded' = from /\ Handled' = Handled
      BY <2>0, <2>11, <3>1 DEF Advance, CountInv, Handled, RangeInv
    <3>3. UNCHANGED <<vec, deduped>>
      BY <2>11 DEF Advance
    <3> QED  BY <3>1, <3>2, <3>3 DEF CountInv
  <2>12. CASE OnEmbedded
    <3>1. wpc = "count" /\ wpc' \in {"poll", "done"} /\ lastID' = until
      BY <2>12 DEF OnEmbedded, RangeInv
    <3>2. embedded' = until /\ Handled' = Handled
      BY <2>0, <2>12, <3>1 DEF OnEmbedded, CountInv, Handled, RangeInv
    <3>3. UNCHANGED <<vec, deduped>>
      BY <2>12 DEF OnEmbedded
    <3> QED  BY <3>1, <3>2, <3>3 DEF CountInv
  <2>13. ASSUME NEW b \in Batches, WriteBatch(b)
         PROVE  CountInv'
    BY <2>3, <2>13 DEF WriteBatch
  <2>14. CASE Signal
    BY <2>3, <2>14 DEF Signal
  <2>15. CASE Scrape
    BY <2>3, <2>15, ScrapeOnlyReads
  <2>16. CASE UNCHANGED vars
    BY <2>3, <2>16 DEF vars
  <2> QED
    BY <2>4, <2>5, <2>6, <2>7, <2>8, <2>9, <2>10, <2>11, <2>12, <2>13, <2>14,
       <2>15, <2>16 DEF Next, Work
<1> QED  BY <1>1, <1>2, TypeCorrect, IndexInvariant, PTL DEF Spec

\* Between ticks the two metrics and the vector store account for every entry
\* up to the checkpoint, each once.
THEOREM CountersAgree == Spec => []CountersAddUp
<1>1. CountInv => CountersAddUp
  BY DEF CountInv, CountersAddUp, Handled
<1> QED  BY <1>1, CountInvariant, PTL

\* What a scrape has read so far, at each of its places.
PageInv ==
  /\ lpc = "counted" => shown <= lastID
  /\ lpc = "read" => shown <= lfrom
  /\ ScrapeAddsUp

\* A scrape never shows more entries embedded and pending than written: the
\* metric never runs ahead of the checkpoint, nor that of the store.
THEOREM ScrapesAddUp == Spec => []ScrapeAddsUp
<1>1. Init => PageInv
  BY DEF Init, PageInv, ScrapeAddsUp
<1>2. TypeOK /\ TypeOK' /\ RangeInv /\ CountInv /\ PageInv /\ [Next]_vars => PageInv'
  <2> SUFFICES ASSUME TypeOK, TypeOK', RangeInv, CountInv, PageInv, [Next]_vars
               PROVE  PageInv'
    OBVIOUS
  <2> USE DEF ScrapeAddsUp
  <2>0. /\ Len(store) \in Nat /\ Len(store') \in Nat
        /\ lastID \in Nat /\ lastID' \in Nat /\ lfrom \in Nat
        /\ shown \in Nat /\ lag \in Nat
    <3>1. store \in Seq(Contents) /\ store' \in Seq(Contents)
      BY DEF TypeOK
    <3>2. /\ lastID \in Nat /\ lastID' \in Nat /\ lfrom \in Nat
          /\ shown \in Nat /\ lag \in Nat
      BY DEF TypeOK
    <3> QED  BY <3>1, <3>2
  <2>1. ASSUME UNCHANGED reader, Len(store') >= Len(store), lastID' >= lastID
        PROVE  PageInv'
    BY <2>0, <2>1 DEF reader, PageInv
  <2>2. CASE ScrapeEmbedded
    <3>1. embedded <= lastID
      BY <2>0 DEF CountInv, RangeInv, TypeOK
    <3>2. shown' = embedded /\ lastID' = lastID /\ lpc' = "counted"
      BY <2>2 DEF ScrapeEmbedded, index
    <3> QED  BY <3>1, <3>2 DEF PageInv
  <2>3. CASE LagBegins
    BY <2>0, <2>3 DEF LagBegins, PageInv
  <2>4. CASE LagEnds
    <3>1. lag' <= Len(store) - lfrom
      BY <2>0, <2>4, EmbedWorkerAssumption DEF LagEnds, Pending, Least
    <3>2. shown <= lfrom /\ shown' = shown /\ store' = store /\ lpc' = "lagged"
      BY <2>4 DEF LagEnds, PageInv
    <3>3. lag' \in Nat
      BY DEF TypeOK
    <3> QED  BY <2>0, <3>1, <3>2, <3>3 DEF PageInv
  <2>5. CASE ScrapeWritten
    BY <2>5 DEF ScrapeWritten, PageInv
  <2>6. ASSUME NEW b \in Batches, WriteBatch(b)
        PROVE  PageInv'
    <3>1. Len(store') >= Len(store)
      BY <2>6, WriteKeeps
    <3>2. UNCHANGED reader /\ lastID' = lastID
      BY <2>6 DEF WriteBatch, index
    <3> QED  BY <2>0, <2>1, <3>1, <3>2
  <2>7. CASE Advance
    <3>1. UNCHANGED reader /\ store' = store /\ lastID' >= lastID
      BY <2>0, <2>7 DEF Advance, RangeInv, TypeOK
    <3> QED  BY <2>0, <2>1, <3>1
  <2>8. CASE Signal \/ UNCHANGED vars \/ (Work /\ ~Advance)
    <3>1. UNCHANGED <<reader, store, lastID>>
      BY <2>8 DEF Signal, vars, index, Work, Poll, SeeDone, SinceEmpty, Since,
                  ProcessSeen, ProcessNew, Upsert, OnEmbedded
    <3> QED  BY <2>0, <2>1, <3>1
  <2> QED
    BY <2>2, <2>3, <2>4, <2>5, <2>6, <2>7, <2>8 DEF Next, Scrape
<1>3. PageInv => ScrapeAddsUp
  BY DEF PageInv
<1> QED  BY <1>1, <1>2, <1>3, TypeCorrect, CountInvariant, PTL DEF Spec

-----------------------------------------------------------------------------
(* How much of a pass is left *)

\* Steps a pass of the worker may still take: two for every entry it has read
\* and not dealt with, one to move the checkpoint, one to count. Before Since it
\* may be any number up to Limit of them.
PassLeft ==
  CASE wpc \in {"poll", "done"} -> 0
    [] wpc = "since"   -> 2 * Limit + 3
    [] wpc = "process" -> 2 * (until - at) + 4
    [] wpc = "upsert"  -> 2 * (until - at) + 3
    [] wpc = "advance" -> 2
    [] wpc = "count"   -> 1

\* A pass ends although the store grows under it: every step of one lowers
\* PassLeft and no write, scrape or signal raises it, so after the poll that
\* started it tick returns in at most 2 * Limit + 3 steps, however fast entries
\* arrive. The pass after ctx.Done is one of them.
PassIsBounded ==
  [][/\ PassLeft \in 0..(2 * Limit + 3)
     /\ wpc # "poll" /\ Work => PassLeft' < PassLeft
     /\ ~Work => PassLeft' <= PassLeft]_vars

LEMMA PassLeftIsNat ==
  ASSUME TypeOK, RangeInv
  PROVE  PassLeft \in Nat
<1>1. CASE wpc \in {"poll", "done", "advance", "count"}
  BY <1>1 DEF PassLeft
<1>2. CASE wpc = "since"
  BY <1>2, EmbedWorkerAssumption DEF PassLeft
<1>3. CASE wpc \in {"process", "upsert"}
  <2>1. until - at \in Nat
    BY <1>3 DEF TypeOK, RangeInv, InEntries
  <2> QED  BY <1>3, <2>1 DEF PassLeft
<1> QED  BY <1>1, <1>2, <1>3 DEF TypeOK

\* Going to the next entry, or past the last one.
LEMMA NextEntryGetsOn ==
  ASSUME TypeOK, RangeInv, NextEntry, until' = until, wpc \in InEntries
  PROVE  PassLeft' \in Int /\ PassLeft' <= 2 * (until - at) + 2
<1>1. at \in Nat /\ until \in Nat /\ at <= until
  BY DEF TypeOK, RangeInv, InEntries
<1>2. CASE at = until
  BY <1>1, <1>2 DEF NextEntry, PassLeft
<1>3. CASE at # until
  <2>1. PassLeft' = 2 * (until - (at + 1)) + 4
    BY <1>1, <1>3 DEF NextEntry, PassLeft
  <2> QED  BY <1>1, <2>1
<1> QED  BY <1>2, <1>3

\* One step of the worker within a pass.
LEMMA PassGetsOn ==
  ASSUME TypeOK, RangeInv, wpc # "poll", Work
  PROVE  PassLeft' \in Int /\ PassLeft' < PassLeft
<1>0. Limit \in Nat /\ Len(store) \in Nat /\ at \in Nat /\ until \in Nat /\ from \in Nat
  BY EmbedWorkerAssumption DEF TypeOK
<1>1. CASE SinceEmpty \/ OnEmbedded
  <2>1. wpc \in {"since", "count"} /\ wpc' \in {"poll", "done"}
    BY <1>1 DEF SinceEmpty, OnEmbedded, AfterTick
  <2> QED  BY <1>0, <2>1 DEF PassLeft
<1>2. CASE Since
  <2> DEFINE read == until' - at'
  <2>1. read \in Int /\ read <= Limit - 1
    BY <1>0, <1>2 DEF Since, Least
  <2>2. PassLeft' = 2 * read + 4 /\ PassLeft = 2 * Limit + 3
    BY <1>2 DEF Since, PassLeft
  <2> HIDE DEF read
  <2> QED  BY <1>0, <2>1, <2>2
<1>3. CASE ProcessSeen
  <2>1. PassLeft' \in Int /\ PassLeft' <= 2 * (until - at) + 2
    BY <1>3, NextEntryGetsOn DEF ProcessSeen, InEntries
  <2>2. PassLeft = 2 * (until - at) + 4
    BY <1>3 DEF ProcessSeen, PassLeft
  <2> QED  BY <1>0, <2>1, <2>2
<1>4. CASE ProcessNew
  BY <1>0, <1>4 DEF ProcessNew, PassLeft
<1>5. CASE Upsert
  <2>1. PassLeft' \in Int /\ PassLeft' <= 2 * (until - at) + 2
    BY <1>5, NextEntryGetsOn DEF Upsert, InEntries
  <2>2. PassLeft = 2 * (until - at) + 3
    BY <1>5 DEF Upsert, PassLeft
  <2> QED  BY <1>0, <2>1, <2>2
<1>6. CASE Advance
  BY <1>6 DEF Advance, PassLeft
<1> QED  BY <1>1, <1>2, <1>3, <1>4, <1>5, <1>6 DEF Work, Poll, SeeDone

\* What is not a step of the worker leaves the pass where it is.
LEMMA OthersLeavePass ==
  ASSUME [Next]_vars, ~Work
  PROVE  PassLeft' = PassLeft
<1>1. UNCHANGED <<wpc, at, until>>
  BY ScrapeOnlyReads DEF Next, WriteBatch, Signal, vars, worker
<1> QED  BY <1>1 DEF PassLeft

\* What the measure starts from bounds it throughout.
PassInRange == PassLeft <= 2 * Limit + 3

LEMMA PassBound == Spec => []PassInRange
<1> USE EmbedWorkerAssumption DEF PassInRange
<1>1. Init => PassInRange
  BY DEF Init, PassLeft
<1>2. TypeOK /\ RangeInv /\ PassInRange /\ [Next]_vars => PassInRange'
  <2> SUFFICES ASSUME TypeOK, RangeInv, PassInRange, [Next]_vars
               PROVE  PassInRange'
    OBVIOUS
  <2>1. CASE ~Work
    BY <2>1, OthersLeavePass
  <2>2. CASE Work /\ wpc # "poll"
    BY <2>2, PassGetsOn, PassLeftIsNat
  <2>3. CASE Work /\ wpc = "poll"
    <3>1. wpc' = "since"
      BY <2>3 DEF Work, Poll, SeeDone, SinceEmpty, Since, ProcessSeen, ProcessNew,
                  Upsert, Advance, OnEmbedded
    <3>2. PassLeft' = 2 * Limit + 3
      BY <3>1 DEF PassLeft
    <3> QED  BY <3>2
  <2> QED  BY <2>1, <2>2, <2>3
<1> QED  BY <1>1, <1>2, TypeCorrect, PTL DEF Spec

\* Every pass of the embedding worker ends once it is scheduled, for every limit
\* and whatever is written meanwhile.
THEOREM PassesEnd == Spec => PassIsBounded
<1>1. TypeOK /\ RangeInv /\ PassInRange /\ [Next]_vars
        => [/\ PassLeft \in 0..(2 * Limit + 3)
            /\ wpc # "poll" /\ Work => PassLeft' < PassLeft
            /\ ~Work => PassLeft' <= PassLeft]_vars
  BY EmbedWorkerAssumption, PassLeftIsNat, PassGetsOn, OthersLeavePass DEF PassInRange
<1> QED  BY <1>1, TypeCorrect, PassBound, PTL DEF Spec, PassIsBounded

\* Steps until the worker returns: those of the pass it is in, and before ctx.Done
\* is chosen that choice and the last pass after it.
Remaining == PassLeft + (IF mode = "run" THEN 2 * Limit + 4 ELSE 0)

\* Once the context is cancelled only one thing keeps the worker from returning,
\* the select of Run that takes the ticker although ctx.Done is ready too: every
\* other step of it lowers Remaining, and nothing that happens around it, the
\* writer that still drains into the store included, makes it longer.
OnlyPollsDelay ==
  [][/\ Remaining \in 0..(4 * Limit + 7)
     /\ Work /\ ~Poll => Remaining' < Remaining
     /\ ~Work => Remaining' = Remaining]_vars

\* There is no pass after the last one.
LEMMA LastIsLast == Spec => [](mode = "last" => wpc # "poll")
<1> DEFINE NoMore == mode = "last" => wpc # "poll"
<1>1. Init => NoMore
  BY DEF Init
<1>2. NoMore /\ [Next]_vars => NoMore'
  <2> SUFFICES ASSUME NoMore, [Next]_vars
               PROVE  NoMore'
    OBVIOUS
  <2>1. CASE Work
    BY <2>1 DEF Work, Poll, SeeDone, SinceEmpty, Since, ProcessSeen, ProcessNew, Upsert,
                Advance, OnEmbedded, NextEntry, AfterTick
  <2>2. CASE ~Work
    BY <2>2, ScrapeOnlyReads DEF Next, WriteBatch, Signal, vars, worker
  <2> QED  BY <2>1, <2>2
<1> QED  BY <1>1, <1>2, PTL DEF Spec

LEMMA RemainingInRange ==
  ASSUME TypeOK, RangeInv, PassInRange
  PROVE  Remaining \in 0..(4 * Limit + 7)
  BY PassLeftIsNat, EmbedWorkerAssumption DEF PassInRange, Remaining

\* One step of the worker other than another poll.
LEMMA WorkerGetsOn ==
  ASSUME TypeOK, RangeInv, mode = "last" => wpc # "poll", Work, ~Poll
  PROVE  Remaining' < Remaining
<1>1. CASE SeeDone
  <2>1. mode = "run" /\ mode' = "last" /\ PassLeft = 0 /\ PassLeft' = 2 * Limit + 3
    BY <1>1 DEF SeeDone, PassLeft, TypeOK
  <2> QED  BY <2>1, EmbedWorkerAssumption DEF Remaining
<1>2. CASE ~SeeDone
  <2>1. wpc # "poll" /\ mode' = mode
    BY <1>2 DEF Work, SinceEmpty, Since, ProcessSeen, ProcessNew, Upsert, Advance,
                OnEmbedded
  <2>2. PassLeft' \in Int /\ PassLeft' < PassLeft /\ PassLeft \in Int
    BY <2>1, PassGetsOn, PassLeftIsNat
  <2> DEFINE after == IF mode = "run" THEN 2 * Limit + 4 ELSE 0
  <2>3. Remaining = PassLeft + after /\ Remaining' = PassLeft' + after
    BY <2>1 DEF Remaining
  <2>4. after \in Int
    BY EmbedWorkerAssumption
  <2> HIDE DEF after
  <2>5. \A m, n, k \in Int : m < n => m + k < n + k
    OBVIOUS
  <2>6. PassLeft' + after < PassLeft + after
    BY <2>2, <2>4, <2>5
  <2> QED  BY <2>3, <2>6
<1> QED  BY <1>1, <1>2

\* The worker returns after a bounded number of steps of its own, unless its
\* ticker is preferred to the cancelled context again and again.
THEOREM WorkerEnds == Spec => OnlyPollsDelay
<1>1. [Next]_vars /\ ~Work => Remaining' = Remaining
  <2> SUFFICES ASSUME [Next]_vars, ~Work
               PROVE  Remaining' = Remaining
    OBVIOUS
  <2>1. UNCHANGED mode
    BY ScrapeOnlyReads DEF Next, WriteBatch, Signal, vars, worker
  <2> QED  BY <2>1, OthersLeavePass DEF Remaining
<1>2. TypeOK /\ RangeInv /\ PassInRange /\ (mode = "last" => wpc # "poll") /\ [Next]_vars
      => [/\ Remaining \in 0..(4 * Limit + 7)
          /\ Work /\ ~Poll => Remaining' < Remaining
          /\ ~Work => Remaining' = Remaining]_vars
  BY <1>1, RemainingInRange, WorkerGetsOn
<1> QED
  BY <1>2, TypeCorrect, PassBound, LastIsLast, PTL DEF Spec, OnlyPollsDelay
=============================================================================
