---------------------------- MODULE SystemProofs ----------------------------
(***************************************************************************)
(* Proofs about System: the process behaves like its parts, so what is     *)
(* proved of HotPath and of EmbedWorker holds of it.                       *)
(***************************************************************************)
EXTENDS System, HotPathProofs

-----------------------------------------------------------------------------
(* The hot path *)

\* Every step of the process is a step of the hot path or leaves it alone: the
\* exit waits for more goroutines, and nothing else touches its state.
LEMMA HotPathSteps == [SystemNext]_allVars => [Next]_vars
<1> SUFFICES ASSUME [SystemNext]_allVars
             PROVE  Next \/ UNCHANGED vars
  OBVIOUS
<1>1. CASE Client
  BY <1>1 DEF Client, Next
<1>2. CASE Writer
  BY <1>2 DEF Writer, Next
<1>3. CASE Embedding
  BY <1>3 DEF Embedding
<1>4. CASE AnomalyReturns \/ SweeperReturns
  BY <1>4 DEF AnomalyReturns, SweeperReturns
<1>5. CASE Cancel
  BY <1>5 DEF Cancel, Next
<1>6. CASE Shutdown
  BY <1>6 DEF Shutdown, Stop, Next
<1>7. CASE ForcedExit
  BY <1>7 DEF ForcedExit, Next
<1>8. CASE SystemTerminated
  BY <1>8 DEF SystemTerminated, allVars
<1>9. CASE UNCHANGED allVars
  BY <1>9 DEF allVars
<1> QED
  BY <1>1, <1>2, <1>3, <1>4, <1>5, <1>6, <1>7, <1>8, <1>9 DEF SystemNext

\* The process implements the hot path, so every invariant of HotPathProofs holds
\* of it.
THEOREM HotPathInside == SystemSpec => Spec
<1>1. SystemInit => Init
  BY DEF SystemInit
<1> QED  BY <1>1, HotPathSteps, PTL DEF SystemSpec, Spec

\* With a store that does not fail the whole process keeps the contract of the
\* ingest path, whatever else it runs and waits for.
THEOREM SystemKeepsContract ==
  ASSUME ~StoreMayFail
  PROVE  SystemSpec => ContractRefined
<1>1. Spec => ContractRefined
  BY ImplementsContract
<1> QED  BY <1>1, HotPathInside, PTL

-----------------------------------------------------------------------------
(* The embedding worker *)

\* An entry is stored once, so the store never holds more than there are.
StoreFits == Len(store) <= Cardinality(Entries)

LEMMA DistinctEntriesFit ==
  ASSUME TypeOK, OncePerEntryInOrder
  PROVE  StoreFits
<1>1. store \in [1..Len(store) -> Entries] /\ Len(store) \in Nat
  BY DEF TypeOK
<1>2. ASSUME NEW i \in 1..Len(store), NEW j \in 1..Len(store), i < j
      PROVE  store[i] # store[j]
  <2>1. store[i] \in Entries /\ store[i].idx \in Nat
    BY <1>1, EntryTypes
  <2>2. store[i].req = store[j].req => store[i].idx < store[j].idx
    BY <1>2 DEF OncePerEntryInOrder
  <2> QED  BY <2>1, <2>2
<1>3. store \in Injection(1..Len(store), Entries)
  <2>1. \A i, j \in 1..Len(store) : store[i] = store[j] => i = j
    BY <1>1, <1>2
  <2> QED  BY <1>1, <2>1 DEF Injection, IsInjective
<1>4. Cardinality(1..Len(store)) <= Cardinality(Entries)
  BY <1>3, SystemAssumption, FS_Injection
<1>5. Cardinality(1..Len(store)) = Len(store)
  <2>1. \A n \in Nat : Cardinality(1..n) = IF 1 > n THEN 0 ELSE n - 1 + 1
    BY FS_Interval
  <2>2. \A n \in Nat : (IF 1 > n THEN 0 ELSE n - 1 + 1) = n
    OBVIOUS
  <2> QED  BY <1>1, <2>1, <2>2
<1> QED  BY <1>4, <1>5 DEF StoreFits

\* What the embedding worker sees of an entry that is added.
LEMMA ContentAdded ==
  ASSUME NEW e \in Entries, store \in Seq(Entries), store' = Append(store, e)
  PROVE  /\ StoredContents \in Seq(Contents) /\ Len(StoredContents) = Len(store)
         /\ StoredContents' = StoredContents \o <<ContentOf[e]>>
         /\ ContentOf[e] \in Contents
<1>1. ContentOf[e] \in Contents /\ \A x \in Entries : ContentOf[x] \in Contents
  BY SystemAssumption
<1>2. StoredContents \in Seq(Contents) /\ Len(StoredContents) = Len(store)
  BY <1>1 DEF StoredContents
<1>3. /\ Len(store') = Len(store) + 1 /\ store' \in Seq(Entries)
      /\ \A i \in 1..Len(store) : store'[i] = store[i]
      /\ store'[Len(store) + 1] = e
  BY AppendAt
<1>4. /\ StoredContents' \in Seq(Contents) /\ Len(StoredContents') = Len(store) + 1
      /\ \A i \in 1..Len(store) : StoredContents'[i] = ContentOf[store[i]]
      /\ StoredContents'[Len(store) + 1] = ContentOf[e]
  BY <1>1, <1>3 DEF StoredContents
<1>5. \A i \in 1..Len(store) : StoredContents[i] = ContentOf[store[i]]
  BY DEF StoredContents
<1> DEFINE longer == StoredContents \o <<ContentOf[e]>>
<1>6. /\ longer \in Seq(Contents) /\ Len(longer) = Len(store) + 1
      /\ \A i \in 1..Len(store) : longer[i] = StoredContents[i]
      /\ longer[Len(store) + 1] = ContentOf[e]
  BY <1>1, <1>2
<1>7. \A i \in 1..(Len(store) + 1) : StoredContents'[i] = longer[i]
  BY <1>4, <1>5, <1>6
<1>8. StoredContents' = longer
  BY <1>4, <1>6, <1>7, SameSeq
<1> QED  BY <1>1, <1>2, <1>8

\* The surroundings EmbedWorker assumes are those main gives it: WriteBatch adds
\* entries one by one at the end, the signal cancels once and for all, and no
\* other step touches the worker or what it sees.
LEMMA EmbedWorkerSteps ==
  ASSUME TypeOK, StoreFits', [SystemNext]_allVars
  PROVE  Embed!Next \/ UNCHANGED Embed!vars
<1> USE DEF handler, buffer, writer, disk, main, history, vars, index, worker, others,
            allVars
<1> DEFINE Quiet == UNCHANGED <<store, CtxDone, lastID, seen, vec, embedded, deduped, epc,
                                emode, from, at, until, ecut>>
<1>1. Quiet => UNCHANGED Embed!vars
  BY DEF StoredContents, Embed!vars, Embed!index, Embed!worker, Embed!reader, Embed!signal
<1>2. CASE Client
  <2>1. UNCHANGED <<store, mpc>>
    BY <1>2 DEF Client, Handle, Arrive, Refuse, Decode, RejectInvalid, PublishSends,
                PublishFull, PublishPanics, CountAccepted, CountShed, Reply
  <2>2. Quiet
    BY <1>2, <2>1 DEF Client, CtxDone
  <2> QED  BY <1>1, <2>2
<1>3. CASE WriteEntry /\ Writer
  <2>1. Head(batch) \in Entries /\ Head(batch).redacted /\ store \in Seq(Entries)
    BY <1>3, AllRedacted DEF WriteEntry, TypeOK
  <2>2. store' = Append(store, Head(batch))
    BY <1>3, <2>1 DEF WriteEntry
  <2> DEFINE c == ContentOf[Head(batch)]
  <2>3. /\ StoredContents \in Seq(Contents) /\ Len(StoredContents) = Len(store)
        /\ StoredContents' = StoredContents \o <<c>> /\ c \in Contents
    BY <2>1, <2>2, ContentAdded
  <2>4. Len(store') = Len(store) + 1
    BY <2>1, <2>2
  <2>5. Len(StoredContents) + Len(<<c>>) <= Cardinality(Entries)
    <3>1. Len(store) + 1 <= Cardinality(Entries)
      BY <2>4 DEF StoreFits
    <3>2. Len(<<c>>) = 1
      OBVIOUS
    <3> QED  BY <2>3, <3>1, <3>2
  <2>6. UNCHANGED <<CtxDone, lastID, seen, vec, embedded, deduped, epc, emode, from, at,
                    until, ecut>>
    BY <1>3 DEF WriteEntry, Writer, CtxDone
  <2>7. Embed!WriteBatch(<<c>>)
    BY <2>3, <2>5, <2>6
       DEF Embed!WriteBatch, Embed!index, Embed!worker, Embed!reader, Embed!signal
  <2>8. <<c>> \in {<<d>> : d \in Contents}
    BY <2>3
  <2> QED  BY <2>7, <2>8 DEF Embed!Next
<1>4. CASE Writer /\ ~WriteEntry
  <2>1. UNCHANGED <<store, mpc>>
    BY <1>4 DEF Writer, Write, Receive, Tick, SeeDone, DrainEmpty, SeeClosed, EndFlush,
                FlushFails
  <2>2. Quiet
    BY <1>4, <2>1 DEF Writer, CtxDone
  <2> QED  BY <1>1, <2>2
<1>5. CASE Embedding
  BY <1>5 DEF Embedding, Embed!Next
<1>6. CASE AnomalyReturns \/ SweeperReturns
  BY <1>1, <1>6 DEF AnomalyReturns, SweeperReturns, CtxDone
<1>7. CASE Cancel
  <2>1. /\ CtxDone' /\ UNCHANGED <<store, lastID, seen, vec, embedded, deduped, epc, emode,
                                   from, at, until>>
        /\ ecut' = IF CtxDone THEN ecut ELSE [head |-> Len(store), done |-> lastID]
    BY <1>7 DEF Cancel, Signal, ServeFails, CtxDone
  <2>2. CASE CtxDone
    <3>1. CtxDone' = CtxDone
      BY <2>1, <2>2 DEF CtxDone
    <3> QED  BY <1>1, <2>1, <2>2, <3>1
  <2>3. CASE ~CtxDone
    <3>1. Len(StoredContents) = Len(store) /\ StoredContents' = StoredContents
      BY <2>1 DEF StoredContents, TypeOK
    <3>2. CtxDone' = TRUE
      BY <2>1 DEF CtxDone
    <3>3. Embed!Signal
      BY <2>1, <2>3, <3>1, <3>2 DEF Embed!Signal, Embed!index, Embed!worker, Embed!reader
    <3> QED  BY <3>3 DEF Embed!Next
  <2> QED  BY <2>2, <2>3
<1>8. CASE Shutdown \/ ForcedExit
  <2>1. UNCHANGED store /\ mpc # "serving" /\ mpc' # "serving"
    BY <1>8 DEF Shutdown, ForcedExit, BeginShutdown, ShutdownReturns, ShutdownExpires,
                Close, ExitClean, ExitForced
  <2>2. Quiet
    BY <1>8, <2>1 DEF Shutdown, ForcedExit, CtxDone
  <2> QED  BY <1>1, <2>2
<1>9. CASE SystemTerminated \/ UNCHANGED allVars
  BY <1>1, <1>9 DEF SystemTerminated, CtxDone
<1> QED
  BY <1>2, <1>3, <1>4, <1>5, <1>6, <1>7, <1>8, <1>9 DEF SystemNext

\* The process implements EmbedWorker: every behaviour of the whole is one of the
\* worker against a growing store, with nothing assumed that main does not keep.
THEOREM EmbedWorkerInside == SystemSpec => EmbedWorkerRefined
<1>1. SystemInit => Embed!Init
  BY DEF SystemInit
<1>2. SystemSpec => []TypeOK
  BY HotPathInside, TypeCorrect, PTL
<1>3. SystemSpec => []OncePerEntryInOrder
  BY HotPathInside, OrderHolds, PTL
<1>4. TypeOK /\ OncePerEntryInOrder => StoreFits
  BY DistinctEntriesFit
<1>5. TypeOK /\ StoreFits' /\ [SystemNext]_allVars => [Embed!Next]_(Embed!vars)
  BY EmbedWorkerSteps
<1> QED
  BY <1>1, <1>2, <1>3, <1>4, <1>5, PTL DEF SystemSpec, EmbedWorkerRefined, Embed!Spec

-----------------------------------------------------------------------------
(* What is proved of the worker, said of the process *)

Inner == INSTANCE EmbedWorkerProofs WITH
  Batches    <- {<<c>> : c \in Contents},
  Limit      <- TickLimit,
  LagLimit   <- 0,
  MaxEntries <- Cardinality(Entries),
  store      <- StoredContents,
  wpc        <- epc,
  mode       <- emode,
  lpc        <- "idle",
  lfrom      <- 0,
  shown      <- 0,
  lag        <- 0,
  ctxDone    <- CtxDone,
  cut        <- ecut

\* The constants main gives the worker are as EmbedWorker assumes.
LEMMA EmbedConstants == Inner!EmbedWorkerAssumption
<1>1. {<<c>> : c \in Contents} \subseteq Seq(Contents)
  OBVIOUS
<1>2. Cardinality(Entries) \in Nat
  BY SystemAssumption, FS_CardinalityType
<1>3. TickLimit \in Nat \ {0} /\ 0 \in Nat
  BY SystemAssumption
<1> QED  BY <1>1, <1>2, <1>3 DEF Inner!EmbedWorkerAssumption

\* The two instances are the same specification.
LEMMA SameWorker == EmbedWorkerRefined => Inner!Spec
<1>1. Embed!Init => Inner!Init
  BY DEF Embed!Init, Inner!Init
<1>2. [Embed!Next]_(Embed!vars) => [Inner!Next]_(Inner!vars)
  BY
     DEF Embed!Init, Inner!Init, Embed!Next, Inner!Next, Embed!vars,
         Inner!vars, Embed!index, Inner!index, Embed!worker,
         Inner!worker, Embed!reader, Inner!reader, Embed!signal,
         Inner!signal, Embed!WriteBatch, Inner!WriteBatch, Embed!Signal,
         Inner!Signal, Embed!Work, Inner!Work, Embed!Poll, Inner!Poll,
         Embed!SeeDone, Inner!SeeDone, Embed!SinceEmpty,
         Inner!SinceEmpty, Embed!Since, Inner!Since, Embed!ProcessSeen,
         Inner!ProcessSeen, Embed!ProcessNew, Inner!ProcessNew,
         Embed!Upsert, Inner!Upsert, Embed!Advance, Inner!Advance,
         Embed!OnEmbedded, Inner!OnEmbedded, Embed!Scrape, Inner!Scrape,
         Embed!ScrapeEmbedded, Inner!ScrapeEmbedded, Embed!LagBegins,
         Inner!LagBegins, Embed!LagEnds, Inner!LagEnds,
         Embed!ScrapeWritten, Inner!ScrapeWritten, Embed!AfterTick,
         Inner!AfterTick, Embed!Checkpoint, Inner!Checkpoint,
         Embed!Known, Inner!Known, Embed!NextEntry, Inner!NextEntry,
         Embed!Least, Inner!Least, Embed!Upserted, Inner!Upserted,
         Embed!Pending, Inner!Pending
<1> QED  BY <1>1, <1>2, PTL DEF EmbedWorkerRefined, Embed!Spec, Inner!Spec

\* A clean exit has waited for the worker, and nothing moves after it.
LEMMA ExitWaits == SystemSpec => [](mpc = "exited" => epc = "done")
<1> DEFINE Waited == mpc = "exited" => epc = "done"
<1>1. SystemInit => Waited
  BY DEF SystemInit, Init
<1>2. Waited /\ [SystemNext]_allVars => Waited'
  <2> SUFFICES ASSUME Waited, [SystemNext]_allVars
               PROVE  Waited'
    OBVIOUS
  <2> USE DEF handler, buffer, writer, disk, main, history, vars, index, worker, others,
              allVars
  <2>1. CASE Client
    BY <2>1 DEF Client, Handle, Arrive, Refuse, Decode, RejectInvalid, PublishSends,
                PublishFull, PublishPanics, CountAccepted, CountShed, Reply
  <2>2. CASE Writer
    BY <2>2 DEF Writer, Write, Receive, Tick, SeeDone, DrainEmpty, SeeClosed, WriteEntry,
                EndFlush, FlushFails
  <2>3. CASE Embedding
    BY <2>3 DEF Embedding, Running
  <2>4. CASE AnomalyReturns \/ SweeperReturns
    BY <2>4 DEF AnomalyReturns, SweeperReturns
  <2>5. CASE Cancel
    BY <2>5 DEF Cancel, Signal, ServeFails
  <2>6. CASE Shutdown
    BY <2>6 DEF Shutdown, BeginShutdown, ShutdownReturns, ShutdownExpires, Close,
                AllReturned
  <2>7. CASE ForcedExit \/ SystemTerminated \/ UNCHANGED allVars
    BY <2>7 DEF ForcedExit, ExitForced, SystemTerminated
  <2> QED  BY <2>1, <2>2, <2>3, <2>4, <2>5, <2>6, <2>7 DEF SystemNext
<1> QED  BY <1>1, <1>2, PTL DEF SystemSpec

\* After a clean exit what was stored at the signal is searchable, up to one tick
\* past the checkpoint.
THEOREM ExitsAreSearchable == SystemSpec => []ExitIsSearchable
<1>1. SystemSpec => Inner!Spec
  BY EmbedWorkerInside, SameWorker
<1>2. Inner!Spec => []Inner!CheckpointCovers
  BY EmbedConstants, Inner!CheckpointIsSearchable
<1>3. Inner!Spec => []Inner!FinalPassCovers
  BY EmbedConstants, Inner!FinalPassHolds
<1>4. Inner!Spec => []Inner!TypeOK
  BY EmbedConstants, Inner!TypeCorrect
<1>5. ASSUME Inner!CheckpointCovers, Inner!FinalPassCovers, Inner!TypeOK,
             mpc = "exited" => epc = "done"
      PROVE  ExitIsSearchable
  <2> SUFFICES ASSUME mpc = "exited",
                      NEW id \in 1..Embed!Least(ecut.head, ecut.done + TickLimit)
               PROVE  \E v \in vec : v.content = ContentOf[store[id]]
    BY DEF ExitIsSearchable
  <2>1. id <= lastID /\ lastID <= Len(StoredContents) /\ id \in 1..lastID
    <3>1. ecut.head \in Nat /\ ecut.done \in Nat /\ TickLimit \in Nat /\ lastID \in Nat
      BY <1>5, SystemAssumption DEF Inner!TypeOK
    <3>2. lastID >= Embed!Least(ecut.head, ecut.done + TickLimit)
      BY <1>5 DEF Inner!FinalPassCovers, Inner!Least, Embed!Least
    <3> QED  BY <1>5, <3>1, <3>2 DEF Inner!CheckpointCovers, Embed!Least
  <2>2. StoredContents[id] = ContentOf[store[id]]
    <3>1. id \in DOMAIN StoredContents
      BY <1>5, <2>1 DEF Inner!TypeOK
    <3> QED  BY <3>1 DEF StoredContents
  <2> QED  BY <1>5, <2>1, <2>2 DEF Inner!CheckpointCovers
<1> QED  BY <1>1, <1>2, <1>3, <1>4, <1>5, ExitWaits, PTL

-----------------------------------------------------------------------------
(* How much of the shutdown is left *)

\* Stages main has before it, and what a goroutine that only returns has.
MainLeft ==
  CASE mpc = "serving"   -> 5
    [] mpc = "signalled" -> 4
    [] mpc = "shutdown"  -> 3
    [] mpc = "close"     -> 2
    [] mpc = "waiting"   -> 1
    [] mpc \in {"exited", "killed"} -> 0
ReturnLeft(pc) == IF pc = "run" THEN 1 ELSE 0

\* Steps of main, the writer, the workers and the sweeper until all have returned.
ProcessLeft ==
  MainLeft + WorkLeft + Inner!Remaining + ReturnLeft(apc) + ReturnLeft(spc)

\* The shutdown gets on with every step. Only two kinds of steps put it off: a
\* handler that sends one more entry, of which there is none once the buffer is
\* closed, and the embedding worker's select that takes its ticker although the
\* context is cancelled. Every other step of main, of the writer, of the workers
\* and of the sweeper lowers ProcessLeft, which is never more than the bound, and
\* clients cannot raise it. So no goroutine keeps another busy: after Close the
\* process ends within that many steps and those the ticker adds.
ShutdownIsBounded ==
  [][/\ ProcessLeft \in 0..(5 * BufferSize + 2 * BatchSize + 4 * TickLimit + 18)
     /\ ~Client /\ ~(Embedding /\ Embed!Poll) => ProcessLeft' < ProcessLeft
     /\ Client => \/ ProcessLeft' = ProcessLeft
                  \/ ~closed /\ \E r \in Requests : PublishSends(r)]_allVars

\* The parts of the measure.
PartsInRange ==
  /\ MainLeft \in 0..5
  /\ WorkLeft \in 0..(5 * BufferSize + 2 * BatchSize + 4)
  /\ Inner!Remaining \in 0..(4 * TickLimit + 7)
  /\ ReturnLeft(apc) \in 0..1
  /\ ReturnLeft(spc) \in 0..1

\* What the embedding worker keeps, in the process as by itself.
WorkerInv ==
  Inner!TypeOK /\ Inner!RangeInv /\ (emode = "last" => epc # "poll")

LEMMA WorkerInvariant == SystemSpec => [](WorkerInv /\ Inner!PassInRange)
<1>1. SystemSpec => Inner!Spec
  BY EmbedWorkerInside, SameWorker
<1>2. Inner!Spec => [](Inner!TypeOK /\ Inner!RangeInv)
  BY EmbedConstants, Inner!TypeCorrect
<1>3. Inner!Spec => [](Inner!PassInRange)
  BY EmbedConstants, Inner!PassBound
<1>4. Inner!Spec => [](emode = "last" => epc # "poll")
  BY EmbedConstants, Inner!LastIsLast
<1> QED  BY <1>1, <1>2, <1>3, <1>4, PTL DEF WorkerInv

LEMMA PartsInvariant == SystemSpec => []PartsInRange
<1>1. TypeOK => MainLeft \in 0..5
  BY DEF TypeOK, MainLeft
<1>2. TypeOK /\ BacklogInv => WorkLeft \in 0..(5 * BufferSize + 2 * BatchSize + 4)
  BY WorkLeftInRange
<1>3. WorkerInv /\ Inner!PassInRange
        => Inner!Remaining \in 0..(4 * TickLimit + 7)
  BY EmbedConstants, Inner!RemainingInRange DEF WorkerInv
<1>4. ReturnLeft(apc) \in 0..1 /\ ReturnLeft(spc) \in 0..1
  BY DEF ReturnLeft
<1>5. TypeOK /\ BacklogInv /\ WorkerInv /\ Inner!PassInRange
        => PartsInRange
  BY <1>1, <1>2, <1>3, <1>4 DEF PartsInRange
<1> QED
  BY <1>5, HotPathInside, TypeCorrect, BacklogInvariant, WorkerInvariant, PTL

\* What moves none of a part's variables leaves the part.
LEMMA PartsKept ==
  /\ UNCHANGED mpc => MainLeft' = MainLeft
  /\ UNCHANGED <<ch, batch, mode, wpc>> => WorkLeft' = WorkLeft
  /\ UNCHANGED worker => Inner!Remaining' = Inner!Remaining
  /\ UNCHANGED apc => ReturnLeft(apc)' = ReturnLeft(apc)
  /\ UNCHANGED spc => ReturnLeft(spc)' = ReturnLeft(spc)
  BY DEF MainLeft, WorkLeft, LoopsLeft, FlushLeft, worker, Inner!Remaining,
         Inner!PassLeft, ReturnLeft

\* A step of the worker in the process is one of the worker by itself.
LEMMA SameWork == Embed!Work /\ ~Embed!Poll => Inner!Work /\ ~Inner!Poll
  BY DEF Embed!Work, Inner!Work, Embed!Poll, Inner!Poll, Embed!SeeDone, Inner!SeeDone,
         Embed!SinceEmpty, Inner!SinceEmpty, Embed!Since, Inner!Since,
         Embed!ProcessSeen, Inner!ProcessSeen, Embed!ProcessNew, Inner!ProcessNew,
         Embed!Upsert, Inner!Upsert, Embed!Advance, Inner!Advance, Embed!OnEmbedded,
         Inner!OnEmbedded, Embed!AfterTick, Inner!AfterTick, Embed!Checkpoint,
         Inner!Checkpoint, Embed!Known, Inner!Known, Embed!NextEntry, Inner!NextEntry,
         Embed!Least, Inner!Least, Embed!Upserted, Inner!Upserted, Embed!index,
         Inner!index, Embed!reader, Inner!reader, Embed!signal, Inner!signal

\* Every stage of main but serving lies behind the one before.
LEMMA MainGetsOn ==
  ASSUME Cancel \/ Shutdown \/ ForcedExit
  PROVE  MainLeft' < MainLeft
<1>1. CASE Cancel
  BY <1>1 DEF Cancel, Signal, ServeFails, MainLeft
<1>2. CASE Shutdown
  BY <1>2 DEF Shutdown, BeginShutdown, ShutdownReturns, ShutdownExpires, Close, ExitClean,
              MainLeft
<1>3. CASE ForcedExit
  BY <1>3 DEF ForcedExit, ExitForced, MainLeft
<1> QED  BY <1>1, <1>2, <1>3

LEMMA ProcessGetsOn ==
  ASSUME TypeOK, TypeOK', ShutdownInv, WorkerInv, PartsInRange, PartsInRange',
         SystemNext, ~Client, ~(Embedding /\ Embed!Poll), ~UNCHANGED allVars
  PROVE  ProcessLeft' < ProcessLeft
<1> USE PartsKept, HotPathAssumption, SystemAssumption
    DEF handler, buffer, writer, disk, main, history, vars, others, PartsInRange
<1>1. CASE Writer
  <2>1. WorkLeft' < WorkLeft
    BY <1>1, WriterGetsOn DEF Writer
  <2>2. UNCHANGED <<mpc, worker, apc, spc>>
    BY <1>1 DEF Writer, Write, Receive, Tick, SeeDone, DrainEmpty, SeeClosed, WriteEntry,
                EndFlush, FlushFails
  <2> QED  BY <2>1, <2>2 DEF ProcessLeft
<1>2. CASE Embedding
  <2>1. Inner!Work /\ ~Inner!Poll
    BY <1>2, SameWork DEF Embedding
  <2>2. Inner!Remaining' < Inner!Remaining
    BY <2>1, EmbedConstants, Inner!WorkerGetsOn DEF WorkerInv
  <2>3. UNCHANGED <<mpc, ch, batch, mode, wpc, apc, spc>>
    BY <1>2 DEF Embedding
  <2> QED  BY <2>2, <2>3 DEF ProcessLeft
<1>3. CASE AnomalyReturns
  <2>1. ReturnLeft(apc)' < ReturnLeft(apc)
    BY <1>3 DEF AnomalyReturns, ReturnLeft
  <2>2. UNCHANGED <<mpc, ch, batch, mode, wpc, worker, spc>>
    BY <1>3 DEF AnomalyReturns
  <2> QED  BY <2>1, <2>2 DEF ProcessLeft
<1>4. CASE SweeperReturns
  <2>1. ReturnLeft(spc)' < ReturnLeft(spc)
    BY <1>4 DEF SweeperReturns, ReturnLeft
  <2>2. UNCHANGED <<mpc, ch, batch, mode, wpc, worker, apc>>
    BY <1>4 DEF SweeperReturns
  <2> QED  BY <2>1, <2>2 DEF ProcessLeft
<1>5. CASE Cancel \/ Shutdown \/ ForcedExit
  <2>1. MainLeft' < MainLeft
    BY <1>5, MainGetsOn
  <2>2. UNCHANGED <<ch, batch, mode, wpc, worker, apc, spc>>
    BY <1>5 DEF Cancel, Signal, ServeFails, Shutdown, BeginShutdown, ShutdownReturns,
                ShutdownExpires, Close, ExitClean, ForcedExit, ExitForced
  <2> QED  BY <2>1, <2>2 DEF ProcessLeft
<1> QED  BY <1>1, <1>2, <1>3, <1>4, <1>5 DEF SystemNext, SystemTerminated

\* Clients leave the shutdown as it is, unless one of them still gets an entry in.
LEMMA ClientsDoNotDelay ==
  ASSUME Client
  PROVE  \/ ProcessLeft' = ProcessLeft
         \/ ~closed /\ \E r \in Requests : PublishSends(r)
<1> USE DEF handler, buffer, writer, disk, main, history, others
<1>1. CASE \E r \in Requests : PublishSends(r)
  BY <1>1 DEF PublishSends
<1>2. CASE ~\E r \in Requests : PublishSends(r)
  <2>1. UNCHANGED <<mpc, ch, batch, mode, wpc, worker, apc, spc>>
    BY <1>2 DEF Client, Handle, Arrive, Refuse, Decode, RejectInvalid, PublishFull,
                PublishPanics, CountAccepted, CountShed, Reply
  <2> QED  BY <2>1, PartsKept DEF ProcessLeft
<1> QED  BY <1>1, <1>2

\* The shutdown of the process is bounded by its capacities, whatever clients do.
THEOREM ShutdownGetsOn == SystemSpec => ShutdownIsBounded
<1>1. /\ TypeOK /\ TypeOK' /\ ShutdownInv /\ WorkerInv /\ PartsInRange /\ PartsInRange'
      /\ [SystemNext]_allVars
      => [/\ ProcessLeft \in 0..(5 * BufferSize + 2 * BatchSize + 4 * TickLimit + 18)
          /\ ~Client /\ ~(Embedding /\ Embed!Poll) => ProcessLeft' < ProcessLeft
          /\ Client => \/ ProcessLeft' = ProcessLeft
                       \/ ~closed /\ \E r \in Requests : PublishSends(r)]_allVars
  <2> SUFFICES ASSUME TypeOK, TypeOK', ShutdownInv, WorkerInv, PartsInRange,
                      PartsInRange', SystemNext, ~UNCHANGED allVars
               PROVE  /\ ProcessLeft \in 0..(5 * BufferSize + 2 * BatchSize
                                              + 4 * TickLimit + 18)
                      /\ ~Client /\ ~(Embedding /\ Embed!Poll)
                           => ProcessLeft' < ProcessLeft
                      /\ Client => \/ ProcessLeft' = ProcessLeft
                                   \/ ~closed /\ \E r \in Requests : PublishSends(r)
    OBVIOUS
  <2>1. ProcessLeft \in 0..(5 * BufferSize + 2 * BatchSize + 4 * TickLimit + 18)
    BY HotPathAssumption, SystemAssumption DEF PartsInRange, ProcessLeft
  <2>2. ~Client /\ ~(Embedding /\ Embed!Poll) => ProcessLeft' < ProcessLeft
    BY ProcessGetsOn
  <2>3. Client => \/ ProcessLeft' = ProcessLeft
                  \/ ~closed /\ \E r \in Requests : PublishSends(r)
    BY ClientsDoNotDelay
  <2> QED  BY <2>1, <2>2, <2>3
<1> QED
  BY <1>1, HotPathInside, TypeCorrect, ShutdownInvariant, WorkerInvariant, PartsInvariant,
     PTL DEF SystemSpec, ShutdownIsBounded
=============================================================================
