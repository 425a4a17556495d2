------------------------------- MODULE System -------------------------------
(***************************************************************************)
(* The process as main puts it together: the hot path, the embedding       *)
(* worker that polls the store it fills, the anomaly worker and the        *)
(* sweeper of the limiter, and the shutdown that has to end all of them.   *)
(*                                                                         *)
(*   src/cmd/ingest/main.go   the context, the wait group and the order    *)
(*   of the shutdown; the parts are HotPath and EmbedWorker                *)
(*                                                                         *)
(* The hot path is extended, the embedding worker an instance over its     *)
(* store. Of the anomaly worker and the sweeper, which touch no state of   *)
(* the others, only whether they have returned is kept.                    *)
(***************************************************************************)
EXTENDS HotPath

CONSTANTS
  Contents,     \* what ContentHash tells apart
  ContentOf,    \* the content of each entry
  TickLimit     \* entries per tick of the embedding worker

ASSUME SystemAssumption ==
  /\ IsFiniteSet(Entries)
  /\ ContentOf \in [Entries -> Contents]
  /\ TickLimit \in Nat \ {0}

VARIABLES
  lastID, seen, vec, embedded, deduped,   \* as in EmbedWorker
  epc, emode, from, at, until,            \* its wpc and mode, and its locals
  ecut,                                   \* its cut
  apc,                                    \* the anomaly worker: "run", "done"
  spc                                     \* the sweeper: "run", "done"

index   == <<lastID, seen, vec, embedded, deduped>>
worker  == <<epc, emode, from, at, until>>
others  == <<apc, spc>>
allVars == <<vars, index, worker, ecut, others>>

\* The store as the embedding worker sees it.
StoredContents == [id \in DOMAIN store |-> ContentOf[store[id]]]

\* Nobody scrapes the metrics here. A step of WriteBatch adds one entry.
Embed == INSTANCE EmbedWorker WITH
  Batches    <- {<<c>> : c \in Contents},
  Limit      <- TickLimit,
  LagLimit   <- 0,
  MaxEntries <- Cardinality(Entries),
  store      <- StoredContents,
  wpc        <- epc,
  mode       <- emode,
  lpc        <- "idle",
  lfrom      <- 0,
  shown      <- 0,
  lag        <- 0,
  ctxDone    <- CtxDone,
  cut        <- ecut

SystemInit ==
  /\ Init
  /\ Embed!Init
  /\ apc = "run" /\ spc = "run"

-----------------------------------------------------------------------------
(* The hot path *)

Client ==
  /\ \E r \in Requests :
       \/ Arrive(r)
       \/ Refuse(r)
       \/ \E b \in Bodies : Decode(r, b)
       \/ Handle(r)
  /\ UNCHANGED <<index, worker, ecut, others>>

Writer == Write /\ UNCHANGED <<index, worker, ecut, others>>

-----------------------------------------------------------------------------
(* The other goroutines *)

\* The writer holds the store's mutex between two entries of a batch.
StoreLocked == wpc = "write" /\ batch # <<>>

Embedding ==
  /\ Running
  /\ epc = "since" => ~StoreLocked
  /\ UNCHANGED <<vars, ecut, others>>
  /\ Embed!Work

\* The anomaly worker returns between two ticks.
AnomalyReturns ==
  /\ Running
  /\ CtxDone
  /\ apc = "run"
  /\ apc' = "done"
  /\ UNCHANGED <<vars, index, worker, ecut, spc>>

\* main closes sweeperDone right after the buffer.
SweeperReturns ==
  /\ Running
  /\ closed
  /\ spc = "run"
  /\ spc' = "done"
  /\ UNCHANGED <<vars, index, worker, ecut, apc>>

-----------------------------------------------------------------------------
(* main *)

\* The context of all workers ends with the signal, or with the process.
Cancel ==
  /\ Signal \/ ServeFails
  /\ ecut' = IF CtxDone THEN ecut ELSE [head |-> Len(store), done |-> lastID]
  /\ UNCHANGED <<index, worker, others>>

\* wg.Wait waits for everything that was spawned.
AllReturned == epc = "done" /\ apc = "done" /\ spc = "done"

Shutdown ==
  /\ \/ BeginShutdown
     \/ ShutdownReturns
     \/ ShutdownExpires
     \/ Close
     \/ ExitClean /\ AllReturned
  /\ UNCHANGED <<index, worker, ecut, others>>

ForcedExit == ExitForced /\ UNCHANGED <<index, worker, ecut, others>>

SystemTerminated == ~Running /\ UNCHANGED allVars

SystemNext ==
  \/ Client
  \/ Writer
  \/ Embedding
  \/ AnomalyReturns
  \/ SweeperReturns
  \/ Cancel
  \/ Shutdown
  \/ ForcedExit
  \/ SystemTerminated

SystemSpec == SystemInit /\ [][SystemNext]_allVars

\* Every goroutine is scheduled and every ticker ticks; once the context is
\* cancelled the random choice of select does not prefer the ticker of the
\* embedding worker for ever. Nothing is assumed of clients, of whoever sends the
\* signal, or of the timer behind ForcedExit.
SystemFairness ==
  /\ ThreadFairness
  /\ WF_allVars(Embedding)
  /\ SF_allVars(Embedding /\ Embed!SeeDone)
  /\ WF_allVars(AnomalyReturns)
  /\ WF_allVars(SweeperReturns)
  /\ WF_allVars(Shutdown)

FairSystem == SystemSpec /\ SystemFairness

-----------------------------------------------------------------------------
(* Properties *)

Searchable(e) ==
  /\ \E id \in 1..Len(store) : store[id] = e
  /\ \E v \in vec : v.content = ContentOf[e]

\* Every entry put into the channel is eventually stored and searchable, unless
\* the process is told to stop: no batch, tick or checkpoint leaves one behind.
EventuallySearchable ==
  \A e \in Entries : (\E i \in 1..Len(sent) : sent[i] = e) ~> Searchable(e) \/ CtxDone

\* Once signalled, the process ends without the last timer of main: Shutdown
\* gives up on its deadline, and the writer, both workers and the sweeper return
\* on every path, whatever the writer still adds to the store.
ShutdownCompletes == mpc = "signalled" ~> ~Running

\* What EmbedWorker assumes of its surroundings is what the hot path does, at any
\* stage of the shutdown: the store only grows, at its end, and the context once
\* cancelled stays so. So whatever holds of EmbedWorker holds of the process; in
\* particular the last pass covers what was stored at the signal, up to one tick,
\* although the writer is still draining.
EmbedWorkerRefined == Embed!Spec

\* After a clean exit, what was in the store when the signal came is searchable, up
\* to one tick past the checkpoint: wg.Wait waits for the last pass, and that pass
\* reads a store the writer is still draining into.
ExitIsSearchable ==
  mpc = "exited" =>
    \A id \in 1..Embed!Least(ecut.head, ecut.done + TickLimit) :
      \E v \in vec : v.content = ContentOf[store[id]]

\* "Let the writer drain, workers exit" (cmd/ingest/main.go): a worker has
\* returned only if the writer has, so nothing is stored behind its back.
WorkersExitLast == epc = "done" \/ apc = "done" => wpc = "done"
=============================================================================
