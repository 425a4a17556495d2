------------------------------ MODULE HotPath ------------------------------
(***************************************************************************)
(* The ingest hot path: HTTP handlers publish log entries into a bounded   *)
(* channel, one batch writer moves them to the store, and main shuts both  *)
(* down on a signal.                                                       *)
(*                                                                         *)
(*   src/internal/ingest/handler.go   ServeHTTP, one process per request   *)
(*   src/internal/buffer/buffer.go    the channel and its two counters     *)
(*   src/internal/writer/writer.go    BatchWriter.Run, one process         *)
(*   src/internal/store/store.go      MemStore.WriteBatch                  *)
(*   src/cmd/ingest/main.go           signal, Shutdown, Close, wait, exit  *)
(*                                                                         *)
(* A step of the model is a run of code between two points where another   *)
(* goroutine can observe or disturb it: a channel operation, an atomic     *)
(* counter, a store append, a change of main's stage.                      *)
(***************************************************************************)
EXTENDS Integers, Sequences, FiniteSets

CONSTANTS
  Requests,       \* the POST requests clients send, each handled once
  Bodies,         \* bodies a client may send: per entry, does it pass Validate
  BufferSize,     \* capacity of the channel (config BufferSize)
  BatchSize,      \* entries that force a flush (config BatchSize)
  StoreMayFail    \* WriteBatch may return an error (MemStore never does)

ASSUME HotPathAssumption ==
  /\ Bodies \subseteq Seq(BOOLEAN)
  /\ BufferSize \in Nat \ {0}
  /\ BatchSize \in Nat \ {0}
  /\ StoreMayFail \in BOOLEAN

VARIABLES
  hpc,        \* where the handler of each request is, or how it answered
  body,       \* the decoded entries of each request
  next,       \* loop index of each handler
  nAccepted,  \* local counters of ServeHTTP
  nShed,
  ch,         \* contents of Buffer.ch, oldest first
  closed,     \* Buffer.Close was called
  accepted,   \* Buffer.accepted
  shed,       \* Buffer.shed
  wpc,        \* the writer: "select", "flush", "write" (in WriteBatch), "done"
  mode,       \* "run", "drain" (saw ctx.Done), "last" (final flush)
  batch,      \* the writer's batch
  store,      \* MemStore.entries; the ID of an entry is its index
  lost,       \* history: entries taken from the channel and then dropped
  mpc,        \* how far main has come
  forced,     \* srv.Shutdown gave up on handlers still running
  sent,       \* history: every entry sent on the channel, in order
  cut         \* history: Len(sent) when the signal cancelled the context

handler == <<hpc, body, next, nAccepted, nShed>>
buffer  == <<ch, closed, accepted, shed>>
writer  == <<wpc, mode, batch>>
disk    == <<store, lost>>
main    == <<mpc, forced>>
history == <<sent, cut>>
vars    == <<handler, buffer, writer, disk, main, history>>

Answers   == {"refused", "bad_request", "overloaded", "accepted", "aborted"}
InFlight  == {"reading", "loop", "sent", "shed"}
Entries   == [req : Requests, idx : UNION {DOMAIN b : b \in Bodies}, redacted : {TRUE}]

Running == mpc \notin {"exited", "killed"}
CtxDone == mpc # "serving"

\* Shutdown waits while some handler is running. Faulty: it does not wait.
BusyIgnored == FALSE
Busy == \E r \in Requests : hpc[r] \in InFlight

Init ==
  /\ hpc = [r \in Requests |-> "idle"]
  /\ body = [r \in Requests |-> <<>>]
  /\ next = [r \in Requests |-> 1]
  /\ nAccepted = [r \in Requests |-> 0]
  /\ nShed = [r \in Requests |-> 0]
  /\ ch = <<>> /\ closed = FALSE /\ accepted = 0 /\ shed = 0
  /\ wpc = "select" /\ mode = "run" /\ batch = <<>>
  /\ store = <<>> /\ lost = 0
  /\ mpc = "serving" /\ forced = FALSE
  /\ sent = <<>> /\ cut = 0

-----------------------------------------------------------------------------
(* The handler *)

\* net/http starts a handler. Once Shutdown has begun only connections accepted
\* before it can still deliver a request; Shutdown waits for those as well, so
\* none is left when it returns without an error.
Arrive(r) ==
  /\ mpc \in {"serving", "signalled", "shutdown"} \/ (Running /\ forced)
  /\ hpc[r] = "idle"
  /\ hpc' = [hpc EXCEPT ![r] = "reading"]
  /\ UNCHANGED <<body, next, nAccepted, nShed, buffer, writer, disk, main, history>>

\* Wrong method, no token, over the rate limit, or a body that does not decode.
Refuse(r) ==
  /\ Running
  /\ hpc[r] = "reading"
  /\ hpc' = [hpc EXCEPT ![r] = "refused"]
  /\ UNCHANGED <<body, next, nAccepted, nShed, buffer, writer, disk, main, history>>

Decode(r, b) ==
  /\ Running
  /\ hpc[r] = "reading"
  /\ hpc' = [hpc EXCEPT ![r] = "loop"]
  /\ body' = [body EXCEPT ![r] = b]
  /\ UNCHANGED <<next, nAccepted, nShed, buffer, writer, disk, main, history>>

AtEntry(r) == Running /\ hpc[r] = "loop" /\ next[r] <= Len(body[r])
AtEnd(r)   == Running /\ hpc[r] = "loop" /\ next[r] > Len(body[r])

\* Validate fails: the handler answers 400 wherever in the array it stands.
RejectInvalid(r) ==
  /\ AtEntry(r)
  /\ ~body[r][next[r]]
  /\ hpc' = [hpc EXCEPT ![r] = "bad_request"]
  /\ UNCHANGED <<body, next, nAccepted, nShed, buffer, writer, disk, main, history>>

\* The entry as decoded, and as the redactor returns it. Faulty: it forgets the
\* flag.
Decoded(r) == [req |-> r, idx |-> next[r], redacted |-> FALSE]
RedactForgets(e) == e
Redact(e) == [e EXCEPT !.redacted = TRUE]

Full == Len(ch) >= BufferSize

PublishSends(r) ==
  /\ AtEntry(r)
  /\ body[r][next[r]]
  /\ ~closed
  /\ ~Full
  /\ ch' = Append(ch, Redact(Decoded(r)))
  /\ sent' = Append(sent, Redact(Decoded(r)))
  /\ hpc' = [hpc EXCEPT ![r] = "sent"]
  /\ UNCHANGED <<body, next, nAccepted, nShed, closed, accepted, shed,
                 writer, disk, main, cut>>

\* The default branch of the select: the channel is full. Faulty: a plain send.
PublishBlocks(r) == FALSE
PublishFull(r) ==
  /\ AtEntry(r)
  /\ body[r][next[r]]
  /\ ~closed
  /\ Full
  /\ hpc' = [hpc EXCEPT ![r] = "shed"]
  /\ UNCHANGED <<body, next, nAccepted, nShed, buffer, writer, disk, main, history>>

\* A send on a closed channel panics, full or not; net/http recovers the panic
\* and drops the connection.
PublishPanics(r) ==
  /\ AtEntry(r)
  /\ body[r][next[r]]
  /\ closed
  /\ hpc' = [hpc EXCEPT ![r] = "aborted"]
  /\ UNCHANGED <<body, next, nAccepted, nShed, buffer, writer, disk, main, history>>

\* The counters move after the channel operation, in a step of their own.
\* Faulty: the atomic counter is forgotten.
CountLocally(r) ==
  /\ Running
  /\ hpc[r] = "sent"
  /\ nAccepted' = [nAccepted EXCEPT ![r] = @ + 1]
  /\ next' = [next EXCEPT ![r] = @ + 1]
  /\ hpc' = [hpc EXCEPT ![r] = "loop"]
  /\ UNCHANGED <<body, nShed, buffer, writer, disk, main, history>>
CountAccepted(r) ==
  /\ Running
  /\ hpc[r] = "sent"
  /\ accepted' = accepted + 1
  /\ nAccepted' = [nAccepted EXCEPT ![r] = @ + 1]
  /\ next' = [next EXCEPT ![r] = @ + 1]
  /\ hpc' = [hpc EXCEPT ![r] = "loop"]
  /\ UNCHANGED <<body, nShed, ch, closed, shed, writer, disk, main, history>>

CountShed(r) ==
  /\ Running
  /\ hpc[r] = "shed"
  /\ shed' = shed + 1
  /\ nShed' = [nShed EXCEPT ![r] = @ + 1]
  /\ next' = [next EXCEPT ![r] = @ + 1]
  /\ hpc' = [hpc EXCEPT ![r] = "loop"]
  /\ UNCHANGED <<body, nAccepted, ch, closed, accepted, writer, disk, main, history>>

\* 503 when every entry was shed, 202 otherwise (an empty array included).
\* Faulty: 503 as soon as one was.
AnswerAnyShed(r) == IF nShed[r] > 0 THEN "overloaded" ELSE "accepted"
Answer(r) == IF nAccepted[r] = 0 /\ nShed[r] > 0 THEN "overloaded" ELSE "accepted"

Reply(r) ==
  /\ AtEnd(r)
  /\ hpc' = [hpc EXCEPT ![r] = Answer(r)]
  /\ UNCHANGED <<body, next, nAccepted, nShed, buffer, writer, disk, main, history>>

Handle(r) ==
  \/ RejectInvalid(r)
  \/ PublishSends(r)
  \/ PublishFull(r)
  \/ PublishPanics(r)
  \/ CountAccepted(r)
  \/ CountShed(r)
  \/ Reply(r)

-----------------------------------------------------------------------------
(* The batch writer. Its two selects differ only in the branches beside the  *)
(* receive, so mode says which one it is in.                                 *)

\* appendGuarded drops an entry that was never redacted. Faulty: the batch is
\* replaced; the batch is built back to front.
KeepLast(b, e) == IF e.redacted THEN <<e>> ELSE b
PutFirst(b, e) == IF e.redacted THEN <<e>> \o b ELSE b
AppendGuarded(b, e) == IF e.redacted THEN Append(b, e) ELSE b

\* Faulty: off by one.
BatchOverfull(b) == Len(b) > BatchSize
BatchFull(b) == Len(b) >= BatchSize

Receive ==
  /\ Running
  /\ wpc = "select"
  /\ ch # <<>>
  /\ ch' = Tail(ch)
  /\ batch' = AppendGuarded(batch, Head(ch))
  /\ lost' = IF Head(ch).redacted THEN lost ELSE lost + 1
  /\ wpc' = IF BatchFull(batch') THEN "flush" ELSE "select"
  /\ UNCHANGED <<handler, closed, accepted, shed, mode, store, main, history>>

\* The ticker branch; a flush of an empty batch returns at once. Faulty: a batch
\* is flushed on its size only.
NoTicker == FALSE
Tick ==
  /\ Running
  /\ wpc = "select"
  /\ mode = "run"
  /\ batch # <<>>
  /\ wpc' = "flush"
  /\ UNCHANGED <<handler, buffer, mode, batch, disk, main, history>>

\* The ctx.Done branch. Faulty: flush and leave, without draining.
LeaveAtDone ==
  /\ Running
  /\ wpc = "select"
  /\ mode = "run"
  /\ CtxDone
  /\ mode' = "last"
  /\ wpc' = "flush"
  /\ UNCHANGED <<handler, buffer, batch, disk, main, history>>

SeeDone ==
  /\ Running
  /\ wpc = "select"
  /\ mode = "run"
  /\ CtxDone
  /\ mode' = "drain"
  /\ UNCHANGED <<handler, buffer, wpc, batch, disk, main, history>>

\* The default branch of the drain loop: nothing is queued right now.
DrainEmpty ==
  /\ Running
  /\ wpc = "select"
  /\ mode = "drain"
  /\ ch = <<>>
  /\ ~closed
  /\ mode' = "last"
  /\ wpc' = "flush"
  /\ UNCHANGED <<handler, buffer, batch, disk, main, history>>

\* A receive from the closed and empty channel, in either select.
SeeClosed ==
  /\ Running
  /\ wpc = "select"
  /\ ch = <<>>
  /\ closed
  /\ mode' = "last"
  /\ wpc' = "flush"
  /\ UNCHANGED <<handler, buffer, batch, disk, main, history>>

\* One iteration of the loop in WriteBatch, which skips what is not redacted.
\* Faulty: the newest entry comes first.
WriteNewestFirst ==
  /\ Running
  /\ wpc \in {"flush", "write"}
  /\ batch # <<>>
  /\ wpc' = "write"
  /\ store' = <<Head(batch)>> \o store
  /\ batch' = Tail(batch)
  /\ UNCHANGED <<handler, buffer, mode, lost, main, history>>
WriteEntry ==
  /\ Running
  /\ wpc \in {"flush", "write"}
  /\ batch # <<>>
  /\ wpc' = "write"
  /\ store' = IF Head(batch).redacted THEN Append(store, Head(batch)) ELSE store
  /\ lost' = IF Head(batch).redacted THEN lost ELSE lost + 1
  /\ batch' = Tail(batch)
  /\ UNCHANGED <<handler, buffer, mode, main, history>>

\* Where flush returns to.
AfterFlush == IF mode = "last" THEN "done" ELSE "select"

EndFlush ==
  /\ Running
  /\ wpc \in {"flush", "write"}
  /\ batch = <<>>
  /\ wpc' = AfterFlush
  /\ UNCHANGED <<handler, buffer, mode, batch, disk, main, history>>

\* The store returns an error: the batch is logged and dropped.
FlushFails ==
  /\ Running
  /\ StoreMayFail
  /\ wpc = "flush"
  /\ batch # <<>>
  /\ lost' = lost + Len(batch)
  /\ batch' = <<>>
  /\ UNCHANGED <<handler, buffer, wpc, mode, store, main, history>>

Write ==
  \/ Receive
  \/ Tick
  \/ SeeDone
  \/ DrainEmpty
  \/ SeeClosed
  \/ WriteEntry
  \/ EndFlush
  \/ FlushFails

-----------------------------------------------------------------------------
(* main *)

\* SIGINT or SIGTERM cancels the context that the writer watches.
Signal ==
  /\ mpc = "serving"
  /\ mpc' = "signalled"
  /\ cut' = Len(sent)
  /\ UNCHANGED <<handler, buffer, writer, disk, forced, sent>>

\* ListenAndServe returns an error: log.Fatalf ends the process.
ServeFails ==
  /\ mpc \in {"serving", "signalled"}
  /\ mpc' = "killed"
  /\ UNCHANGED <<handler, buffer, writer, disk, forced, history>>

BeginShutdown ==
  /\ mpc = "signalled"
  /\ mpc' = "shutdown"
  /\ UNCHANGED <<handler, buffer, writer, disk, forced, history>>

ShutdownReturns ==
  /\ mpc = "shutdown"
  /\ ~Busy
  /\ mpc' = "close"
  /\ UNCHANGED <<handler, buffer, writer, disk, forced, history>>

\* The deadline of Shutdown passes; the error is logged and ignored.
ShutdownExpires ==
  /\ mpc = "shutdown"
  /\ mpc' = "close"
  /\ forced' = TRUE
  /\ UNCHANGED <<handler, buffer, writer, disk, history>>

Close ==
  /\ mpc = "close"
  /\ mpc' = "waiting"
  /\ closed' = TRUE
  /\ UNCHANGED <<handler, ch, accepted, shed, writer, disk, forced, history>>

\* wg.Wait returns: the writer, among the goroutines, has ended.
ExitClean ==
  /\ mpc = "waiting"
  /\ wpc = "done"
  /\ mpc' = "exited"
  /\ UNCHANGED <<handler, buffer, writer, disk, forced, history>>

ExitForced ==
  /\ mpc = "waiting"
  /\ mpc' = "killed"
  /\ UNCHANGED <<handler, buffer, writer, disk, forced, history>>

Stop ==
  \/ BeginShutdown
  \/ ShutdownReturns
  \/ ShutdownExpires
  \/ Close
  \/ ExitClean

\* The process is gone.
Terminated == ~Running /\ UNCHANGED vars

Next ==
  \/ \E r \in Requests :
       \/ Arrive(r)
       \/ Refuse(r)
       \/ \E b \in Bodies : Decode(r, b)
       \/ Handle(r)
  \/ Write
  \/ Signal
  \/ ServeFails
  \/ Stop
  \/ ExitForced
  \/ Terminated

Spec == Init /\ [][Next]_vars

\* The scheduler runs every handler and the writer when they can take a step, and
\* the ticker ticks. Clients need not send anything. What is fair in main, which
\* waits for other goroutines as well, is said in System.
ThreadFairness ==
  /\ \A r \in Requests : WF_vars(Handle(r))
  /\ WF_vars(Receive)
  /\ WF_vars(Tick)
  /\ WF_vars(SeeDone)
  /\ WF_vars(DrainEmpty \/ SeeClosed)
  /\ WF_vars(WriteEntry \/ EndFlush)

-----------------------------------------------------------------------------
(* Properties *)

TypeOK ==
  /\ hpc \in [Requests -> Answers \cup InFlight \cup {"idle"}]
  /\ body \in [Requests -> Bodies \cup {<<>>}]
  /\ next \in [Requests -> Nat \ {0}]
  /\ nAccepted \in [Requests -> Nat]
  /\ nShed \in [Requests -> Nat]
  /\ ch \in Seq(Entries) /\ closed \in BOOLEAN
  /\ accepted \in Nat /\ shed \in Nat
  /\ wpc \in {"select", "flush", "write", "done"}
  /\ mode \in {"run", "drain", "last"}
  /\ batch \in Seq(Entries)
  /\ store \in Seq(Entries) /\ lost \in Nat
  /\ mpc \in {"serving", "signalled", "shutdown", "close", "waiting", "exited", "killed"}
  /\ forced \in BOOLEAN
  /\ sent \in Seq(Entries) /\ cut \in Nat

Published(r) == {i \in 1..Len(sent) : sent[i].req = r}

\* Every entry that was sent on the channel is in exactly one place: the store,
\* the writer's batch, the channel, or among the dropped; and as long as nothing
\* was dropped, the three laid end to end are what was sent, in order. Only a
\* failing store makes the writer drop anything: the two guards against entries
\* that were not redacted (appendGuarded, WriteBatch) never fire.
Conservation ==
  /\ Len(store) + lost + Len(batch) + Len(ch) = Len(sent)
  /\ lost = 0 => store \o batch \o ch = sent
  /\ ~StoreMayFail => lost = 0

\* After a clean exit every entry sent before the signal has reached WriteBatch:
\* the drain of BatchWriter.Run leaves none of them in the channel or the batch.
DrainGuarantee == mpc = "exited" => Len(store) + lost >= cut

\* A request is cut off by the send on a closed channel only after Shutdown gave
\* up waiting for it; Close never overtakes a handler otherwise.
AbortOnlyAfterForcedClose ==
  \A r \in Requests :
    hpc[r] = "aborted" \/ (closed /\ hpc[r] \in InFlight) => forced

\* A 503 may be retried without duplicating anything: no entry of that request
\* was published. A 202 reports exactly what was published and what was shed.
ReplyIsHonest ==
  \A r \in Requests :
    /\ hpc[r] = "overloaded" => Published(r) = {} /\ nShed[r] = Len(body[r])
    /\ hpc[r] = "accepted" => /\ nAccepted[r] = Cardinality(Published(r))
                              /\ nAccepted[r] + nShed[r] = Len(body[r])

\* Whatever handlers and flushes interleave, entries of one request are stored
\* at most once and in the order of the array they came in.
OncePerEntryInOrder ==
  \A i, j \in 1..Len(store) :
    i < j /\ store[i].req = store[j].req => store[i].idx < store[j].idx

\* A handler past decoding never waits for the writer or for main: it can take a
\* step whatever the channel and they are doing ("Rather than blocking
\* indefinitely", buffer.go).
NeverBlocks ==
  \A r \in Requests :
    Running /\ hpc[r] \in {"loop", "sent", "shed"} => ENABLED Handle(r)

\* What is sent and not yet written never exceeds the channel plus one batch,
\* however many clients publish: the writer flushes before it receives more.
BoundedBacklog ==
  /\ Len(sent) - Len(store) - lost <= BufferSize + BatchSize
  /\ wpc = "select" => Len(batch) < BatchSize

\* Buffer.accepted lags behind the channel by the handlers between their send
\* and their Add, and by nothing else: when no handler is there, the metric is
\* the number of entries sent.
CounterLag ==
  accepted + Cardinality({r \in Requests : hpc[r] = "sent"}) = Len(sent)

\* What the hot path promises, with the threads and the channel hidden.
Contract ==
  INSTANCE IngestContract
    WITH Entry    <- Entries,
         accepted <- sent,
         durable  <- store,
         mark     <- cut,
         phase    <- IF mpc = "serving" THEN "up"
                     ELSE IF mpc = "exited" THEN "down"
                     ELSE IF mpc = "killed" THEN "killed"
                     ELSE "stopping"

\* With a store that does not fail, the hot path implements IngestContract.
ContractRefined == Contract!Spec

\* "Nothing sitting in the buffer is lost" (cmd/ingest/main.go): when Shutdown has
\* waited for every handler and the exit is clean, the channel is empty and
\* everything sent has been written.
NothingInBufferLost ==
  mpc = "exited" /\ ~forced => ch = <<>> /\ Len(store) + lost = Len(sent)

\* "Decode and validate - reject malformed input early", before anything is
\* published (ingest/handler.go): a request answered 400 left nothing behind.
RejectedStoresNothing ==
  \A r \in Requests : hpc[r] = "bad_request" => Published(r) = {}
=============================================================================
