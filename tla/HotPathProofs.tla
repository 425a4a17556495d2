--------------------------- MODULE HotPathProofs ---------------------------
(***************************************************************************)
(* Proofs about HotPath, for every set of requests, every set of bodies    *)
(* and every capacity and batch size.                                      *)
(***************************************************************************)
EXTENDS HotPath, FiniteSetTheorems, TLAPS

-----------------------------------------------------------------------------
(* Types *)

\* What a handler publishes is a redacted entry of one of the bodies.
LEMMA PublishedIsEntry ==
  ASSUME TypeOK, NEW r \in Requests, AtEntry(r)
  PROVE  Redact(Decoded(r)) \in Entries
<1>1. body[r] \in Bodies /\ body[r] \in Seq(BOOLEAN)
  BY HotPathAssumption DEF TypeOK, AtEntry
<1>2. next[r] \in DOMAIN body[r]
  BY <1>1 DEF TypeOK, AtEntry
<1>3. Decoded(r) \in [req : Requests, idx : UNION {DOMAIN b : b \in Bodies},
                       redacted : BOOLEAN]
  BY <1>1, <1>2 DEF Decoded
<1> QED  BY <1>3 DEF Redact, Entries

\* Every variable keeps its type in every reachable state: entries in the
\* channel, the batch and the store are entries of some request, redacted.
THEOREM TypeCorrect == Spec => []TypeOK
<1>1. Init => TypeOK
  <2> SUFFICES ASSUME Init
               PROVE  TypeOK
    OBVIOUS
  <2>1. <<>> \in Seq(Entries) /\ 1 \in Nat \ {0}
    OBVIOUS
  <2> QED  BY <2>1 DEF Init, TypeOK, Answers, InFlight
<1>2. TypeOK /\ [Next]_vars => TypeOK'
  <2> SUFFICES ASSUME TypeOK, [Next]_vars
               PROVE  TypeOK'
    OBVIOUS
  <2> USE DEF handler, buffer, writer, disk, main, history, Answers, InFlight
  <2>1. ASSUME NEW r \in Requests, Arrive(r)
        PROVE  TypeOK'
    BY <2>1 DEF Arrive, TypeOK
  <2>2. ASSUME NEW r \in Requests, Refuse(r)
        PROVE  TypeOK'
    BY <2>2 DEF Refuse, TypeOK
  <2>3. ASSUME NEW r \in Requests, NEW b \in Bodies, Decode(r, b)
        PROVE  TypeOK'
    BY <2>3 DEF Decode, TypeOK
  <2>4. ASSUME NEW r \in Requests, RejectInvalid(r)
        PROVE  TypeOK'
    BY <2>4 DEF RejectInvalid, TypeOK
  <2>5. ASSUME NEW r \in Requests, PublishSends(r)
        PROVE  TypeOK'
    <3>1. Redact(Decoded(r)) \in Entries
      BY <2>5, PublishedIsEntry DEF PublishSends
    <3> QED  BY <2>5, <3>1 DEF PublishSends, TypeOK
  <2>6. ASSUME NEW r \in Requests, PublishFull(r)
        PROVE  TypeOK'
    BY <2>6 DEF PublishFull, TypeOK
  <2>7. ASSUME NEW r \in Requests, PublishPanics(r)
        PROVE  TypeOK'
    BY <2>7 DEF PublishPanics, TypeOK
  <2>8. ASSUME NEW r \in Requests, CountAccepted(r)
        PROVE  TypeOK'
    BY <2>8 DEF CountAccepted, TypeOK
  <2>9. ASSUME NEW r \in Requests, CountShed(r)
        PROVE  TypeOK'
    BY <2>9 DEF CountShed, TypeOK
  <2>10. ASSUME NEW r \in Requests, Reply(r)
         PROVE  TypeOK'
    BY <2>10 DEF Reply, Answer, TypeOK
  <2>11. CASE Receive
    <3>1. Head(ch) \in Entries /\ Tail(ch) \in Seq(Entries)
      BY <2>11 DEF Receive, TypeOK
    <3>2. batch' \in Seq(Entries) /\ lost' \in Nat
      BY <2>11, <3>1 DEF Receive, AppendGuarded, TypeOK
    <3> QED  BY <2>11, <3>1, <3>2 DEF Receive, TypeOK
  <2>12. CASE Tick
    BY <2>12 DEF Tick, TypeOK
  <2>13. CASE SeeDone
    BY <2>13 DEF SeeDone, TypeOK
  <2>14. CASE DrainEmpty
    BY <2>14 DEF DrainEmpty, TypeOK
  <2>15. CASE SeeClosed
    BY <2>15 DEF SeeClosed, TypeOK
  <2>16. CASE WriteEntry
    <3>1. Head(batch) \in Entries /\ Tail(batch) \in Seq(Entries)
      BY <2>16 DEF WriteEntry, TypeOK
    <3>2. store' \in Seq(Entries) /\ lost' \in Nat
      BY <2>16, <3>1 DEF WriteEntry, TypeOK
    <3> QED  BY <2>16, <3>1, <3>2 DEF WriteEntry, TypeOK
  <2>17. CASE EndFlush
    BY <2>17 DEF EndFlush, AfterFlush, TypeOK
  <2>18. CASE FlushFails
    BY <2>18 DEF FlushFails, TypeOK
  <2>19. CASE Signal
    BY <2>19 DEF Signal, TypeOK
  <2>20. CASE ServeFails
    BY <2>20 DEF ServeFails, TypeOK
  <2>21. CASE Stop
    BY <2>21 DEF Stop, BeginShutdown, ShutdownReturns, ShutdownExpires, Close,
                 ExitClean, TypeOK
  <2>22. CASE ExitForced
    BY <2>22 DEF ExitForced, TypeOK
  <2>23. CASE UNCHANGED vars
    BY <2>23 DEF vars, TypeOK
  <2> QED
    BY <2>1, <2>2, <2>3, <2>4, <2>5, <2>6, <2>7, <2>8, <2>9, <2>10, <2>11,
       <2>12, <2>13, <2>14, <2>15, <2>16, <2>17, <2>18, <2>19, <2>20, <2>21,
       <2>22, <2>23 DEF Next, Handle, Write, Terminated
<1> QED  BY <1>1, <1>2, PTL DEF Spec

-----------------------------------------------------------------------------
(* The protocol of shutdown *)

\* How far main and the writer can be apart, and who may still be running.
ShutdownInv ==
  /\ mpc = "serving" => mode = "run" /\ cut = 0
  /\ closed => mpc \in {"waiting", "exited", "killed"}
  /\ forced => mpc \in {"close", "waiting", "exited", "killed"}
  /\ mode = "last" => wpc # "select"
  /\ wpc = "done" => mode = "last" /\ batch = <<>>
  /\ mpc = "exited" => wpc = "done"
  /\ \A r \in Requests :
       /\ hpc[r] = "aborted" => forced
       /\ hpc[r] \in InFlight /\ (closed \/ mpc \in {"close", "waiting", "exited"})
            => forced

LEMMA ShutdownInvariant == Spec => []ShutdownInv
<1>1. Init => ShutdownInv
  BY DEF Init, ShutdownInv, InFlight
<1>2. TypeOK /\ ShutdownInv /\ [Next]_vars => ShutdownInv'
  <2> SUFFICES ASSUME TypeOK, ShutdownInv, [Next]_vars
               PROVE  ShutdownInv'
    OBVIOUS
  <2> USE DEF handler, buffer, writer, disk, main, history, InFlight
  <2>1. ASSUME NEW r \in Requests, Arrive(r)
        PROVE  ShutdownInv'
    BY <2>1 DEF Arrive, Running, ShutdownInv, TypeOK
  <2>2. ASSUME NEW r \in Requests, Refuse(r)
        PROVE  ShutdownInv'
    BY <2>2 DEF Refuse, ShutdownInv, TypeOK
  <2>3. ASSUME NEW r \in Requests, NEW b \in Bodies, Decode(r, b)
        PROVE  ShutdownInv'
    BY <2>3 DEF Decode, ShutdownInv, TypeOK
  <2>4. ASSUME NEW r \in Requests, RejectInvalid(r)
        PROVE  ShutdownInv'
    BY <2>4 DEF RejectInvalid, AtEntry, ShutdownInv, TypeOK
  <2>5. ASSUME NEW r \in Requests, PublishSends(r)
        PROVE  ShutdownInv'
    BY <2>5 DEF PublishSends, AtEntry, ShutdownInv, TypeOK
  <2>6. ASSUME NEW r \in Requests, PublishFull(r)
        PROVE  ShutdownInv'
    BY <2>6 DEF PublishFull, AtEntry, ShutdownInv, TypeOK
  <2>7. ASSUME NEW r \in Requests, PublishPanics(r)
        PROVE  ShutdownInv'
    <3>1. forced
      BY <2>7 DEF PublishPanics, AtEntry, ShutdownInv
    <3> QED  BY <2>7, <3>1 DEF PublishPanics, ShutdownInv, TypeOK
  <2>8. ASSUME NEW r \in Requests, CountAccepted(r)
        PROVE  ShutdownInv'
    BY <2>8 DEF CountAccepted, ShutdownInv, TypeOK
  <2>9. ASSUME NEW r \in Requests, CountShed(r)
        PROVE  ShutdownInv'
    BY <2>9 DEF CountShed, ShutdownInv, TypeOK
  <2>10. ASSUME NEW r \in Requests, Reply(r)
         PROVE  ShutdownInv'
    BY <2>10 DEF Reply, Answer, AtEnd, ShutdownInv, TypeOK
  <2>11. CASE Receive
    BY <2>11 DEF Receive, ShutdownInv
  <2>12. CASE Tick
    BY <2>12 DEF Tick, ShutdownInv
  <2>13. CASE SeeDone
    BY <2>13 DEF SeeDone, CtxDone, ShutdownInv
  <2>14. CASE DrainEmpty
    BY <2>14 DEF DrainEmpty, ShutdownInv
  <2>15. CASE SeeClosed
    BY <2>15 DEF SeeClosed, ShutdownInv
  <2>16. CASE WriteEntry
    BY <2>16 DEF WriteEntry, ShutdownInv
  <2>17. CASE EndFlush
    BY <2>17 DEF EndFlush, AfterFlush, Running, ShutdownInv
  <2>18. CASE FlushFails
    BY <2>18 DEF FlushFails, ShutdownInv
  <2>19. CASE Signal
    BY <2>19 DEF Signal, ShutdownInv
  <2>20. CASE ServeFails
    BY <2>20 DEF ServeFails, ShutdownInv
  <2>21. CASE BeginShutdown
    BY <2>21 DEF BeginShutdown, ShutdownInv
  <2>22. CASE ShutdownReturns
    BY <2>22 DEF ShutdownReturns, Busy, ShutdownInv
  <2>23. CASE ShutdownExpires
    BY <2>23 DEF ShutdownExpires, ShutdownInv
  <2>24. CASE Close
    BY <2>24 DEF Close, ShutdownInv
  <2>25. CASE ExitClean
    BY <2>25 DEF ExitClean, ShutdownInv
  <2>26. CASE ExitForced
    BY <2>26 DEF ExitForced, ShutdownInv
  <2>27. CASE UNCHANGED vars
    BY <2>27 DEF vars, ShutdownInv
  <2> QED
    BY <2>1, <2>2, <2>3, <2>4, <2>5, <2>6, <2>7, <2>8, <2>9, <2>10, <2>11,
       <2>12, <2>13, <2>14, <2>15, <2>16, <2>17, <2>18, <2>19, <2>20, <2>21,
       <2>22, <2>23, <2>24, <2>25, <2>26, <2>27
       DEF Next, Handle, Write, Stop, Terminated
<1> QED  BY <1>1, <1>2, TypeCorrect, PTL DEF Spec

\* A handler is cut off by a closed channel only after Shutdown has given up on
\* it: buf.Close() in main never overtakes a handler that Shutdown waited for.
THEOREM AbortsNeedExpiry == Spec => []AbortOnlyAfterForcedClose
<1>1. ShutdownInv => AbortOnlyAfterForcedClose
  BY DEF ShutdownInv, AbortOnlyAfterForcedClose
<1> QED  BY <1>1, ShutdownInvariant, PTL

-----------------------------------------------------------------------------
(* Where every entry is *)

\* The entries of the store, the batch and the channel, position by position:
\* the form of Conservation that a step changes in one place only.
Aligned ==
  /\ \A i \in 1..Len(store) : store[i] = sent[i]
  /\ \A i \in 1..Len(batch) : batch[i] = sent[Len(store) + i]
  /\ \A i \in 1..Len(ch)    : ch[i] = sent[Len(store) + Len(batch) + i]

QueueInv ==
  /\ Len(store) + lost + Len(batch) + Len(ch) = Len(sent)
  /\ lost = 0 => Aligned
  /\ ~StoreMayFail => lost = 0
  /\ cut <= Len(sent)
  /\ mode = "last" => cut <= Len(store) + lost + Len(batch)

\* Two sequences that agree in length and at every position are equal.
LEMMA SameSeq ==
  ASSUME NEW S, NEW s \in Seq(S), NEW t \in Seq(S), Len(s) = Len(t),
         \A i \in 1..Len(s) : s[i] = t[i]
  PROVE  s = t
  OBVIOUS

\* Everything past the redactor carries the flag, so no entry is dropped for it.
LEMMA AllRedacted ==
  ASSUME TypeOK
  PROVE  /\ ch # <<>> => Head(ch) \in Entries /\ Head(ch).redacted
         /\ batch # <<>> => Head(batch) \in Entries /\ Head(batch).redacted
<1>1. /\ ch # <<>> => Head(ch) \in Entries
      /\ batch # <<>> => Head(batch) \in Entries
  BY DEF TypeOK
<1>2. \A e \in Entries : e.redacted = TRUE
  BY DEF Entries
<1> QED  BY <1>1, <1>2

\* What Append leaves alone and what it adds.
LEMMA AppendAt ==
  ASSUME NEW S, NEW s \in Seq(S), NEW e \in S
  PROVE  /\ Len(Append(s, e)) = Len(s) + 1
         /\ \A i \in 1..Len(s) : Append(s, e)[i] = s[i]
         /\ Append(s, e)[Len(s) + 1] = e
  OBVIOUS

LEMMA QueueInvariant == Spec => []QueueInv
<1>1. Init => QueueInv
  BY DEF Init, QueueInv, Aligned
<1>2. TypeOK /\ ShutdownInv /\ QueueInv /\ [Next]_vars => QueueInv'
  <2> SUFFICES ASSUME TypeOK, ShutdownInv, QueueInv, [Next]_vars
               PROVE  QueueInv'
    OBVIOUS
  <2> USE DEF handler, buffer, writer, disk, main, history
  <2>1. ASSUME NEW r \in Requests, PublishSends(r)
        PROVE  QueueInv'
    <3>1. Redact(Decoded(r)) \in Entries
      BY <2>1, PublishedIsEntry DEF PublishSends
    <3> DEFINE e == Redact(Decoded(r))
    <3>2. /\ ch' = Append(ch, e) /\ sent' = Append(sent, e)
          /\ UNCHANGED <<store, lost, batch, mode, cut>>
      BY <2>1 DEF PublishSends
    <3> HIDE DEF e
    <3>3. Len(store') + lost' + Len(batch') + Len(ch') = Len(sent')
      BY <3>1, <3>2 DEF e, QueueInv, TypeOK
    <3>4. lost' = 0 => Aligned'
      <4> SUFFICES ASSUME lost = 0
                   PROVE  Aligned'
        BY <3>2
      <4>1. Len(store) + Len(batch) + Len(ch) = Len(sent) /\ Aligned
        BY DEF QueueInv, TypeOK
      <4>2. /\ \A i \in 1..Len(sent) : sent'[i] = sent[i]
            /\ sent'[Len(sent) + 1] = e
            /\ Len(ch') = Len(ch) + 1
            /\ \A i \in 1..Len(ch) : ch'[i] = ch[i]
            /\ ch'[Len(ch) + 1] = e
        BY <3>1, <3>2, AppendAt DEF e, TypeOK
      <4>3. Len(store) \in Nat /\ Len(batch) \in Nat /\ Len(ch) \in Nat
        BY DEF TypeOK
      <4>4. \A i \in 1..Len(store) : store[i] = sent'[i]
        BY <4>1, <4>2, <4>3 DEF Aligned
      <4>5. \A i \in 1..Len(batch) : batch[i] = sent'[Len(store) + i]
        <5> SUFFICES ASSUME NEW i \in 1..Len(batch)
                     PROVE  batch[i] = sent'[Len(store) + i]
          OBVIOUS
        <5>1. Len(store) + i \in 1..Len(sent)
          BY <4>1, <4>3
        <5> QED  BY <4>1, <4>2, <5>1 DEF Aligned
      <4>6. \A i \in 1..Len(ch') : ch'[i] = sent'[Len(store) + Len(batch) + i]
        <5> SUFFICES ASSUME NEW i \in 1..Len(ch')
                     PROVE  ch'[i] = sent'[Len(store) + Len(batch) + i]
          OBVIOUS
        <5>1. CASE i = Len(ch) + 1
          <6>1. Len(store) + Len(batch) + i = Len(sent) + 1
            BY <4>1, <4>3, <5>1
          <6> QED  BY <4>2, <5>1, <6>1
        <5>2. CASE i \in 1..Len(ch)
          <6>1. Len(store) + Len(batch) + i \in 1..Len(sent)
            BY <4>1, <4>3, <5>2
          <6> QED  BY <4>1, <4>2, <5>2, <6>1 DEF Aligned
        <5> QED  BY <5>1, <5>2, <4>2, <4>3
      <4> QED  BY <3>2, <4>4, <4>5, <4>6 DEF Aligned
    <3> QED  BY <3>2, <3>3, <3>4, <3>1 DEF e, QueueInv, TypeOK
  <2>2. CASE Receive
    <3> DEFINE e == Head(ch)
    <3>1. e \in Entries /\ ch # <<>> /\ Len(ch) > 0
      BY <2>2, AllRedacted DEF Receive, TypeOK
    <3>2. /\ ch' = Tail(ch) /\ batch' = Append(batch, e)
          /\ UNCHANGED <<store, sent, lost, mode, cut>>
      BY <2>2, AllRedacted DEF Receive, AppendGuarded
    <3>3. Len(ch') = Len(ch) - 1 /\ Len(batch') = Len(batch) + 1
      BY <3>1, <3>2 DEF TypeOK
    <3>4. mode # "last"
      BY <2>2 DEF Receive, ShutdownInv
    <3>5. lost' = 0 => Aligned'
      <4> SUFFICES ASSUME lost = 0
                   PROVE  Aligned'
        BY <3>2
      <4>1. Aligned
        BY DEF QueueInv
      <4>2. \A i \in 1..Len(batch') : batch'[i] = sent[Len(store) + i]
        <5>1. /\ \A i \in 1..Len(batch) : batch'[i] = batch[i]
              /\ batch'[Len(batch) + 1] = e
          BY <3>1, <3>2, AppendAt DEF TypeOK
        <5>2. e = ch[1] /\ 1 \in 1..Len(ch)
          BY <3>1 DEF TypeOK
        <5>3. e = sent[Len(store) + Len(batch) + 1]
          BY <4>1, <5>2 DEF Aligned
        <5>4. Len(store) + Len(batch) + 1 = Len(store) + (Len(batch) + 1)
          BY DEF TypeOK
        <5>5. Len(batch) \in Nat
          BY DEF TypeOK
        <5> HIDE DEF e
        <5> SUFFICES ASSUME NEW i \in 1..Len(batch')
                     PROVE  batch'[i] = sent[Len(store) + i]
          OBVIOUS
        <5>6. CASE i \in 1..Len(batch)
          BY <4>1, <5>1, <5>6 DEF Aligned
        <5>7. CASE i = Len(batch) + 1
          BY <5>1, <5>3, <5>4, <5>7
        <5> QED  BY <3>3, <5>5, <5>6, <5>7
      <4>3. \A i \in 1..Len(ch') : ch'[i] = sent[Len(store) + Len(batch') + i]
        <5> SUFFICES ASSUME NEW i \in 1..Len(ch')
                     PROVE  ch'[i] = sent[Len(store) + Len(batch') + i]
          OBVIOUS
        <5>1. ch'[i] = ch[i + 1] /\ i + 1 \in 1..Len(ch)
          BY <3>1, <3>2, <3>3 DEF TypeOK
        <5>2. ch[i + 1] = sent[Len(store) + Len(batch) + (i + 1)]
          BY <4>1, <5>1 DEF Aligned
        <5>3. Len(store) + Len(batch) + (i + 1) = Len(store) + Len(batch') + i
          BY <3>3 DEF TypeOK
        <5> QED  BY <5>1, <5>2, <5>3
      <4> QED  BY <3>2, <4>1, <4>2, <4>3 DEF Aligned
    <3> HIDE DEF e
    <3>6. Len(store') + lost' + Len(batch') + Len(ch') = Len(sent')
      <4>1. UNCHANGED <<store, sent, lost>>
        BY <3>2
      <4>2. /\ Len(store) \in Nat /\ Len(batch) \in Nat /\ Len(ch) \in Nat
            /\ lost \in Nat
        BY DEF TypeOK
      <4> QED  BY <3>3, <4>1, <4>2 DEF QueueInv
    <3> QED  BY <3>2, <3>4, <3>5, <3>6 DEF QueueInv
  <2>3. CASE DrainEmpty \/ SeeClosed
    <3>1. ch = <<>> /\ UNCHANGED <<store, sent, lost, batch, ch, cut>>
      BY <2>3 DEF DrainEmpty, SeeClosed
    <3>2. Aligned' = Aligned
      BY <3>1 DEF Aligned
    <3>3. cut <= Len(store) + lost + Len(batch)
      BY <3>1 DEF QueueInv, TypeOK
    <3> QED  BY <3>1, <3>2, <3>3 DEF QueueInv
  <2>4. CASE WriteEntry
    <3> DEFINE e == Head(batch)
    <3>1. e \in Entries /\ batch # <<>> /\ Len(batch) > 0
      BY <2>4, AllRedacted DEF WriteEntry, TypeOK
    <3>2. /\ store' = Append(store, e) /\ batch' = Tail(batch)
          /\ UNCHANGED <<ch, sent, lost, mode, cut>>
      BY <2>4, AllRedacted DEF WriteEntry
    <3>3. Len(store') = Len(store) + 1 /\ Len(batch') = Len(batch) - 1
      BY <3>1, <3>2 DEF TypeOK
    <3>4. lost' = 0 => Aligned'
      <4> SUFFICES ASSUME lost = 0
                   PROVE  Aligned'
        BY <3>2
      <4>1. Aligned
        BY DEF QueueInv
      <4>2. \A i \in 1..Len(store') : store'[i] = sent[i]
        <5>1. batch[1] = sent[Len(store) + 1]
          BY <3>1, <4>1 DEF Aligned, TypeOK
        <5> QED  BY <3>1, <3>2, <4>1, <5>1 DEF Aligned, TypeOK
      <4>3. \A i \in 1..Len(batch') : batch'[i] = sent[Len(store') + i]
        <5> SUFFICES ASSUME NEW i \in 1..Len(batch')
                     PROVE  batch'[i] = sent[Len(store') + i]
          OBVIOUS
        <5>1. batch'[i] = batch[i + 1] /\ i + 1 \in 1..Len(batch)
          BY <3>1, <3>2, <3>3 DEF TypeOK
        <5>2. batch[i + 1] = sent[Len(store) + (i + 1)]
          BY <4>1, <5>1 DEF Aligned
        <5>3. Len(store) + (i + 1) = Len(store') + i
          BY <3>3 DEF TypeOK
        <5> QED  BY <5>1, <5>2, <5>3
      <4>4. Len(store') + Len(batch') = Len(store) + Len(batch)
        BY <3>3 DEF TypeOK
      <4> QED  BY <3>2, <4>1, <4>2, <4>3, <4>4 DEF Aligned
    <3> HIDE DEF e
    <3>5. /\ Len(store') + lost' + Len(batch') + Len(ch') = Len(sent')
          /\ Len(store') + lost' + Len(batch') = Len(store) + lost + Len(batch)
      <4>1. UNCHANGED <<ch, sent, lost>>
        BY <3>2
      <4>2. /\ Len(store) \in Nat /\ Len(batch) \in Nat /\ Len(ch) \in Nat
            /\ lost \in Nat
        BY DEF TypeOK
      <4> QED  BY <3>3, <4>1, <4>2 DEF QueueInv
    <3> QED  BY <3>2, <3>4, <3>5 DEF QueueInv
  <2>5. CASE FlushFails
    <3>1. /\ StoreMayFail /\ Len(batch) > 0
          /\ lost' = lost + Len(batch) /\ batch' = <<>> /\ Len(batch') = 0
          /\ UNCHANGED <<store, sent, ch, mode, cut>>
      BY <2>5 DEF FlushFails, TypeOK
    <3> QED  BY <3>1 DEF QueueInv, TypeOK
  <2>6. CASE Signal
    <3>1. cut' = Len(sent) /\ mode = "run" /\ UNCHANGED <<store, sent, lost, batch, ch, mode>>
      BY <2>6 DEF Signal, ShutdownInv
    <3>2. Aligned' = Aligned
      BY <3>1 DEF Aligned
    <3>3. cut' <= Len(sent')
      BY <3>1 DEF TypeOK
    <3> QED  BY <3>1, <3>2, <3>3 DEF QueueInv
  <2>7. CASE Tick \/ SeeDone
    BY <2>7 DEF Tick, SeeDone, QueueInv, Aligned
  <2>8. CASE EndFlush
    BY <2>8 DEF EndFlush, QueueInv, Aligned
  <2>9. ASSUME NEW r \in Requests,
               \/ Arrive(r) \/ Refuse(r) \/ \E b \in Bodies : Decode(r, b)
               \/ RejectInvalid(r) \/ PublishFull(r) \/ PublishPanics(r)
               \/ CountAccepted(r) \/ CountShed(r) \/ Reply(r)
        PROVE  QueueInv'
    <3>1. UNCHANGED <<ch, writer, disk, history>>
      BY <2>9 DEF Arrive, Refuse, Decode, RejectInvalid, PublishFull, PublishPanics,
                  CountAccepted, CountShed, Reply
    <3> QED  BY <3>1 DEF QueueInv, Aligned
  <2>10. CASE ServeFails \/ Stop \/ ExitForced \/ UNCHANGED vars
    <3>1. UNCHANGED <<ch, writer, disk, history>>
      BY <2>10 DEF ServeFails, Stop, BeginShutdown, ShutdownReturns, ShutdownExpires,
                   Close, ExitClean, ExitForced, vars
    <3> QED  BY <3>1 DEF QueueInv, Aligned
  <2> QED
    BY <2>1, <2>2, <2>3, <2>4, <2>5, <2>6, <2>7, <2>8, <2>9, <2>10
       DEF Next, Handle, Write, Terminated
<1> QED  BY <1>1, <1>2, TypeCorrect, ShutdownInvariant, PTL DEF Spec

\* No entry that was sent on the channel disappears, is duplicated or overtakes
\* another on its way through the channel, the batch and WriteBatch.
THEOREM NothingDisappears == Spec => []Conservation
<1>1. TypeOK /\ QueueInv => Conservation
  <2> SUFFICES ASSUME TypeOK, QueueInv
               PROVE  Conservation
    OBVIOUS
  <2>1. ASSUME lost = 0
        PROVE  store \o batch \o ch = sent
    <3>1. Aligned /\ Len(store) + Len(batch) + Len(ch) = Len(sent)
      BY <2>1 DEF QueueInv, TypeOK
    <3> DEFINE line == (store \o batch) \o ch
    <3>2. line \in Seq(Entries) /\ sent \in Seq(Entries)
      BY DEF TypeOK
    <3>3. Len(line) = Len(sent)
      BY <3>1 DEF TypeOK
    <3>4. \A i \in 1..Len(line) : line[i] = sent[i]
      <4> SUFFICES ASSUME NEW i \in 1..Len(line)
                   PROVE  line[i] = sent[i]
        OBVIOUS
      <4>1. CASE i <= Len(store)
        BY <4>1, <3>1 DEF Aligned, TypeOK
      <4>2. CASE i > Len(store) /\ i <= Len(store) + Len(batch)
        <5>1. line[i] = batch[i - Len(store)] /\ i - Len(store) \in 1..Len(batch)
          BY <4>2 DEF TypeOK
        <5>2. Len(store) + (i - Len(store)) = i
          BY DEF TypeOK
        <5> QED  BY <5>1, <5>2, <3>1 DEF Aligned
      <4>3. CASE i > Len(store) + Len(batch)
        <5> DEFINE j == i - (Len(store) + Len(batch))
        <5>1. line[i] = ch[j] /\ j \in 1..Len(ch)
          BY <4>3, <3>1, <3>3 DEF TypeOK
        <5>2. Len(store) + Len(batch) + j = i
          BY DEF TypeOK
        <5> QED  BY <5>1, <5>2, <3>1 DEF Aligned
      <4> QED  BY <4>1, <4>2, <4>3 DEF TypeOK
    <3> HIDE DEF line
    <3>5. line = sent
      BY <3>2, <3>3, <3>4, SameSeq
    <3> QED  BY <3>5 DEF line
  <2> QED  BY <2>1 DEF Conservation, QueueInv
<1> QED  BY <1>1, TypeCorrect, QueueInvariant, PTL

\* What was sent before the signal is written by the time main exits cleanly:
\* the writer cannot take its final flush while any of it is still queued.
THEOREM DrainHolds == Spec => []DrainGuarantee
<1>1. TypeOK /\ ShutdownInv /\ QueueInv => DrainGuarantee
  <2> SUFFICES ASSUME TypeOK, ShutdownInv, QueueInv, mpc = "exited"
               PROVE  Len(store) + lost >= cut
    BY DEF DrainGuarantee
  <2>1. mode = "last" /\ Len(batch) = 0
    BY DEF ShutdownInv
  <2> QED  BY <2>1 DEF QueueInv, TypeOK
<1> QED  BY <1>1, TypeCorrect, ShutdownInvariant, QueueInvariant, PTL

-----------------------------------------------------------------------------
(* Bounds *)

BacklogInv ==
  /\ Len(ch) <= BufferSize
  /\ Len(batch) <= BatchSize
  /\ wpc = "select" => Len(batch) < BatchSize

LEMMA BacklogInvariant == Spec => []BacklogInv
<1>1. Init => BacklogInv
  BY HotPathAssumption DEF Init, BacklogInv
<1>2. TypeOK /\ BacklogInv /\ [Next]_vars => BacklogInv'
  <2> SUFFICES ASSUME TypeOK, BacklogInv, [Next]_vars
               PROVE  BacklogInv'
    OBVIOUS
  <2> USE HotPathAssumption DEF handler, buffer, writer, disk, main, history
  <2>1. ASSUME NEW r \in Requests, PublishSends(r)
        PROVE  BacklogInv'
    <3>1. Redact(Decoded(r)) \in Entries
      BY <2>1, PublishedIsEntry DEF PublishSends
    <3>2. Len(ch') = Len(ch) + 1 /\ Len(ch) < BufferSize
      BY <2>1, <3>1 DEF PublishSends, Full, TypeOK
    <3> QED  BY <2>1, <3>2 DEF PublishSends, BacklogInv, TypeOK
  <2>2. CASE Receive
    <3>1. Head(ch) \in Entries /\ Len(ch) > 0
      BY <2>2, AllRedacted DEF Receive, TypeOK
    <3>2. batch' = Append(batch, Head(ch)) /\ ch' = Tail(ch)
      BY <2>2, AllRedacted DEF Receive, AppendGuarded
    <3>3. Len(batch') = Len(batch) + 1 /\ Len(ch') = Len(ch) - 1
      BY <3>1, <3>2 DEF TypeOK
    <3>4. Len(batch) < BatchSize
      BY <2>2 DEF Receive, BacklogInv
    <3>5. wpc' = "select" => Len(batch') < BatchSize
      BY <2>2, <3>3 DEF Receive, BatchFull, TypeOK
    <3>6. Len(batch) \in Nat /\ Len(ch) \in Nat
      BY DEF TypeOK
    <3> QED  BY <3>3, <3>4, <3>5, <3>6 DEF BacklogInv
  <2>3. CASE WriteEntry
    <3>1. Len(batch') = Len(batch) - 1 /\ Len(batch) > 0 /\ ch' = ch /\ wpc' = "write"
      BY <2>3 DEF WriteEntry, TypeOK
    <3> QED  BY <3>1 DEF BacklogInv, TypeOK
  <2>4. CASE EndFlush
    <3>1. Len(batch') = 0 /\ ch' = ch
      BY <2>4 DEF EndFlush
    <3> QED  BY <3>1 DEF BacklogInv
  <2>5. CASE FlushFails
    <3>1. Len(batch') = 0 /\ ch' = ch
      BY <2>5 DEF FlushFails
    <3> QED  BY <3>1 DEF BacklogInv
  <2>6. CASE Tick \/ SeeDone \/ DrainEmpty \/ SeeClosed
    BY <2>6 DEF Tick, SeeDone, DrainEmpty, SeeClosed, BacklogInv
  <2>7. ASSUME NEW r \in Requests,
               \/ Arrive(r) \/ Refuse(r) \/ \E b \in Bodies : Decode(r, b)
               \/ RejectInvalid(r) \/ PublishFull(r) \/ PublishPanics(r)
               \/ CountAccepted(r) \/ CountShed(r) \/ Reply(r)
        PROVE  BacklogInv'
    <3>1. UNCHANGED <<ch, writer>>
      BY <2>7 DEF Arrive, Refuse, Decode, RejectInvalid, PublishFull, PublishPanics,
                  CountAccepted, CountShed, Reply
    <3> QED  BY <3>1 DEF BacklogInv
  <2>8. CASE Signal \/ ServeFails \/ Stop \/ ExitForced \/ UNCHANGED vars
    <3>1. UNCHANGED <<ch, writer>>
      BY <2>8 DEF Signal, ServeFails, Stop, BeginShutdown, ShutdownReturns,
                  ShutdownExpires, Close, ExitClean, ExitForced, vars
    <3> QED  BY <3>1 DEF BacklogInv
  <2> QED
    BY <2>1, <2>2, <2>3, <2>4, <2>5, <2>6, <2>7, <2>8
       DEF Next, Handle, Write, Terminated
<1> QED  BY <1>1, <1>2, TypeCorrect, PTL DEF Spec

\* The memory between clients and the store is bounded by the two configured
\* sizes, for any number of concurrent requests of any length.
THEOREM BacklogIsBounded == Spec => []BoundedBacklog
<1>1. TypeOK /\ QueueInv /\ BacklogInv => BoundedBacklog
  <2> SUFFICES ASSUME TypeOK, QueueInv, BacklogInv
               PROVE  BoundedBacklog
    OBVIOUS
  <2>1. Len(sent) - Len(store) - lost = Len(batch) + Len(ch)
    BY DEF QueueInv, TypeOK
  <2> QED  BY <2>1, HotPathAssumption DEF BacklogInv, BoundedBacklog, TypeOK
<1> QED  BY <1>1, TypeCorrect, QueueInvariant, BacklogInvariant, PTL

-----------------------------------------------------------------------------
(* Refinement *)

\* With a store that does not fail, every step of the hot path is a step of
\* IngestContract or leaves its variables alone: what clients had accepted before
\* the signal becomes durable in order, however the goroutines interleave.
THEOREM ImplementsContract ==
  ASSUME ~StoreMayFail
  PROVE  Spec => ContractRefined
<1> DEFINE Inv == TypeOK /\ ShutdownInv /\ QueueInv
<1>1. Init => Contract!Init
  BY DEF Init, Contract!Init
<1>2. Inv /\ [Next]_vars => [Contract!Next]_(Contract!vars)
  <2> SUFFICES ASSUME Inv, [Next]_vars
               PROVE  Contract!Next \/ UNCHANGED Contract!vars
    OBVIOUS
  <2> USE DEF handler, buffer, writer, disk, main, history
  <2>1. ASSUME NEW r \in Requests, PublishSends(r)
        PROVE  Contract!Next
    <3>1. Redact(Decoded(r)) \in Entries
      BY <2>1, PublishedIsEntry DEF PublishSends
    <3>2. Contract!Accept(Redact(Decoded(r)))
      BY <2>1 DEF PublishSends, AtEntry, Running, TypeOK, Contract!Accept
    <3> QED  BY <3>1, <3>2 DEF Contract!Next
  <2>2. CASE WriteEntry
    <3>1. Head(batch) \in Entries /\ Head(batch).redacted /\ Len(batch) > 0
      BY <2>2, AllRedacted DEF WriteEntry, TypeOK
    <3>2. lost = 0 /\ Aligned
      BY DEF QueueInv
    <3>3. Head(batch) = sent[Len(store) + 1]
      <4>1. Head(batch) = batch[1] /\ 1 \in 1..Len(batch)
        BY <3>1 DEF TypeOK
      <4> QED  BY <3>2, <4>1 DEF Aligned
    <3>4. Len(store) < Len(sent)
      BY <3>1, <3>2 DEF QueueInv, TypeOK
    <3>5. store' = Append(store, sent[Len(store) + 1])
      BY <2>2, <3>1, <3>3 DEF WriteEntry
    <3>6. Contract!Persist
      BY <2>2, <3>4, <3>5 DEF WriteEntry, Running, TypeOK, Contract!Persist
    <3> QED  BY <3>6 DEF Contract!Next
  <2>3. CASE Signal
    <3>1. Contract!Signal
      BY <2>3 DEF Signal, Contract!Signal
    <3> QED  BY <3>1 DEF Contract!Next
  <2>4. CASE ServeFails \/ ExitForced
    <3>1. Contract!Kill
      BY <2>4 DEF ServeFails, ExitForced, Contract!Kill
    <3> QED  BY <3>1 DEF Contract!Next
  <2>5. CASE ExitClean
    <3>1. mode = "last" /\ Len(batch) = 0 /\ lost = 0
      BY <2>5 DEF ExitClean, ShutdownInv, QueueInv
    <3>2. cut <= Len(store)
      BY <3>1 DEF QueueInv, TypeOK
    <3>3. Contract!Exit
      BY <2>5, <3>2 DEF ExitClean, Contract!Exit
    <3> QED  BY <3>3 DEF Contract!Next
  <2>6. CASE BeginShutdown \/ ShutdownReturns \/ ShutdownExpires \/ Close
    BY <2>6 DEF BeginShutdown, ShutdownReturns, ShutdownExpires, Close, Contract!vars
  <2>7. CASE Receive \/ Tick \/ SeeDone \/ DrainEmpty \/ SeeClosed \/ EndFlush \/ FlushFails
    BY <2>7 DEF Receive, Tick, SeeDone, DrainEmpty, SeeClosed, EndFlush, FlushFails,
                Contract!vars
  <2>8. ASSUME NEW r \in Requests,
               \/ Arrive(r) \/ Refuse(r) \/ \E b \in Bodies : Decode(r, b)
               \/ RejectInvalid(r) \/ PublishFull(r) \/ PublishPanics(r)
               \/ CountAccepted(r) \/ CountShed(r) \/ Reply(r)
        PROVE  UNCHANGED Contract!vars
    BY <2>8 DEF Arrive, Refuse, Decode, RejectInvalid, PublishFull, PublishPanics,
                CountAccepted, CountShed, Reply, Contract!vars
  <2>9. CASE UNCHANGED vars
    BY <2>9 DEF vars, Contract!vars
  <2> QED
    BY <2>1, <2>2, <2>3, <2>4, <2>5, <2>6, <2>7, <2>8, <2>9
       DEF Next, Handle, Write, Stop, Terminated
<1> QED
  BY <1>1, <1>2, TypeCorrect, ShutdownInvariant, QueueInvariant, PTL
  DEF Spec, ContractRefined, Contract!Spec

-----------------------------------------------------------------------------
(* What a client is told *)

\* The local counters of ServeHTTP against the loop index and the answer.
LoopInv(r) ==
  /\ nAccepted[r] + nShed[r] = next[r] - 1
  /\ hpc[r] \in {"idle", "reading"} => next[r] = 1
  /\ hpc[r] = "loop" => next[r] <= Len(body[r]) + 1
  /\ hpc[r] \in {"sent", "shed"} => next[r] <= Len(body[r])
  /\ hpc[r] \in {"overloaded", "accepted"} => next[r] = Len(body[r]) + 1
  /\ hpc[r] = "overloaded" => nAccepted[r] = 0

\* A body is a sequence, decoded or not.
LEMMA BodyHasLength ==
  ASSUME TypeOK, NEW r \in Requests
  PROVE  Len(body[r]) \in Nat
<1>1. body[r] \in Bodies \cup {<<>>}
  BY DEF TypeOK
<1>2. body[r] \in Bodies => body[r] \in Seq(BOOLEAN)
  BY HotPathAssumption
<1>3. Len(<<>>) = 0
  OBVIOUS
<1> QED  BY <1>1, <1>2, <1>3

LEMMA LoopInvariant == Spec => [](\A r \in Requests : LoopInv(r))
<1>1. Init => \A r \in Requests : LoopInv(r)
  BY DEF Init, LoopInv
<1>2. TypeOK /\ (\A r \in Requests : LoopInv(r)) /\ [Next]_vars
        => (\A r \in Requests : LoopInv(r))'
  <2> SUFFICES ASSUME TypeOK, \A r \in Requests : LoopInv(r), [Next]_vars,
                      NEW q \in Requests
               PROVE  LoopInv(q)'
    OBVIOUS
  <2> USE DEF handler, buffer, writer, disk, main, history
  <2>0. /\ next[q] \in Nat /\ nAccepted[q] \in Nat /\ nShed[q] \in Nat
        /\ Len(body[q]) \in Nat
    BY BodyHasLength DEF TypeOK
  <2>1. ASSUME NEW r \in Requests, Arrive(r)
        PROVE  LoopInv(q)'
    BY <2>1 DEF Arrive, LoopInv, TypeOK
  <2>2. ASSUME NEW r \in Requests, Refuse(r)
        PROVE  LoopInv(q)'
    BY <2>2 DEF Refuse, LoopInv, TypeOK
  <2>3. ASSUME NEW r \in Requests, NEW b \in Bodies, Decode(r, b)
        PROVE  LoopInv(q)'
    <3>1. Len(b) \in Nat
      BY HotPathAssumption
    <3> QED  BY <2>3, <3>1 DEF Decode, LoopInv, TypeOK
  <2>4. ASSUME NEW r \in Requests, RejectInvalid(r)
        PROVE  LoopInv(q)'
    BY <2>4 DEF RejectInvalid, LoopInv, TypeOK
  <2>5. ASSUME NEW r \in Requests,
               PublishSends(r) \/ PublishFull(r) \/ PublishPanics(r)
        PROVE  LoopInv(q)'
    <3>1. /\ hpc[r] = "loop" /\ next[r] <= Len(body[r])
          /\ \E a \in {"sent", "shed", "aborted"} : hpc' = [hpc EXCEPT ![r] = a]
          /\ UNCHANGED <<body, next, nAccepted, nShed>>
      BY <2>5 DEF PublishSends, PublishFull, PublishPanics, AtEntry
    <3>2. CASE q # r
      <4>1. hpc'[q] = hpc[q]
        BY <3>1, <3>2 DEF TypeOK
      <4> QED  BY <3>1, <4>1 DEF LoopInv
    <3>3. CASE q = r
      <4>1. hpc'[q] \in {"sent", "shed", "aborted"}
        BY <3>1, <3>3 DEF TypeOK
      <4> QED  BY <3>1, <3>3, <4>1 DEF LoopInv
    <3> QED  BY <3>2, <3>3
  <2>6. ASSUME NEW r \in Requests, CountAccepted(r)
        PROVE  LoopInv(q)'
    <3>1. /\ hpc[r] = "sent" /\ hpc' = [hpc EXCEPT ![r] = "loop"]
          /\ nAccepted' = [nAccepted EXCEPT ![r] = @ + 1]
          /\ next' = [next EXCEPT ![r] = @ + 1]
          /\ UNCHANGED <<body, nShed>>
      BY <2>6 DEF CountAccepted
    <3>2. CASE q # r
      <4>1. hpc'[q] = hpc[q] /\ nAccepted'[q] = nAccepted[q] /\ next'[q] = next[q]
        BY <3>1, <3>2 DEF TypeOK
      <4> QED  BY <3>1, <4>1 DEF LoopInv
    <3>3. CASE q = r
      <4>1. /\ hpc'[q] = "loop" /\ nAccepted'[q] = nAccepted[q] + 1
            /\ next'[q] = next[q] + 1
        BY <3>1, <3>3 DEF TypeOK
      <4>2. nShed'[q] = nShed[q] /\ body'[q] = body[q]
        BY <3>1
      <4>3. nAccepted[q] + nShed[q] = next[q] - 1 /\ next[q] <= Len(body[q])
        BY <3>1, <3>3 DEF LoopInv
      <4>4. (nAccepted[q] + 1) + nShed[q] = (next[q] + 1) - 1 /\ next[q] + 1 <= Len(body[q]) + 1
        BY <2>0, <4>3
      <4>5. /\ nAccepted'[q] + nShed'[q] = next'[q] - 1
            /\ next'[q] <= Len(body'[q]) + 1
        BY <4>1, <4>2, <4>4
      <4> QED  BY <4>1, <4>5 DEF LoopInv
    <3> QED  BY <3>2, <3>3
  <2>7. ASSUME NEW r \in Requests, CountShed(r)
        PROVE  LoopInv(q)'
    <3>1. /\ hpc[r] = "shed" /\ hpc' = [hpc EXCEPT ![r] = "loop"]
          /\ nShed' = [nShed EXCEPT ![r] = @ + 1]
          /\ next' = [next EXCEPT ![r] = @ + 1]
          /\ UNCHANGED <<body, nAccepted>>
      BY <2>7 DEF CountShed
    <3>2. CASE q # r
      <4>1. hpc'[q] = hpc[q] /\ nShed'[q] = nShed[q] /\ next'[q] = next[q]
        BY <3>1, <3>2 DEF TypeOK
      <4> QED  BY <3>1, <4>1 DEF LoopInv
    <3>3. CASE q = r
      <4>1. /\ hpc'[q] = "loop" /\ nShed'[q] = nShed[q] + 1
            /\ next'[q] = next[q] + 1
        BY <3>1, <3>3 DEF TypeOK
      <4>2. nAccepted'[q] = nAccepted[q] /\ body'[q] = body[q]
        BY <3>1
      <4>3. nAccepted[q] + nShed[q] = next[q] - 1 /\ next[q] <= Len(body[q])
        BY <3>1, <3>3 DEF LoopInv
      <4>4. nAccepted[q] + (nShed[q] + 1) = (next[q] + 1) - 1 /\ next[q] + 1 <= Len(body[q]) + 1
        BY <2>0, <4>3
      <4>5. /\ nAccepted'[q] + nShed'[q] = next'[q] - 1
            /\ next'[q] <= Len(body'[q]) + 1
        BY <4>1, <4>2, <4>4
      <4> QED  BY <4>1, <4>5 DEF LoopInv
    <3> QED  BY <3>2, <3>3
  <2>8. ASSUME NEW r \in Requests, Reply(r)
        PROVE  LoopInv(q)'
    <3>1. /\ hpc[r] = "loop" /\ next[r] > Len(body[r])
          /\ hpc' = [hpc EXCEPT ![r] = Answer(r)]
          /\ UNCHANGED <<body, next, nAccepted, nShed>>
      BY <2>8 DEF Reply, AtEnd
    <3>2. Answer(r) \in {"overloaded", "accepted"}
          /\ (Answer(r) = "overloaded" => nAccepted[r] = 0)
      BY DEF Answer
    <3>3. CASE q # r
      BY <3>1, <3>3 DEF LoopInv, TypeOK
    <3>4. CASE q = r
      <4>1. next[q] = Len(body[q]) + 1
        BY <2>0, <3>1, <3>4 DEF LoopInv
      <4>2. hpc'[q] = Answer(r)
        BY <3>1, <3>4 DEF TypeOK
      <4> QED  BY <3>1, <3>2, <3>4, <4>1, <4>2 DEF LoopInv
    <3> QED  BY <3>3, <3>4
  <2>9. CASE UNCHANGED handler
    BY <2>9 DEF LoopInv
  <2>10. CASE Write
    BY <2>9, <2>10 DEF Write, Receive, Tick, SeeDone, DrainEmpty, SeeClosed,
                       WriteEntry, EndFlush, FlushFails
  <2>11. CASE Signal \/ ServeFails \/ Stop \/ ExitForced \/ UNCHANGED vars
    BY <2>9, <2>11 DEF Signal, ServeFails, Stop, BeginShutdown, ShutdownReturns,
                       ShutdownExpires, Close, ExitClean, ExitForced, vars
  <2> QED
    BY <2>1, <2>2, <2>3, <2>4, <2>5, <2>6, <2>7, <2>8, <2>10, <2>11
       DEF Next, Handle, Terminated
<1> QED  BY <1>1, <1>2, TypeCorrect, PTL DEF Spec

\* Handlers between their send and the update of the counters.
Senders == {r \in Requests : hpc[r] = "sent"}

\* The counters, local and shared, against what was sent.
SentInv ==
  /\ \A r \in Requests :
       Cardinality(Published(r)) =
         IF hpc[r] = "sent" THEN nAccepted[r] + 1 ELSE nAccepted[r]
  /\ IsFiniteSet(Senders)
  /\ accepted + Cardinality(Senders) = Len(sent)

LEMMA PublishedIsFinite ==
  ASSUME TypeOK, NEW r \in Requests
  PROVE  IsFiniteSet(Published(r)) /\ Cardinality(Published(r)) \in Nat
<1>1. IsFiniteSet(1..Len(sent))
  BY FS_Interval DEF TypeOK
<1>2. Published(r) \in SUBSET (1..Len(sent))
  BY DEF Published
<1> QED  BY <1>1, <1>2, FS_Subset, FS_CardinalityType

LEMMA SentInvariant == Spec => []SentInv
<1>1. Init => SentInv
  <2> SUFFICES ASSUME Init
               PROVE  SentInv
    OBVIOUS
  <2>1. Senders = {} /\ \A r \in Requests : Published(r) = {}
    BY DEF Init, Senders, Published
  <2>2. IsFiniteSet({}) /\ Cardinality({}) = 0
    BY FS_EmptySet
  <2>3. /\ accepted = 0 /\ Len(sent) = 0
        /\ \A r \in Requests : hpc[r] = "idle" /\ nAccepted[r] = 0
    BY DEF Init
  <2>4. \A r \in Requests : Cardinality(Published(r)) = 0
    BY <2>1, <2>2, Zenon
  <2>5. IsFiniteSet(Senders) /\ Cardinality(Senders) = 0
    BY <2>1, <2>2, Zenon
  <2> QED  BY <2>3, <2>4, <2>5 DEF SentInv
<1>2. TypeOK /\ SentInv /\ [Next]_vars => SentInv'
  <2> SUFFICES ASSUME TypeOK, SentInv, [Next]_vars
               PROVE  SentInv'
    OBVIOUS
  <2> USE DEF handler, buffer, writer, disk, main, history
  <2>0. accepted \in Nat /\ Len(sent) \in Nat /\ Cardinality(Senders) \in Nat
    BY FS_CardinalityType DEF TypeOK, SentInv
  <2>1. ASSUME NEW r \in Requests, PublishSends(r)
        PROVE  SentInv'
    <3> DEFINE e == Redact(Decoded(r))
    <3>1. e \in Entries /\ e.req = r
      BY <2>1, PublishedIsEntry DEF PublishSends, Redact, Decoded
    <3>2. /\ sent' = Append(sent, e) /\ hpc[r] = "loop"
          /\ hpc' = [hpc EXCEPT ![r] = "sent"]
          /\ UNCHANGED <<nAccepted, accepted>>
      BY <2>1 DEF PublishSends, AtEntry
    <3> HIDE DEF e
    <3>3. /\ Len(sent') = Len(sent) + 1
          /\ \A i \in 1..Len(sent) : sent'[i] = sent[i]
          /\ sent'[Len(sent) + 1] = e
      BY <3>1, <3>2, AppendAt DEF TypeOK
    <3>4. Senders' = Senders \cup {r} /\ r \notin Senders
      BY <3>2 DEF Senders, TypeOK
    <3>5. IsFiniteSet(Senders') /\ Cardinality(Senders') = Cardinality(Senders) + 1
      BY <3>4, FS_AddElement DEF SentInv
    <3>6. ASSUME NEW q \in Requests
          PROVE  Cardinality(Published(q)') =
                   IF hpc'[q] = "sent" THEN nAccepted'[q] + 1 ELSE nAccepted'[q]
      <4>1. CASE q = r
        <5>1. Published(r)' = Published(r) \cup {Len(sent) + 1}
          BY <2>0, <3>1, <3>3 DEF Published
        <5>2. Len(sent) + 1 \notin Published(r)
          BY <2>0 DEF Published
        <5>3. Cardinality(Published(r)') = Cardinality(Published(r)) + 1
          BY <5>1, <5>2, PublishedIsFinite, FS_AddElement
        <5> QED  BY <3>2, <4>1, <5>3 DEF SentInv, TypeOK
      <4>2. CASE q # r
        <5>1. Published(q)' = Published(q)
          BY <2>0, <3>1, <3>3, <4>2 DEF Published
        <5> QED  BY <3>2, <4>2, <5>1 DEF SentInv, TypeOK
      <4> QED  BY <4>1, <4>2
    <3> QED  BY <2>0, <3>2, <3>3, <3>5, <3>6 DEF SentInv
  <2>2. ASSUME NEW r \in Requests, CountAccepted(r)
        PROVE  SentInv'
    <3>1. /\ hpc[r] = "sent" /\ hpc' = [hpc EXCEPT ![r] = "loop"]
          /\ nAccepted' = [nAccepted EXCEPT ![r] = @ + 1]
          /\ accepted' = accepted + 1 /\ sent' = sent
      BY <2>2 DEF CountAccepted
    <3>2. Senders' = Senders \ {r} /\ r \in Senders
      BY <3>1 DEF Senders, TypeOK
    <3>3. IsFiniteSet(Senders') /\ Cardinality(Senders') = Cardinality(Senders) - 1
      BY <3>2, FS_RemoveElement DEF SentInv
    <3>4. ASSUME NEW q \in Requests
          PROVE  Cardinality(Published(q)') =
                   IF hpc'[q] = "sent" THEN nAccepted'[q] + 1 ELSE nAccepted'[q]
      <4>1. Published(q)' = Published(q)
        BY <3>1 DEF Published
      <4> QED  BY <3>1, <4>1 DEF SentInv, TypeOK
    <3> QED  BY <2>0, <3>1, <3>3, <3>4 DEF SentInv
  <2>3. ASSUME UNCHANGED <<sent, accepted, nAccepted>>,
               \A q \in Requests : hpc'[q] = "sent" <=> hpc[q] = "sent"
        PROVE  SentInv'
    <3>1. Senders' = Senders
      BY <2>3 DEF Senders
    <3>2. \A q \in Requests : Published(q)' = Published(q)
      BY <2>3 DEF Published
    <3> QED  BY <2>3, <3>1, <3>2 DEF SentInv
  <2>4. ASSUME NEW r \in Requests,
               \/ Arrive(r) \/ Refuse(r) \/ \E b \in Bodies : Decode(r, b)
               \/ RejectInvalid(r) \/ PublishFull(r) \/ PublishPanics(r)
               \/ CountShed(r) \/ Reply(r)
        PROVE  SentInv'
    <3>1. UNCHANGED <<sent, accepted, nAccepted>>
      BY <2>4 DEF Arrive, Refuse, Decode, RejectInvalid, PublishFull, PublishPanics,
                  CountShed, Reply
    <3>2. \A q \in Requests : hpc'[q] = "sent" <=> hpc[q] = "sent"
      BY <2>4 DEF Arrive, Refuse, Decode, RejectInvalid, PublishFull, PublishPanics,
                  CountShed, Reply, Answer, AtEntry, AtEnd, TypeOK
    <3> QED  BY <2>3, <3>1, <3>2
  <2>5. CASE Write
    BY <2>3, <2>5 DEF Write, Receive, Tick, SeeDone, DrainEmpty, SeeClosed,
                      WriteEntry, EndFlush, FlushFails
  <2>6. CASE Signal \/ ServeFails \/ Stop \/ ExitForced \/ UNCHANGED vars
    BY <2>3, <2>6 DEF Signal, ServeFails, Stop, BeginShutdown, ShutdownReturns,
                      ShutdownExpires, Close, ExitClean, ExitForced, vars
  <2> QED
    BY <2>1, <2>2, <2>4, <2>5, <2>6 DEF Next, Handle, Terminated
<1> QED  BY <1>1, <1>2, TypeCorrect, PTL DEF Spec

\* A client told 503 has nothing in the queue; one told 202 has there exactly
\* what the reply counts.
THEOREM RepliesAreHonest == Spec => []ReplyIsHonest
<1>1. TypeOK /\ (\A r \in Requests : LoopInv(r)) /\ SentInv => ReplyIsHonest
  <2> SUFFICES ASSUME TypeOK, \A r \in Requests : LoopInv(r), SentInv,
                      NEW r \in Requests
               PROVE  /\ hpc[r] = "overloaded" =>
                           Published(r) = {} /\ nShed[r] = Len(body[r])
                      /\ hpc[r] = "accepted" =>
                           /\ nAccepted[r] = Cardinality(Published(r))
                           /\ nAccepted[r] + nShed[r] = Len(body[r])
    BY DEF ReplyIsHonest
  <2>1. nAccepted[r] \in Nat /\ nShed[r] \in Nat /\ Len(body[r]) \in Nat
    BY BodyHasLength DEF TypeOK
  <2>2. hpc[r] # "sent" => Cardinality(Published(r)) = nAccepted[r]
    BY DEF SentInv
  <2>3. Cardinality(Published(r)) = 0 => Published(r) = {}
    BY PublishedIsFinite, FS_EmptySet
  <2> QED  BY <2>1, <2>2, <2>3 DEF LoopInv
<1> QED  BY <1>1, TypeCorrect, LoopInvariant, SentInvariant, PTL

\* The accepted metric differs from what was sent by the handlers caught between
\* the two updates.
THEOREM CounterLagHolds == Spec => []CounterLag
<1>1. SentInv => CounterLag
  BY DEF SentInv, Senders, CounterLag
<1> QED  BY <1>1, SentInvariant, PTL

-----------------------------------------------------------------------------
(* The order of the entries of one request. A failing store takes a batch out *)
(* of the middle, so the order is stated of the three queues and between them.*)

Precedes(d, e) == d.req = e.req => d.idx < e.idx

Increasing(s) == \A i, j \in 1..Len(s) : i < j => Precedes(s[i], s[j])

Ahead(s, t) == \A i \in 1..Len(s), j \in 1..Len(t) : Precedes(s[i], t[j])

\* The handler of an entry has gone past it, or is about to.
Emitted(e) ==
  e.idx < next[e.req] \/ (e.idx = next[e.req] /\ hpc[e.req] = "sent")

OrderInv ==
  /\ Increasing(store) /\ Increasing(batch) /\ Increasing(ch)
  /\ Ahead(store, batch) /\ Ahead(store, ch) /\ Ahead(batch, ch)
  /\ \A i \in 1..Len(store) : Emitted(store[i])
  /\ \A i \in 1..Len(batch) : Emitted(batch[i])
  /\ \A i \in 1..Len(ch) : Emitted(ch[i])

LEMMA EntryTypes == \A e \in Entries : e.req \in Requests /\ e.idx \in Nat
<1>1. \A b \in Bodies : DOMAIN b \subseteq Nat
  BY HotPathAssumption
<1> QED  BY <1>1 DEF Entries

\* What Tail leaves.
LEMMA TailAt ==
  ASSUME NEW S, NEW t \in Seq(S), t # <<>>
  PROVE  /\ Head(t) = t[1] /\ Head(t) \in S /\ Tail(t) \in Seq(S)
         /\ Len(t) \in Nat \ {0} /\ Len(Tail(t)) = Len(t) - 1
         /\ \A i \in 1..Len(Tail(t)) : Tail(t)[i] = t[i + 1]
  OBVIOUS

\* Moving the head of a queue to the end of the one before it keeps the order.
LEMMA MoveKeepsOrder ==
  ASSUME NEW S, NEW s \in Seq(S), NEW t \in Seq(S), t # <<>>,
         Increasing(s), Increasing(t), Ahead(s, t)
  PROVE  /\ Increasing(Append(s, Head(t)))
         /\ Increasing(Tail(t))
         /\ Ahead(Append(s, Head(t)), Tail(t))
<1> DEFINE e == Head(t)
           s1 == Append(s, e)
           t1 == Tail(t)
<1>1. /\ e = t[1] /\ e \in S /\ Len(t) \in Nat \ {0} /\ Len(t1) = Len(t) - 1
      /\ \A i \in 1..Len(t1) : t1[i] = t[i + 1]
  BY TailAt
<1>2. /\ Len(s1) = Len(s) + 1
      /\ \A i \in 1..Len(s) : s1[i] = s[i]
      /\ s1[Len(s) + 1] = e
  BY <1>1, AppendAt
<1>3. Len(s) \in Nat
  OBVIOUS
<1> HIDE DEF e, s1, t1
<1>4. \A i \in 1..Len(s) : Precedes(s[i], e)
  BY <1>1 DEF Ahead
<1>5. \A j \in 1..Len(t1) : Precedes(e, t1[j])
  BY <1>1 DEF Increasing
<1>6. Increasing(s1)
  BY <1>2, <1>3, <1>4 DEF Increasing
<1>7. Increasing(t1)
  BY <1>1 DEF Increasing
<1>8. \A i \in 1..Len(s), j \in 1..Len(t1) : Precedes(s[i], t1[j])
  BY <1>1 DEF Ahead
<1>9. Ahead(s1, t1)
  BY <1>2, <1>3, <1>5, <1>8 DEF Ahead
<1> QED  BY <1>6, <1>7, <1>9 DEF e, s1, t1

LEMMA OrderInvariant == Spec => []OrderInv
<1>1. Init => OrderInv
  BY DEF Init, OrderInv, Increasing, Ahead
<1>2. TypeOK /\ OrderInv /\ [Next]_vars => OrderInv'
  <2> SUFFICES ASSUME TypeOK, OrderInv, [Next]_vars
               PROVE  OrderInv'
    OBVIOUS
  <2> USE DEF handler, buffer, writer, disk, main, history
  <2>0. store \in Seq(Entries) /\ batch \in Seq(Entries) /\ ch \in Seq(Entries)
    BY DEF TypeOK
  <2>1. ASSUME NEW r \in Requests, PublishSends(r)
        PROVE  OrderInv'
    <3>1. PICK e \in Entries :
            e = Redact(Decoded(r)) /\ e.req = r /\ e.idx = next[r]
      BY <2>1, PublishedIsEntry DEF PublishSends, Redact, Decoded
    <3>2. /\ ch' = Append(ch, e) /\ hpc[r] = "loop"
          /\ hpc' = [hpc EXCEPT ![r] = "sent"]
          /\ UNCHANGED <<next, store, batch>>
      BY <2>1, <3>1 DEF PublishSends, AtEntry
    <3>3. /\ Len(ch') = Len(ch) + 1 /\ Len(ch) \in Nat
          /\ \A i \in 1..Len(ch) : ch'[i] = ch[i]
          /\ ch'[Len(ch) + 1] = e
      BY <2>0, <3>1, <3>2, AppendAt
    <3>4. ASSUME NEW d \in Entries, Emitted(d)
          PROVE  Precedes(d, e) /\ Emitted(d)'
      BY <3>1, <3>2, <3>4, EntryTypes DEF Emitted, Precedes, TypeOK
    <3>5. Emitted(e)'
      BY <3>1, <3>2 DEF Emitted, TypeOK
    <3>6. /\ \A i \in 1..Len(store) : Precedes(store[i], e)
          /\ \A i \in 1..Len(batch) : Precedes(batch[i], e)
          /\ \A i \in 1..Len(ch) : Precedes(ch[i], e)
      BY <2>0, <3>4 DEF OrderInv
    <3>7. Increasing(ch')
      BY <3>3, <3>6 DEF OrderInv, Increasing
    <3>8. Ahead(store, ch') /\ Ahead(batch, ch')
      BY <3>3, <3>6 DEF OrderInv, Ahead
    <3>9. /\ (\A i \in 1..Len(store) : Emitted(store[i]))'
          /\ (\A i \in 1..Len(batch) : Emitted(batch[i]))'
      BY <2>0, <3>2, <3>4 DEF OrderInv
    <3>10. \A i \in 1..Len(ch) : ch[i] \in Entries /\ Emitted(ch[i])
      BY <2>0 DEF OrderInv
    <3>11. ASSUME NEW i \in 1..Len(ch')
           PROVE  Emitted(ch[i])'
      <4>1. CASE i \in 1..Len(ch)
        BY <3>3, <3>4, <3>10, <4>1
      <4>2. CASE i = Len(ch) + 1
        BY <3>3, <3>5, <4>2
      <4> QED  BY <3>3, <4>1, <4>2
    <3> QED  BY <3>2, <3>7, <3>8, <3>9, <3>11 DEF OrderInv
  <2>2. ASSUME UNCHANGED <<store, batch, ch>>,
               \A e \in Entries : Emitted(e) => Emitted(e)'
        PROVE  OrderInv'
    <3>1. /\ \A i \in 1..Len(store) : Emitted(store[i])'
          /\ \A i \in 1..Len(batch) : Emitted(batch[i])'
          /\ \A i \in 1..Len(ch) : Emitted(ch[i])'
      BY <2>0, <2>2 DEF OrderInv
    <3> QED  BY <2>2, <3>1 DEF OrderInv
  <2>3. ASSUME NEW r \in Requests,
               \/ Arrive(r) \/ Refuse(r) \/ \E b \in Bodies : Decode(r, b)
               \/ RejectInvalid(r) \/ PublishFull(r) \/ PublishPanics(r)
               \/ CountAccepted(r) \/ CountShed(r) \/ Reply(r)
        PROVE  OrderInv'
    <3>1. UNCHANGED <<store, batch, ch>>
      BY <2>3 DEF Arrive, Refuse, Decode, RejectInvalid, PublishFull, PublishPanics,
                  CountAccepted, CountShed, Reply
    <3>2. \A q \in Requests :
            \/ next'[q] = next[q] /\ (hpc[q] = "sent" => hpc'[q] = "sent")
            \/ next'[q] = next[q] + 1
      BY <2>3 DEF Arrive, Refuse, Decode, RejectInvalid, PublishFull, PublishPanics,
                  CountAccepted, CountShed, Reply, AtEntry, AtEnd, TypeOK
    <3>3. ASSUME NEW e \in Entries, Emitted(e)
          PROVE  Emitted(e)'
      <4>1. e.req \in Requests /\ e.idx \in Nat
        BY EntryTypes
      <4>2. next[e.req] \in Nat
        BY <4>1 DEF TypeOK
      <4>3. e.idx < next[e.req] \/ (e.idx = next[e.req] /\ hpc[e.req] = "sent")
        BY <3>3 DEF Emitted
      <4>4. e.idx < next'[e.req] \/ (e.idx = next'[e.req] /\ hpc'[e.req] = "sent")
        BY <3>2, <4>1, <4>2, <4>3
      <4> QED  BY <4>4 DEF Emitted
    <3> QED  BY <2>2, <3>1, <3>3
  <2>4. CASE Receive
    <3>1. ch # <<>> /\ ch' = Tail(ch) /\ UNCHANGED <<store, hpc, next>>
      BY <2>4 DEF Receive
    <3>2. batch' = Append(batch, Head(ch))
      BY <2>4, AllRedacted DEF Receive, AppendGuarded
    <3>3. /\ Increasing(batch') /\ Increasing(ch') /\ Ahead(batch', ch')
      BY <2>0, <3>1, <3>2, MoveKeepsOrder DEF OrderInv
    <3>4. /\ Head(ch) = ch[1] /\ Head(ch) \in Entries /\ Len(ch) \in Nat \ {0}
          /\ Len(ch') = Len(ch) - 1
          /\ \A i \in 1..Len(ch') : ch'[i] = ch[i + 1]
      BY <2>0, <3>1, TailAt
    <3>5. /\ Len(batch') = Len(batch) + 1 /\ Len(batch) \in Nat
          /\ \A i \in 1..Len(batch) : batch'[i] = batch[i]
          /\ batch'[Len(batch) + 1] = ch[1]
      BY <2>0, <3>2, <3>4, AppendAt
    <3>6. Ahead(store, batch') /\ Ahead(store, ch')
      <4>1. 1 \in 1..Len(ch)
        BY <3>4
      <4>2. \A i \in 1..Len(store) : Precedes(store[i], ch[1])
        BY <4>1 DEF OrderInv, Ahead
      <4>3. Ahead(store, batch')
        BY <3>5, <4>2 DEF OrderInv, Ahead
      <4>4. Ahead(store, ch')
        BY <3>4 DEF OrderInv, Ahead
      <4> QED  BY <4>3, <4>4
    <3>7. \A e : Emitted(e)' <=> Emitted(e)
      BY <3>1 DEF Emitted
    <3>8. /\ \A i \in 1..Len(batch') : Emitted(batch'[i])
          /\ \A i \in 1..Len(ch') : Emitted(ch'[i])
      BY <3>4, <3>5 DEF OrderInv
    <3> QED  BY <3>1, <3>3, <3>6, <3>7, <3>8 DEF OrderInv
  <2>5. CASE WriteEntry
    <3>1. batch # <<>> /\ batch' = Tail(batch) /\ UNCHANGED <<ch, hpc, next>>
      BY <2>5 DEF WriteEntry
    <3>2. store' = Append(store, Head(batch))
      BY <2>5, AllRedacted DEF WriteEntry
    <3>3. /\ Increasing(store') /\ Increasing(batch') /\ Ahead(store', batch')
      BY <2>0, <3>1, <3>2, MoveKeepsOrder DEF OrderInv
    <3>4. /\ Head(batch) = batch[1] /\ Head(batch) \in Entries
          /\ Len(batch) \in Nat \ {0} /\ Len(batch') = Len(batch) - 1
          /\ \A i \in 1..Len(batch') : batch'[i] = batch[i + 1]
      BY <2>0, <3>1, TailAt
    <3>5. /\ Len(store') = Len(store) + 1 /\ Len(store) \in Nat
          /\ \A i \in 1..Len(store) : store'[i] = store[i]
          /\ store'[Len(store) + 1] = batch[1]
      BY <2>0, <3>2, <3>4, AppendAt
    <3>6. Ahead(store', ch') /\ Ahead(batch', ch')
      <4>1. 1 \in 1..Len(batch) /\ ch' = ch
        BY <3>1, <3>4
      <4>2. \A j \in 1..Len(ch) : Precedes(batch[1], ch[j])
        BY <4>1 DEF OrderInv, Ahead
      <4>3. \A i \in 1..Len(store') :
              (i \in 1..Len(store) /\ store'[i] = store[i]) \/ store'[i] = batch[1]
        BY <3>5
      <4>4. Ahead(store', ch')
        BY <4>1, <4>2, <4>3 DEF OrderInv, Ahead
      <4>5. \A i \in 1..Len(batch') : i + 1 \in 1..Len(batch) /\ batch'[i] = batch[i + 1]
        BY <3>4
      <4>6. Ahead(batch', ch')
        BY <4>1, <4>5 DEF OrderInv, Ahead
      <4> QED  BY <4>4, <4>6
    <3>7. \A e : Emitted(e)' <=> Emitted(e)
      BY <3>1 DEF Emitted
    <3>8. \A i \in 1..Len(store') : Emitted(store'[i])
      <4>1. \A i \in 1..Len(store') : i \in 1..Len(store) \/ i = Len(store) + 1
        BY <3>5
      <4>2. Emitted(batch[1])
        BY <3>4 DEF OrderInv
      <4> QED  BY <3>5, <4>1, <4>2 DEF OrderInv
    <3>9. \A i \in 1..Len(batch') : Emitted(batch'[i])
      BY <3>4 DEF OrderInv
    <3> HIDE DEF Emitted
    <3>10. Increasing(ch') /\ \A i \in 1..Len(ch') : Emitted(ch'[i])
      BY <3>1 DEF OrderInv
    <3> QED  BY <3>3, <3>6, <3>7, <3>8, <3>9, <3>10 DEF OrderInv
  <2>6. CASE FlushFails
    <3>1. batch' = <<>> /\ UNCHANGED <<store, ch, hpc, next>>
      BY <2>6 DEF FlushFails
    <3>2. Len(batch') = 0
      BY <3>1
    <3>3. \A e : Emitted(e)' <=> Emitted(e)
      BY <3>1 DEF Emitted
    <3> QED  BY <3>1, <3>2, <3>3 DEF OrderInv, Increasing, Ahead
  <2>7. ASSUME UNCHANGED <<store, batch, ch, hpc, next>>
        PROVE  OrderInv'
    BY <2>2, <2>7 DEF Emitted
  <2>8. CASE Tick \/ SeeDone \/ DrainEmpty \/ SeeClosed \/ EndFlush
    BY <2>7, <2>8 DEF Tick, SeeDone, DrainEmpty, SeeClosed, EndFlush
  <2>9. CASE Signal \/ ServeFails \/ Stop \/ ExitForced \/ UNCHANGED vars
    BY <2>7, <2>9 DEF Signal, ServeFails, Stop, BeginShutdown, ShutdownReturns,
                      ShutdownExpires, Close, ExitClean, ExitForced, vars
  <2> QED
    BY <2>1, <2>3, <2>4, <2>5, <2>6, <2>8, <2>9 DEF Next, Handle, Write, Terminated
<1> QED  BY <1>1, <1>2, TypeCorrect, PTL DEF Spec

\* The store holds the entries of a request once each and in the order of its
\* array, also when batches in between were dropped.
THEOREM OrderHolds == Spec => []OncePerEntryInOrder
<1>1. OrderInv => OncePerEntryInOrder
  BY DEF OrderInv, Increasing, Precedes, OncePerEntryInOrder
<1> QED  BY <1>1, OrderInvariant, PTL
-----------------------------------------------------------------------------
(* What the other parts see *)

\* What the parts that read the store rely on: it only grows, at its end and by
\* redacted entries, so an ID once given names the same entry for good; and the
\* context once cancelled stays so, whatever main does after it. EmbedWorker,
\* AnomalyWorker and QueryService take both for granted.
StoreOnlyGrows ==
  [][/\ store' = store \/ \E e \in Entries : store' = Append(store, e)
     /\ CtxDone => CtxDone']_vars

\* The writer is the only one to touch the store, and a failed flush leaves it.
THEOREM SurroundingsHold == Spec => StoreOnlyGrows
<1>1. TypeOK /\ [Next]_vars
        => [/\ store' = store \/ \E e \in Entries : store' = Append(store, e)
            /\ CtxDone => CtxDone']_vars
  <2> SUFFICES ASSUME TypeOK, [Next]_vars
               PROVE  /\ store' = store \/ \E e \in Entries : store' = Append(store, e)
                      /\ CtxDone => CtxDone'
    OBVIOUS
  <2> USE DEF handler, buffer, writer, disk, main, history, CtxDone
  <2>1. ASSUME NEW r \in Requests, \/ Arrive(r) \/ Refuse(r) \/ Handle(r)
                                   \/ \E b \in Bodies : Decode(r, b)
        PROVE  UNCHANGED <<store, mpc>>
    BY <2>1 DEF Arrive, Refuse, Decode, Handle, RejectInvalid, PublishSends, PublishFull,
                PublishPanics, CountAccepted, CountShed, Reply
  <2>2. CASE WriteEntry
    <3>1. Head(batch) \in Entries
      BY <2>2 DEF WriteEntry, TypeOK
    <3> QED  BY <2>2, <3>1 DEF WriteEntry
  <2>3. CASE Write /\ ~WriteEntry
    <3>1. UNCHANGED <<store, mpc>>
      BY <2>3 DEF Write, Receive, Tick, SeeDone, DrainEmpty, SeeClosed, EndFlush, FlushFails
    <3> QED  BY <3>1
  <2>4. CASE Signal \/ ServeFails \/ Stop \/ ExitForced
    BY <2>4 DEF Signal, ServeFails, Stop, BeginShutdown, ShutdownReturns, ShutdownExpires,
                Close, ExitClean, ExitForced
  <2>5. CASE UNCHANGED vars
    BY <2>5 DEF vars
  <2> QED  BY <2>1, <2>2, <2>3, <2>4, <2>5 DEF Next, Terminated
<1> QED  BY <1>1, TypeCorrect, PTL DEF Spec, StoreOnlyGrows

-----------------------------------------------------------------------------
(* How much is left to do. A measure that every step of a thread lowers and  *)
(* that the others cannot raise is what makes it end once it is scheduled.   *)

\* Steps a handler may still take: two for every entry, one to answer.
StepsLeft(r) ==
  LET entries == Len(body[r]) - next[r] + 1
  IN  IF hpc[r] = "loop" THEN 2 * entries + 1
      ELSE IF hpc[r] \in {"sent", "shed"} THEN 2 * entries
      ELSE 0

\* What the handler of a request does next is up to its own body: every step of
\* it lowers StepsLeft, nothing but decoding a body ever raises it, so ServeHTTP
\* answers after at most 2 * Len(body) + 1 steps, however full the channel is,
\* whether it is closed and whatever the writer does.
HandlerIsBounded ==
  [][\A r \in Requests :
       /\ StepsLeft(r) \in 0..(2 * Len(body[r]) + 1)
       /\ Handle(r) => StepsLeft(r)' < StepsLeft(r)
       /\ (~\E b \in Bodies : Decode(r, b)) => StepsLeft(r)' <= StepsLeft(r)]_vars

\* The loop index is within the body or just past it.
LEMMA StepsLeftInRange ==
  ASSUME TypeOK, NEW r \in Requests, LoopInv(r)
  PROVE  StepsLeft(r) \in 0..(2 * Len(body[r]) + 1)
<1>1. Len(body[r]) \in Nat /\ next[r] \in Nat \ {0}
  BY BodyHasLength DEF TypeOK
<1> QED  BY <1>1 DEF StepsLeft, LoopInv

\* One step of a handler, on the measure of its own request.
LEMMA HandlerGetsOn ==
  ASSUME TypeOK, NEW r \in Requests, LoopInv(r), Handle(r)
  PROVE  StepsLeft(r)' \in Int /\ StepsLeft(r)' < StepsLeft(r)
<1>1. Len(body[r]) \in Nat /\ next[r] \in Nat /\ r \in DOMAIN hpc /\ r \in DOMAIN next
  BY BodyHasLength DEF TypeOK
<1>2. body' = body /\ (StepsLeft(r))' =
        (LET entries == Len(body[r]) - next'[r] + 1
         IN  IF hpc'[r] = "loop" THEN 2 * entries + 1
             ELSE IF hpc'[r] \in {"sent", "shed"} THEN 2 * entries
             ELSE 0)
  BY DEF Handle, RejectInvalid, PublishSends, PublishFull, PublishPanics,
         CountAccepted, CountShed, Reply, handler, StepsLeft
<1>3. CASE RejectInvalid(r) \/ PublishPanics(r) \/ Reply(r)
  <2>1. hpc[r] = "loop" /\ hpc'[r] \in {"bad_request", "aborted", "overloaded", "accepted"}
    BY <1>1, <1>3 DEF RejectInvalid, PublishPanics, Reply, Answer, AtEntry, AtEnd
  <2>2. StepsLeft(r)' = 0
    BY <1>2, <2>1
  <2>3. next[r] <= Len(body[r]) + 1
    BY <2>1 DEF LoopInv
  <2> QED  BY <1>1, <2>1, <2>2, <2>3 DEF StepsLeft
<1>4. CASE PublishSends(r) \/ PublishFull(r)
  <2>1. hpc[r] = "loop" /\ hpc'[r] \in {"sent", "shed"} /\ next' = next
    BY <1>1, <1>4 DEF PublishSends, PublishFull, AtEntry
  <2> QED  BY <1>1, <1>2, <2>1 DEF StepsLeft
<1>5. CASE CountAccepted(r) \/ CountShed(r)
  <2>1. /\ hpc[r] \in {"sent", "shed"} /\ hpc'[r] = "loop"
        /\ next'[r] = next[r] + 1
    BY <1>1, <1>5 DEF CountAccepted, CountShed
  <2> QED  BY <1>1, <1>2, <2>1 DEF StepsLeft
<1> QED  BY <1>3, <1>4, <1>5 DEF Handle

\* No step but its own changes what a handler has left, and only Decode starts it.
LEMMA OthersDoNotDelay ==
  ASSUME TypeOK, [Next]_vars, NEW r \in Requests, ~Handle(r),
         ~\E b \in Bodies : Decode(r, b)
  PROVE  StepsLeft(r)' = StepsLeft(r)
<1> USE DEF handler, buffer, writer, disk, main, history
<1>1. ASSUME NEW q \in Requests, q # r,
             \/ Arrive(q) \/ Refuse(q) \/ Handle(q)
             \/ \E b \in Bodies : Decode(q, b)
      PROVE  StepsLeft(r)' = StepsLeft(r)
  <2>1. hpc'[r] = hpc[r] /\ body'[r] = body[r] /\ next'[r] = next[r]
    BY <1>1 DEF Arrive, Refuse, Decode, Handle, RejectInvalid, PublishSends,
                PublishFull, PublishPanics, CountAccepted, CountShed, Reply, TypeOK
  <2> QED  BY <2>1 DEF StepsLeft
<1>2. CASE Arrive(r) \/ Refuse(r)
  <2>1. hpc[r] \in {"idle", "reading"} /\ hpc'[r] \in {"reading", "refused"}
    BY <1>2 DEF Arrive, Refuse, TypeOK
  <2> QED  BY <2>1 DEF StepsLeft
<1>3. CASE UNCHANGED handler
  BY <1>3 DEF StepsLeft
<1>4. CASE Write
  BY <1>3, <1>4 DEF Write, Receive, Tick, SeeDone, DrainEmpty, SeeClosed,
                    WriteEntry, EndFlush, FlushFails
<1>5. CASE Signal \/ ServeFails \/ Stop \/ ExitForced \/ UNCHANGED vars
  BY <1>3, <1>5 DEF Signal, ServeFails, Stop, BeginShutdown, ShutdownReturns,
                    ShutdownExpires, Close, ExitClean, ExitForced, vars
<1> QED  BY <1>1, <1>2, <1>4, <1>5 DEF Next, Terminated

\* A handler that is scheduled answers, for a body of any length.
THEOREM HandlersGetOn == Spec => HandlerIsBounded
<1>1. TypeOK /\ (\A r \in Requests : LoopInv(r)) /\ [Next]_vars
        => [\A r \in Requests :
              /\ StepsLeft(r) \in 0..(2 * Len(body[r]) + 1)
              /\ Handle(r) => StepsLeft(r)' < StepsLeft(r)
              /\ (~\E b \in Bodies : Decode(r, b))
                   => StepsLeft(r)' <= StepsLeft(r)]_vars
  <2> SUFFICES ASSUME TypeOK, \A r \in Requests : LoopInv(r), [Next]_vars,
                      NEW r \in Requests
               PROVE  /\ StepsLeft(r) \in 0..(2 * Len(body[r]) + 1)
                      /\ Handle(r) => StepsLeft(r)' < StepsLeft(r)
                      /\ (~\E b \in Bodies : Decode(r, b))
                           => StepsLeft(r)' <= StepsLeft(r)
    OBVIOUS
  <2>1. StepsLeft(r) \in 0..(2 * Len(body[r]) + 1)
    BY StepsLeftInRange
  <2>2. Handle(r) => StepsLeft(r)' < StepsLeft(r) /\ StepsLeft(r)' <= StepsLeft(r)
    BY <2>1, HandlerGetsOn
  <2>3. ~Handle(r) /\ (~\E b \in Bodies : Decode(r, b)) => StepsLeft(r)' = StepsLeft(r)
    BY OthersDoNotDelay
  <2> QED  BY <2>1, <2>2, <2>3
<1> QED  BY <1>1, TypeCorrect, LoopInvariant, PTL
     DEF Spec, HandlerIsBounded

\* Upper bound on the steps the writer takes when nothing more is sent: five for
\* an entry in the channel (to receive it, write it and flush around it), two
\* for one in the batch, and those that end the two loops of Run.
LoopsLeft == CASE mode = "run" -> 3 [] mode = "drain" -> 2 [] mode = "last" -> 0
FlushLeft ==
  CASE wpc = "select" -> IF batch = <<>> THEN 0 ELSE 2
    [] wpc \in {"flush", "write"} -> 1
    [] wpc = "done" -> 0
WorkLeft == 5 * Len(ch) + 2 * Len(batch) + LoopsLeft + FlushLeft

\* BatchWriter.Run never goes round without getting on: every step of it, a
\* tick, a failed flush and the way out included, lowers WorkLeft, and of all
\* other steps only a send raises it. So when nothing more is sent, and nothing
\* is once the channel is closed, Run is through after at most
\* 5 * BufferSize + 2 * BatchSize + 4 steps.
WriterIsBounded ==
  [][/\ WorkLeft \in 0..(5 * BufferSize + 2 * BatchSize + 4)
     /\ Write => WorkLeft' < WorkLeft
     /\ (~\E r \in Requests : PublishSends(r)) => WorkLeft' <= WorkLeft]_vars

\* The parts of the measure, and its bound by the two capacities.
LEMMA MeasureParts ==
  ASSUME TypeOK
  PROVE  /\ LoopsLeft \in 0..3 /\ FlushLeft \in 0..2
         /\ Len(ch) \in Nat /\ Len(batch) \in Nat
<1>1. LoopsLeft \in 0..3
  BY DEF TypeOK, LoopsLeft
<1>2. FlushLeft \in 0..2
  BY DEF TypeOK, FlushLeft
<1> QED  BY <1>1, <1>2 DEF TypeOK

LEMMA WorkLeftInRange ==
  ASSUME TypeOK, BacklogInv
  PROVE  WorkLeft \in 0..(5 * BufferSize + 2 * BatchSize + 4)
<1>1. BufferSize \in Nat /\ BatchSize \in Nat
  BY HotPathAssumption
<1>2. 2 * Len(batch) + FlushLeft \in 0..(2 * BatchSize + 1)
  <2>1. CASE wpc = "select"
    BY <1>1, <2>1, MeasureParts DEF BacklogInv
  <2>2. CASE wpc # "select"
    <3>1. FlushLeft <= 1
      BY <2>2 DEF FlushLeft, TypeOK
    <3> QED  BY <1>1, <3>1, MeasureParts DEF BacklogInv
  <2> QED  BY <2>1, <2>2
<1>3. 5 * Len(ch) \in 0..(5 * BufferSize)
  BY <1>1, MeasureParts DEF BacklogInv
<1>4. \A i, j, k \in Nat :
        i <= 5 * BufferSize /\ j <= 2 * BatchSize + 1 /\ k <= 3
          => i + j + k \in 0..(5 * BufferSize + 2 * BatchSize + 4)
  BY <1>1
<1>5. WorkLeft = 5 * Len(ch) + (2 * Len(batch) + FlushLeft) + LoopsLeft
  BY MeasureParts DEF WorkLeft
<1> QED  BY <1>1, <1>2, <1>3, <1>4, <1>5, MeasureParts

\* One step of the writer. A receive pays for the entry it puts in the batch and
\* for the flush that may start, the end of a loop for its last flush.
LEMMA WriterGetsOn ==
  ASSUME TypeOK, TypeOK', ShutdownInv, Write
  PROVE  WorkLeft' < WorkLeft
<1> USE DEF handler, buffer, writer, disk, main, history
<1>0. /\ LoopsLeft \in 0..3 /\ FlushLeft \in 0..2
      /\ LoopsLeft' \in 0..3 /\ FlushLeft' \in 0..2
      /\ Len(ch) \in Nat /\ Len(batch) \in Nat /\ Len(ch') \in Nat /\ Len(batch') \in Nat
      /\ Len(batch) = 0 <=> batch = <<>>
  <2>1. LoopsLeft' \in 0..3 /\ FlushLeft' \in 0..2
    BY DEF TypeOK, LoopsLeft, FlushLeft
  <2> QED  BY <2>1, MeasureParts DEF TypeOK
<1>1. CASE Receive
  <2>1. Len(ch') = Len(ch) - 1 /\ LoopsLeft' = LoopsLeft
    BY <1>1 DEF Receive, LoopsLeft, TypeOK
  <2>2. batch' = batch \/ Len(batch') = Len(batch) + 1
    BY <1>1 DEF Receive, AppendGuarded, TypeOK
  <2>3. batch # <<>> => FlushLeft = 2
    BY <1>1 DEF Receive, FlushLeft
  <2>4. batch' = batch => FlushLeft' <= FlushLeft
    <3>1. ASSUME batch' = batch, batch = <<>>
          PROVE  wpc' = "select"
      BY <1>0, <1>1, <3>1, HotPathAssumption DEF Receive, BatchFull
    <3> QED  BY <1>0, <1>1, <2>3, <3>1 DEF Receive, FlushLeft
  <2> QED  BY <1>0, <2>1, <2>2, <2>4 DEF WorkLeft
<1>2. CASE Tick
  <2>1. FlushLeft = 2 /\ FlushLeft' = 1 /\ LoopsLeft' = LoopsLeft
    BY <1>2 DEF Tick, FlushLeft, LoopsLeft
  <2> QED  BY <1>0, <1>2, <2>1 DEF Tick, WorkLeft
<1>3. CASE SeeDone
  <2>1. LoopsLeft = 3 /\ LoopsLeft' = 2 /\ FlushLeft' = FlushLeft
    BY <1>3 DEF SeeDone, FlushLeft, LoopsLeft
  <2> QED  BY <1>0, <1>3, <2>1 DEF SeeDone, WorkLeft
<1>4. CASE DrainEmpty \/ SeeClosed
  <2>1. mode # "last" /\ LoopsLeft >= 2 /\ LoopsLeft' = 0
    BY <1>4 DEF DrainEmpty, SeeClosed, ShutdownInv, LoopsLeft, TypeOK
  <2>2. FlushLeft' = 1
    BY <1>4 DEF DrainEmpty, SeeClosed, FlushLeft
  <2>3. UNCHANGED <<ch, batch>>
    BY <1>4 DEF DrainEmpty, SeeClosed
  <2> QED  BY <1>0, <2>1, <2>2, <2>3 DEF WorkLeft
<1>5. CASE WriteEntry
  <2>1. Len(batch') = Len(batch) - 1
    BY <1>5 DEF WriteEntry, TypeOK
  <2>2. FlushLeft = 1 /\ FlushLeft' = 1 /\ LoopsLeft' = LoopsLeft /\ UNCHANGED ch
    BY <1>5 DEF WriteEntry, FlushLeft, LoopsLeft
  <2> QED  BY <1>0, <2>1, <2>2 DEF WorkLeft
<1>6. CASE EndFlush
  <2>1. FlushLeft = 1 /\ FlushLeft' = 0 /\ LoopsLeft' = LoopsLeft
    BY <1>6 DEF EndFlush, AfterFlush, FlushLeft, LoopsLeft
  <2>2. UNCHANGED <<ch, batch>>
    BY <1>6 DEF EndFlush
  <2> QED  BY <1>0, <2>1, <2>2 DEF WorkLeft
<1>7. CASE FlushFails
  <2>1. Len(batch) > 0 /\ Len(batch') = 0
    BY <1>0, <1>7 DEF FlushFails
  <2>2. FlushLeft = 1 /\ FlushLeft' = 1 /\ LoopsLeft' = LoopsLeft /\ UNCHANGED ch
    BY <1>7 DEF FlushFails, FlushLeft, LoopsLeft
  <2> QED  BY <1>0, <2>1, <2>2 DEF WorkLeft
<1> QED  BY <1>1, <1>2, <1>3, <1>4, <1>5, <1>6, <1>7 DEF Write

\* What does not send and is not the writer leaves it as much to do as before.
LEMMA OthersAddNoWork ==
  ASSUME [Next]_vars, ~Write, ~\E r \in Requests : PublishSends(r)
  PROVE  WorkLeft' = WorkLeft
<1> USE DEF handler, buffer, writer, disk, main, history
<1>1. UNCHANGED <<ch, batch, mode, wpc>>
  <2>1. ASSUME NEW r \in Requests, \/ Arrive(r) \/ Refuse(r) \/ Handle(r)
                                   \/ \E b \in Bodies : Decode(r, b)
        PROVE  UNCHANGED <<ch, batch, mode, wpc>>
    BY <2>1 DEF Arrive, Refuse, Decode, Handle, RejectInvalid, PublishFull,
                PublishPanics, CountAccepted, CountShed, Reply
  <2>2. CASE Signal \/ ServeFails \/ Stop \/ ExitForced \/ UNCHANGED vars
    BY <2>2 DEF Signal, ServeFails, Stop, BeginShutdown, ShutdownReturns,
                ShutdownExpires, Close, ExitClean, ExitForced, vars
  <2> QED  BY <2>1, <2>2 DEF Next, Terminated
<1> QED  BY <1>1 DEF WorkLeft, LoopsLeft, FlushLeft

\* A writer that is scheduled and that no handler keeps feeding gets to the end
\* of Run, for any capacity, any batch size and a store that may fail.
THEOREM WriterEnds == Spec => WriterIsBounded
<1>1. TypeOK /\ TypeOK' /\ ShutdownInv /\ BacklogInv /\ [Next]_vars
        => [/\ WorkLeft \in 0..(5 * BufferSize + 2 * BatchSize + 4)
            /\ Write => WorkLeft' < WorkLeft
            /\ (~\E r \in Requests : PublishSends(r)) => WorkLeft' <= WorkLeft]_vars
  <2> SUFFICES ASSUME TypeOK, TypeOK', ShutdownInv, BacklogInv, [Next]_vars
               PROVE  /\ WorkLeft \in 0..(5 * BufferSize + 2 * BatchSize + 4)
                      /\ Write => WorkLeft' < WorkLeft
                      /\ (~\E r \in Requests : PublishSends(r))
                           => WorkLeft' <= WorkLeft
    OBVIOUS
  <2>1. WorkLeft \in 0..(5 * BufferSize + 2 * BatchSize + 4)
    BY WorkLeftInRange
  <2>2. WorkLeft' \in Nat
    <3>1. LoopsLeft' \in Nat
      BY DEF TypeOK, LoopsLeft
    <3>2. FlushLeft' \in Nat
      BY DEF TypeOK, FlushLeft
    <3>3. Len(ch') \in Nat /\ Len(batch') \in Nat
      BY DEF TypeOK
    <3> QED  BY <3>1, <3>2, <3>3 DEF WorkLeft
  <2>3. Write => WorkLeft' < WorkLeft
    BY WriterGetsOn
  <2>4. ~Write /\ (~\E r \in Requests : PublishSends(r)) => WorkLeft' = WorkLeft
    BY OthersAddNoWork
  <2> QED  BY <2>1, <2>2, <2>3, <2>4
<1> QED  BY <1>1, TypeCorrect, ShutdownInvariant, BacklogInvariant, PTL
     DEF Spec, WriterIsBounded
=============================================================================
