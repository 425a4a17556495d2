-------------------------- MODULE IngestContract --------------------------
(***************************************************************************)
(* What the ingest hot path promises, whatever the threads inside it do:   *)
(* accepted log entries become durable one by one, in the order they were  *)
(* accepted, none twice and none skipped, and a clean exit leaves nothing  *)
(* behind that had been accepted before the shutdown signal.               *)
(*                                                                         *)
(* HotPath implements this specification (see ContractRefined there).      *)
(***************************************************************************)
EXTENDS Naturals, Sequences

CONSTANT Entry      \* the log entries a client can have accepted

VARIABLES
  accepted,   \* every entry accepted so far, oldest first
  durable,    \* the entries in the store, oldest first
  mark,       \* how many entries had been accepted when shutdown began
  phase       \* "up", "stopping", "down" (clean exit) or "killed"

vars == <<accepted, durable, mark, phase>>

Init ==
  /\ accepted = <<>>
  /\ durable = <<>>
  /\ mark = 0
  /\ phase = "up"

\* The gateway takes an entry; it goes on doing so while it shuts down.
Accept(e) ==
  /\ phase \in {"up", "stopping"}
  /\ accepted' = Append(accepted, e)
  /\ UNCHANGED <<durable, mark, phase>>

\* The oldest entry that is not durable yet becomes durable.
Persist ==
  /\ phase \in {"up", "stopping"}
  /\ Len(durable) < Len(accepted)
  /\ durable' = Append(durable, accepted[Len(durable) + 1])
  /\ UNCHANGED <<accepted, mark, phase>>

Signal ==
  /\ phase = "up"
  /\ phase' = "stopping"
  /\ mark' = Len(accepted)
  /\ UNCHANGED <<accepted, durable>>

\* A clean exit waits for everything accepted before the signal.
Exit ==
  /\ phase = "stopping"
  /\ mark <= Len(durable)
  /\ phase' = "down"
  /\ UNCHANGED <<accepted, durable, mark>>

\* The server may fail, or the shutdown timer fire first; then nothing more is
\* promised.
Kill ==
  /\ phase \in {"up", "stopping"}
  /\ phase' = "killed"
  /\ UNCHANGED <<accepted, durable, mark>>

Next ==
  \/ \E e \in Entry : Accept(e)
  \/ Persist
  \/ Signal
  \/ Exit
  \/ Kill

Spec == Init /\ [][Next]_vars

=============================================================================
