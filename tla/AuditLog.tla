------------------------------ MODULE AuditLog ------------------------------
(***************************************************************************)
(* The audit log: records chained by hashes, and the walk that looks for a *)
(* record that was altered.                                                *)
(*                                                                         *)
(*   src/internal/audit/audit.go   Append, Verify, Head, hashRecord        *)
(*                                                                         *)
(* A digest is what went into it, all the way down: the sequence of the    *)
(* lines hashed so far. That takes SHA-256 to be injective. The line is    *)
(* not: hashRecord joins the fields with '|' and does not escape one that  *)
(* occurs in a field. A text is therefore the sequence of its pieces       *)
(* between separators, one if there is no separator in it, and joining     *)
(* texts is joining those sequences.                                       *)
(*                                                                         *)
(* Every operation holds the mutex of the log throughout, hence is one     *)
(* step. What happens to the records outside the program, as in the tests, *)
(* is the action Alter.                                                    *)
(***************************************************************************)
EXTENDS Integers, Sequences

CONSTANTS
  Contents,     \* what a record is about
  Pieces,       \* what stands between two separators in a text
  Fields,       \* tenant, actor, action, resource and time of each content
  MaxRecords    \* bound on the appends

Texts == Seq(Pieces)

ASSUME AuditLogAssumption ==
  /\ Fields \in [Contents -> [tenant : Texts, actor : Texts, action : Texts,
                             resource : Texts, at : Nat]]
  /\ MaxRecords \in Nat

\* A line has no separator in its number and its time, nor in the hash before it,
\* so these stand apart from the texts.
Lines   == Nat \X Texts \X Nat
Digests == Seq(Lines)
Records == [seq : Nat \ {0}, content : Contents, prevHash : Digests, hash : Digests]

VARIABLES
  records,    \* Log.records
  lastHash,   \* Log.lastHash
  seq,        \* Log.seq
  written     \* history: the records as Append returned them

vars == <<records, lastHash, seq, written>>

genesis == <<>>

\* The texts of a content one after the other.
Joined(c) ==
  Fields[c].tenant \o Fields[c].actor \o Fields[c].action \o Fields[c].resource

LineOf(s, c) == <<s, Joined(c), Fields[c].at>>

\* Faulty: the previous hash is left out.
hashContent(s, c, prev) == <<LineOf(s, c)>>
hashRecord(s, c, prev) == Append(prev, LineOf(s, c))

\* What the program records: the names of tenants and actors, from main's table,
\* and of actions, from rbac, hold no separator. A resource is a client's text.
Plain(c) ==
  /\ Len(Fields[c].tenant) = 1
  /\ Len(Fields[c].actor) = 1
  /\ Len(Fields[c].action) = 1

Chained(s, c, prev) ==
  [seq |-> s, content |-> c, prevHash |-> prev, hash |-> hashRecord(s, c, prev)]

Init ==
  /\ records = <<>>
  /\ lastHash = genesis
  /\ seq = 0
  /\ written = <<>>

\* Faulty: the record gets the number of its predecessor.
StaleSeq == seq
NextSeq == seq + 1

AppendRecord(c) ==
  LET r == Chained(NextSeq, c, lastHash) IN
  /\ seq' = seq + 1
  /\ lastHash' = r.hash
  /\ records' = Append(records, r)
  /\ written' = Append(written, r)

-----------------------------------------------------------------------------
(* Verify *)

\* Faulty: the walk does not move on to the hash of the record.
PrevOfPrev(rs, i) == IF i = 1 THEN genesis ELSE rs[i - 1].prevHash
PrevOf(rs, i) == IF i = 1 THEN genesis ELSE rs[i - 1].hash

Sound(rs, i) ==
  /\ rs[i].prevHash = PrevOf(rs, i)
  /\ rs[i].hash = hashRecord(rs[i].seq, rs[i].content, rs[i].prevHash)

\* Verify answers true if all records are sound, else names the first that is not.
Verified(rs) == \A i \in 1..Len(rs) : Sound(rs, i)
Blamed(rs, i) == ~Sound(rs, i) /\ \A j \in 1..(i - 1) : Sound(rs, j)

\* The hash at the end of the chain, which an anchored Head is compared with.
HeadOf(rs) == IF rs = <<>> THEN genesis ELSE rs[Len(rs)].hash

-----------------------------------------------------------------------------
(* Alterations. Together they can rewrite a chain from any record on, with   *)
(* all hashes made to fit.                                                   *)

Change(i, c) == records' = [records EXCEPT ![i].content = c]

Refit(i) ==
  records' = [records EXCEPT ![i] = Chained(@.seq, @.content, PrevOf(records, i))]

Remove(i) ==
  records' = SubSeq(records, 1, i - 1) \o SubSeq(records, i + 1, Len(records))

Alter ==
  /\ \E i \in 1..Len(records) :
       (\E c \in Contents : Change(i, c)) \/ Refit(i) \/ Remove(i)
  /\ UNCHANGED <<lastHash, seq, written>>

\* The bound is reached.
Terminated == Len(written) = MaxRecords /\ UNCHANGED vars

Next ==
  \/ \E c \in Contents : Plain(c) /\ Len(written) < MaxRecords /\ AppendRecord(c)
  \/ Alter
  \/ Terminated

Spec == Init /\ [][Next]_vars

-----------------------------------------------------------------------------
(* Properties *)

TypeOK ==
  /\ records \in Seq(Records)
  /\ lastHash \in Digests
  /\ seq \in Nat
  /\ written \in Seq(Records)

\* Record r is w, as far as the hash can tell: the joined texts are the same, and
\* so is each text if those of r have their separators where w has.
Reads(r, w) ==
  /\ r.seq = w.seq /\ r.prevHash = w.prevHash /\ r.hash = w.hash
  /\ Fields[r.content].at = Fields[w.content].at
  /\ Joined(r.content) = Joined(w.content)
  /\ Plain(r.content) => Fields[r.content] = Fields[w.content]

\* Whatever is done to the records, a chain that verifies and ends in the hash
\* that Head returned reads as it was written, to the last record. As Append
\* chains to that hash, Verify alone finds any alteration older than the last
\* Append, also one that made all hashes fit or cut the tail. What it cannot find
\* is text moved between two fields of a record together with the separator: that
\* leaves a tenant, an actor or an action such as no written record has.
AlterationFound ==
  Verified(records) /\ HeadOf(records) = lastHash =>
    /\ Len(records) = Len(written)
    /\ \A i \in 1..Len(records) : Reads(records[i], written[i])

\* Verify blames no record unless it or one before it was altered, and what it
\* passed over before it either reads as written or has another hash.
BlameIsEarned ==
  \A i \in 1..Len(records) : Blamed(records, i) =>
    /\ \E d \in 1..i : ~(d <= Len(written) /\ records[d] = written[d])
    /\ \A d \in 1..(i - 1) :
         d <= Len(written) /\ records[d].hash = written[d].hash
           => Reads(records[d], written[d])

\* "Modifying or removing a record in the middle breaks every hash after it, so
\* Verify() detects it immediately" (audit.go): before the last record of a chain
\* that verifies and ends in the hash of Head, no record was touched.
MiddleChangesFound ==
  Verified(records) /\ HeadOf(records) = lastHash =>
    \A i \in 1..(Len(records) - 1) : i <= Len(written) /\ records[i] = written[i]
=============================================================================
