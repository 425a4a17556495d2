--------------------------- MODULE AuditLogProofs ---------------------------
(***************************************************************************)
(* Proofs about AuditLog, for every set of contents, separators in any     *)
(* field of an altered record and in any resource, and any number of       *)
(* records and alterations.                                                *)
(***************************************************************************)
EXTENDS AuditLog, FiniteSetTheorems, SequenceTheorems, TLAPS

-----------------------------------------------------------------------------
(* The first of several positions *)

LEMMA FirstOf ==
  ASSUME NEW n \in Nat, NEW T \in SUBSET (1..n), T # {}
  PROVE  \E m \in T : \A k \in T : m <= k
<1> DEFINE Below(m) == {k \in 1..n : k < m}
           F == {Below(m) : m \in T}
           R == StrictSubsetOrdering(1..n)
<1>1. F \subseteq FiniteSubsetsOf(1..n)
  <2>1. \A m \in T : Below(m) \in SUBSET (1..n)
    OBVIOUS
  <2>2. IsFiniteSet(1..n)
    BY FS_Interval
  <2>3. \A m \in T : IsFiniteSet(Below(m))
    BY <2>1, <2>2, FS_Subset
  <2> QED  BY <2>1, <2>3 DEF FiniteSubsetsOf
<1>2. F # {}
  OBVIOUS
<1>3. IsWellFoundedOn(R, FiniteSubsetsOf(1..n))
  BY FS_StrictSubsetOrderingWellFounded
<1>4. ASSUME NEW m \in T, NEW k \in T, k < m
      PROVE  <<Below(k), Below(m)>> \in R
  <2>1. k \in Below(m) /\ k \notin Below(k)
    BY <1>4
  <2>2. Below(k) \subseteq Below(m)
    BY <1>4
  <2> QED  BY <2>1, <2>2 DEF StrictSubsetOrdering
<1> HIDE DEF R
<1>5. PICK X \in F : \A Y \in F : ~(<<Y, X>> \in R)
  <2> HIDE DEF F
  <2> QED  BY <1>1, <1>2, <1>3, WFMin, Zenon
<1>6. PICK m \in T : X = Below(m)
  OBVIOUS
<1>7. \A k \in T : ~(k < m)
  BY <1>4, <1>5, <1>6
<1>8. \A k \in T : k \in Int /\ m \in Int
  OBVIOUS
<1> QED  BY <1>7, <1>8

-----------------------------------------------------------------------------
(* Digests and sound chains *)

\* The fields of a record.
LEMMA RecordFields ==
  ASSUME NEW r \in Records
  PROVE  /\ r.seq \in Nat \ {0} /\ r.content \in Contents
         /\ r.prevHash \in Digests /\ r.hash \in Digests
  BY DEF Records

\* What is hashed of a content.
LEMMA LineType ==
  ASSUME NEW s \in Nat, NEW c \in Contents
  PROVE  /\ LineOf(s, c) = <<s, Joined(c), Fields[c].at>>
         /\ LineOf(s, c) \in Lines
         /\ Joined(c) \in Texts /\ Fields[c].at \in Nat
<1>1. Fields[c] \in [tenant : Texts, actor : Texts, action : Texts, resource : Texts,
                     at : Nat]
  BY AuditLogAssumption
<1>2. PICK t \in Texts, a \in Texts, x \in Texts, r \in Texts :
        /\ t = Fields[c].tenant /\ a = Fields[c].actor
        /\ x = Fields[c].action /\ r = Fields[c].resource
  BY <1>1
<1>3. t \o a \o x \o r \in Texts
  BY DEF Texts
<1>4. Joined(c) \in Texts /\ Fields[c].at \in Nat
  BY <1>1, <1>2, <1>3 DEF Joined
<1> QED  BY <1>4 DEF LineOf, Lines

LEMMA LineInjective ==
  ASSUME NEW s \in Nat, NEW c \in Contents, NEW t \in Nat, NEW d \in Contents,
         LineOf(s, c) = LineOf(t, d)
  PROVE  s = t /\ Joined(c) = Joined(d) /\ Fields[c].at = Fields[d].at
  BY DEF LineOf

\* Two sequences joined, position by position.
LEMMA JoinedAt ==
  ASSUME NEW p \in Seq(Pieces), NEW q \in Seq(Pieces)
  PROVE  /\ p \o q \in Seq(Pieces) /\ Len(p \o q) = Len(p) + Len(q)
         /\ \A i \in 1..Len(p) : (p \o q)[i] = p[i]
         /\ \A i \in 1..Len(q) : (p \o q)[Len(p) + i] = q[i]
<1>1. PICK n \in Nat, m \in Nat : n = Len(p) /\ m = Len(q)
  OBVIOUS
<1>2. /\ p \o q \in Seq(Pieces) /\ Len(p \o q) = Len(p) + Len(q)
      /\ \A i \in 1..(Len(p) + Len(q)) :
           (p \o q)[i] = IF i <= Len(p) THEN p[i] ELSE q[i - Len(p)]
  BY ConcatProperties, Zenon
<1>3. PICK w : w = p \o q
  OBVIOUS
<1>4. \A i \in 1..(n + m) : w[i] = IF i <= n THEN p[i] ELSE q[i - n]
  BY <1>1, <1>2, <1>3, Zenon
<1>5. ASSUME NEW i \in 1..n
      PROVE  w[i] = p[i]
  <2>1. i \in 1..(n + m) /\ i <= n
    OBVIOUS
  <2> QED  BY <1>4, <2>1
<1>6. ASSUME NEW i \in 1..m
      PROVE  w[n + i] = q[i]
  <2>1. n + i \in 1..(n + m) /\ ~(n + i <= n) /\ (n + i) - n = i
    OBVIOUS
  <2>2. w[n + i] = q[(n + i) - n]
    BY <1>4, <2>1
  <2> QED  BY <2>1, <2>2
<1> QED  BY <1>1, <1>2, <1>3, <1>5, <1>6, Zenon

\* Where tenant, actor and action are without a separator, joining them hides
\* nothing: they are the first three pieces, and the resource is the rest.
Apart(t, a, x, r) ==
  LET j == t \o a \o x \o r IN
  /\ t = <<j[1]>> /\ a = <<j[2]>> /\ x = <<j[3]>>
  /\ r = SubSeq(j, 4, Len(j))

LEMMA FieldsTakenApart ==
  ASSUME NEW t \in Seq(Pieces), NEW a \in Seq(Pieces), NEW x \in Seq(Pieces),
         NEW r \in Seq(Pieces), Len(t) = 1, Len(a) = 1, Len(x) = 1
  PROVE  Apart(t, a, x, r)
<1>1. PICK m \in Nat : m = Len(r)
  OBVIOUS
<1>2. PICK u : u = t \o a
  OBVIOUS
<1>3. u \in Seq(Pieces) /\ Len(u) = 2 /\ u[1] = t[1] /\ u[2] = a[1]
  <2>1. /\ t \o a \in Seq(Pieces) /\ Len(t \o a) = Len(t) + Len(a)
        /\ \A i \in 1..Len(t) : (t \o a)[i] = t[i]
        /\ \A i \in 1..Len(a) : (t \o a)[Len(t) + i] = a[i]
    BY JoinedAt, Zenon
  <2>2. /\ u \in Seq(Pieces) /\ Len(u) = 1 + 1
        /\ \A i \in 1..1 : u[i] = t[i]
        /\ \A i \in 1..1 : u[1 + i] = a[i]
    BY <1>2, <2>1, Zenon
  <2> QED  BY <2>2
<1>4. PICK v : v = u \o x
  OBVIOUS
<1>5. v \in Seq(Pieces) /\ Len(v) = 3 /\ v[1] = t[1] /\ v[2] = a[1] /\ v[3] = x[1]
  <2>1. /\ u \o x \in Seq(Pieces) /\ Len(u \o x) = Len(u) + Len(x)
        /\ \A i \in 1..Len(u) : (u \o x)[i] = u[i]
        /\ \A i \in 1..Len(x) : (u \o x)[Len(u) + i] = x[i]
    BY <1>3, JoinedAt, Zenon
  <2>2. /\ v \in Seq(Pieces) /\ Len(v) = 2 + 1
        /\ \A i \in 1..2 : v[i] = u[i]
        /\ \A i \in 1..1 : v[2 + i] = x[i]
    BY <1>3, <1>4, <2>1, Zenon
  <2> QED  BY <1>3, <2>2
<1>6. PICK j : j = v \o r
  OBVIOUS
<1>7. /\ j \in Seq(Pieces) /\ Len(j) = 3 + m
      /\ \A i \in 1..m : j[3 + i] = r[i]
      /\ j[1] = t[1] /\ j[2] = a[1] /\ j[3] = x[1]
  <2>1. /\ v \o r \in Seq(Pieces) /\ Len(v \o r) = Len(v) + Len(r)
        /\ \A i \in 1..Len(v) : (v \o r)[i] = v[i]
        /\ \A i \in 1..Len(r) : (v \o r)[Len(v) + i] = r[i]
    BY <1>5, JoinedAt, Zenon
  <2>2. /\ j \in Seq(Pieces) /\ Len(j) = 3 + m
        /\ \A i \in 1..3 : j[i] = v[i]
        /\ \A i \in 1..m : j[3 + i] = r[i]
    BY <1>1, <1>5, <1>6, <2>1, Zenon
  <2> QED  BY <1>5, <2>2
<1>8. t = <<t[1]>> /\ a = <<a[1]>> /\ x = <<x[1]>>
  OBVIOUS
<1>9. SubSeq(j, 4, Len(j)) = r
  <2>1. SubSeq(j, 4, Len(j)) \in Seq(Pieces) /\ Len(SubSeq(j, 4, Len(j))) = m
    BY <1>1, <1>7
  <2>2. \A i \in 1..m : SubSeq(j, 4, Len(j))[i] = j[3 + i]
    BY <1>1, <1>7
  <2> QED  BY <1>1, <1>7, <2>1, <2>2, SeqEqual
<1>10. t \o a \o x \o r = j
  BY <1>2, <1>4, <1>6, Zenon
<1>11. t = <<j[1]>> /\ a = <<j[2]>> /\ x = <<j[3]>> /\ r = SubSeq(j, 4, Len(j))
  BY <1>7, <1>8, <1>9
<1> QED  BY <1>10, <1>11, Zenon DEF Apart

LEMMA PlainTellsFields ==
  ASSUME NEW c \in Contents, NEW d \in Contents, Plain(c), Plain(d),
         Joined(c) = Joined(d), Fields[c].at = Fields[d].at
  PROVE  Fields[c] = Fields[d]
<1> DEFINE Types == [tenant : Texts, actor : Texts, action : Texts, resource : Texts,
                     at : Nat]
           Part(f, j) == /\ f.tenant = <<j[1]>> /\ f.actor = <<j[2]>>
                         /\ f.action = <<j[3]>> /\ f.resource = SubSeq(j, 4, Len(j))
<1>1. Fields[c] \in Types /\ Fields[d] \in Types
  BY AuditLogAssumption
<1>2. ASSUME NEW e \in Contents, Plain(e)
      PROVE  Part(Fields[e], Joined(e))
  <2>1. Fields[e] \in Types
    BY AuditLogAssumption
  <2>2. PICK t \in Texts, a \in Texts, x \in Texts, r \in Texts :
          /\ t = Fields[e].tenant /\ a = Fields[e].actor
          /\ x = Fields[e].action /\ r = Fields[e].resource
    BY <2>1
  <2>3. Len(t) = 1 /\ Len(a) = 1 /\ Len(x) = 1
    BY <1>2, <2>2 DEF Plain
  <2>4. t \in Seq(Pieces) /\ a \in Seq(Pieces) /\ x \in Seq(Pieces) /\ r \in Seq(Pieces)
    BY DEF Texts
  <2>5. Apart(t, a, x, r)
    BY <2>3, <2>4, FieldsTakenApart, Zenon
  <2>6. Joined(e) = t \o a \o x \o r
    BY <2>2, Zenon DEF Joined
  <2> QED  BY <2>2, <2>5, <2>6, Zenon DEF Apart
<1>3. Part(Fields[c], Joined(c)) /\ Part(Fields[d], Joined(c))
  BY <1>2
<1>4. /\ Fields[c].tenant = Fields[d].tenant /\ Fields[c].actor = Fields[d].actor
      /\ Fields[c].action = Fields[d].action /\ Fields[c].resource = Fields[d].resource
  BY <1>3
<1> QED  BY <1>1, <1>4

\* What Append adds to a digest, and that it can be taken apart again.
LEMMA HashType ==
  ASSUME NEW s \in Nat, NEW c \in Contents, NEW p \in Digests
  PROVE  /\ hashRecord(s, c, p) \in Digests
         /\ Len(hashRecord(s, c, p)) = Len(p) + 1
         /\ hashRecord(s, c, p)[Len(p) + 1] = LineOf(s, c)
         /\ \A j \in 1..Len(p) : hashRecord(s, c, p)[j] = p[j]
         /\ Len(p) \in Nat
<1>1. p \in Seq(Lines) /\ LineOf(s, c) \in Lines
  BY LineType DEF Digests
<1> QED  BY <1>1 DEF hashRecord, Digests

LEMMA HashTellsLine ==
  ASSUME NEW s \in Nat, NEW c \in Contents, NEW p \in Digests,
         NEW t \in Nat, NEW d \in Contents, NEW q \in Digests,
         hashRecord(s, c, p) = hashRecord(t, d, q)
  PROVE  LineOf(s, c) = LineOf(t, d) /\ p = q
  BY LineType, AppendInjective DEF hashRecord, Digests

\* A sound chain up to n: the digest at i holds what went into records 1..i.
Spells(rs, i) ==
  /\ Len(rs[i].hash) = i
  /\ \A j \in 1..i : rs[i].hash[j] = LineOf(rs[j].seq, rs[j].content)

LEMMA DigestsSpell ==
  ASSUME NEW rs \in Seq(Records), Verified(rs)
  PROVE  \A i \in 1..Len(rs) : Spells(rs, i)
<1> SUFFICES ASSUME NEW b \in 1..Len(rs), ~Spells(rs, b)
             PROVE  FALSE
  OBVIOUS
<1> DEFINE T == {i \in 1..Len(rs) : ~Spells(rs, i)}
<1>1. Len(rs) \in Nat /\ T \in SUBSET (1..Len(rs)) /\ T # {}
  OBVIOUS
<1>2. PICK m \in T : \A k \in T : m <= k
  <2> HIDE DEF T
  <2> QED  BY <1>1, FirstOf
<1>3. m \in 1..Len(rs) /\ ~Spells(rs, m)
  OBVIOUS
<1>4. \A i \in 1..(m - 1) : Spells(rs, i)
  BY <1>1, <1>2, <1>3
<1> HIDE DEF T
<1>5. rs[m] \in Records /\ Sound(rs, m)
  BY <1>3 DEF Verified
<1>6. /\ rs[m].seq \in Nat /\ rs[m].content \in Contents /\ rs[m].prevHash \in Digests
      /\ rs[m].hash = hashRecord(rs[m].seq, rs[m].content, rs[m].prevHash)
  BY <1>5 DEF Records, Sound
<1>7. PICK p \in Digests, x \in Digests :
        /\ p = rs[m].prevHash /\ x = rs[m].hash
        /\ Len(x) = Len(p) + 1 /\ x[Len(p) + 1] = LineOf(rs[m].seq, rs[m].content)
        /\ \A j \in 1..Len(p) : x[j] = p[j]
  <2>1. PICK s \in Nat, c \in Contents, p \in Digests :
          s = rs[m].seq /\ c = rs[m].content /\ p = rs[m].prevHash
    BY <1>6
  <2>2. PICK x : x = hashRecord(s, c, p)
    OBVIOUS
  <2>3. /\ x \in Digests /\ Len(x) = Len(p) + 1 /\ x[Len(p) + 1] = LineOf(s, c)
        /\ \A j \in 1..Len(p) : x[j] = p[j]
    BY <2>2, HashType
  <2>4. rs[m].hash = x
    BY <1>6, <2>1, <2>2
  <2> QED  BY <2>1, <2>3, <2>4
<1>8. CASE m = 1
  <2>1. p = <<>>
    BY <1>5, <1>8, <1>7 DEF Sound, PrevOf, genesis
  <2>2. Len(p) = 0
    BY <2>1
  <2>3. Len(x) = 1 /\ x[1] = LineOf(rs[m].seq, rs[m].content)
    BY <1>7, <2>2
  <2> QED  BY <1>3, <1>8, <1>7, <2>3 DEF Spells
<1>9. CASE m # 1
  <2>1. rs[m].prevHash = rs[m - 1].hash /\ m - 1 \in 1..(m - 1)
    BY <1>3, <1>5, <1>9 DEF Sound, PrevOf
  <2>2. /\ Len(rs[m].prevHash) = m - 1
        /\ \A j \in 1..(m - 1) : rs[m].prevHash[j] = LineOf(rs[j].seq, rs[j].content)
    BY <1>4, <2>1 DEF Spells
  <2>3. /\ Len(rs[m].hash) = m
        /\ rs[m].hash[m] = LineOf(rs[m].seq, rs[m].content)
        /\ \A j \in 1..(m - 1) : rs[m].hash[j] = rs[m].prevHash[j]
    <3>1. (m - 1) + 1 = m /\ Len(p) = m - 1
      BY <1>3, <1>7, <2>2
    <3> QED  BY <1>7, <3>1
  <2> QED  BY <1>3, <2>2, <2>3 DEF Spells
<1> QED  BY <1>8, <1>9

\* Two chains that verify and end in the same hash have the same length, and record
\* for record the same line and the same hashes.
SameLine(r, q) ==
  /\ LineOf(r.seq, r.content) = LineOf(q.seq, q.content)
  /\ r.prevHash = q.prevHash /\ r.hash = q.hash

LEMMA HeadDetermines ==
  ASSUME NEW rs \in Seq(Records), NEW qs \in Seq(Records),
         Verified(rs), Verified(qs), HeadOf(rs) = HeadOf(qs)
  PROVE  /\ Len(rs) = Len(qs)
         /\ \A i \in 1..Len(rs) : SameLine(rs[i], qs[i])
<1>1. Len(rs) \in Nat /\ Len(qs) \in Nat
  OBVIOUS
<1>2. ASSUME NEW xs \in Seq(Records), Verified(xs)
      PROVE  Len(HeadOf(xs)) = Len(xs)
  <2>1. CASE xs = <<>>
    BY <2>1 DEF HeadOf, genesis
  <2>2. CASE xs # <<>>
    <3>1. Len(xs) \in 1..Len(xs)
      BY <2>2
    <3> QED  BY <1>2, <2>2, <3>1, DigestsSpell DEF HeadOf, Spells
  <2> QED  BY <2>1, <2>2
<1>3. Len(rs) = Len(qs)
  BY <1>2
<1>4. CASE Len(rs) = 0
  BY <1>3, <1>4
<1>5. CASE Len(rs) > 0
  <2>0. rs # <<>> /\ qs # <<>>
    BY <1>3, <1>5
  <2>1. rs[Len(rs)].hash = qs[Len(rs)].hash
    BY <1>3, <2>0 DEF HeadOf
  <2>2. Spells(rs, Len(rs)) /\ Spells(qs, Len(rs))
    BY <1>1, <1>3, <1>5, DigestsSpell
  <2>3. \A j \in 1..Len(rs) :
          LineOf(rs[j].seq, rs[j].content) = LineOf(qs[j].seq, qs[j].content)
    BY <2>1, <2>2 DEF Spells
  <2>4. ASSUME NEW i \in 1..Len(rs)
        PROVE  rs[i].hash = qs[i].hash
    <3>1. Spells(rs, i) /\ Spells(qs, i)
      BY <1>3, DigestsSpell
    <3>2. rs[i].hash \in Digests /\ qs[i].hash \in Digests
      <4>1. rs[i] \in Records /\ qs[i] \in Records
        BY <1>3
      <4> QED  BY <4>1, RecordFields
    <3>3. /\ Len(rs[i].hash) = i /\ Len(qs[i].hash) = i
          /\ \A j \in 1..i : rs[i].hash[j] = qs[i].hash[j]
      <4>1. i \in Int /\ \A j \in 1..i : j \in 1..Len(rs)
        BY <1>1
      <4> QED  BY <2>3, <3>1, <4>1 DEF Spells
    <3> QED  BY <3>2, <3>3, SeqEqual DEF Digests
  <2>5. ASSUME NEW i \in 1..Len(rs)
        PROVE  rs[i].prevHash = qs[i].prevHash
    <3>1. rs[i].prevHash = PrevOf(rs, i) /\ qs[i].prevHash = PrevOf(qs, i)
      BY <1>3 DEF Verified, Sound
    <3>2. CASE i = 1
      BY <3>1, <3>2 DEF PrevOf
    <3>3. CASE i # 1
      <4>1. i - 1 \in 1..Len(rs)
        BY <1>1, <3>3
      <4> QED  BY <2>4, <3>1, <3>3, <4>1 DEF PrevOf
    <3> QED  BY <3>2, <3>3
  <2> QED  BY <1>3, <2>3, <2>4, <2>5 DEF SameLine
<1> QED  BY <1>1, <1>4, <1>5

\* A record that cannot be told by its hash from a plain one reads as that one.
LEMMA SameLineReads ==
  ASSUME NEW r \in Records, NEW w \in Records, SameLine(r, w), Plain(w.content)
  PROVE  Reads(r, w)
<1>1. /\ r.seq \in Nat /\ w.seq \in Nat
      /\ r.content \in Contents /\ w.content \in Contents
  BY RecordFields
<1>2. /\ r.seq = w.seq /\ Joined(r.content) = Joined(w.content)
      /\ Fields[r.content].at = Fields[w.content].at
  BY <1>1, LineInjective DEF SameLine
<1>3. Plain(r.content) => Fields[r.content] = Fields[w.content]
  BY <1>1, <1>2, PlainTellsFields
<1> QED  BY <1>2, <1>3 DEF SameLine, Reads

-----------------------------------------------------------------------------
(* What was written is a sound chain that ends in the last hash *)

WrittenInv ==
  /\ Verified(written)
  /\ lastHash = HeadOf(written)
  /\ \A i \in 1..Len(written) : Plain(written[i].content)

LEMMA ChainedType ==
  ASSUME NEW s \in Nat \ {0}, NEW c \in Contents, NEW p \in Digests
  PROVE  Chained(s, c, p) \in Records
  BY HashType DEF Chained, Records

\* A sound chain extended by a record chained to its head.
LEMMA ExtendVerified ==
  ASSUME NEW rs \in Seq(Records), Verified(rs),
         NEW s \in Nat \ {0}, NEW c \in Contents, HeadOf(rs) \in Digests
  PROVE  /\ Verified(Append(rs, Chained(s, c, HeadOf(rs))))
         /\ HeadOf(Append(rs, Chained(s, c, HeadOf(rs)))) =
              Chained(s, c, HeadOf(rs)).hash
<1> DEFINE r == Chained(s, c, HeadOf(rs))
           t == Append(rs, r)
<1>1. /\ r.seq = s /\ r.content = c /\ r.prevHash = HeadOf(rs)
      /\ r.hash = hashRecord(s, c, HeadOf(rs))
  BY DEF Chained
<1>2. r \in Records
  BY ChainedType
<1> HIDE DEF r
<1>3. /\ Len(t) = Len(rs) + 1 /\ Len(rs) \in Nat /\ t # <<>>
      /\ t[Len(rs) + 1] = r /\ \A i \in 1..Len(rs) : t[i] = rs[i]
  BY <1>2
<1> HIDE DEF t
<1>4. ASSUME NEW i \in 1..Len(t)
      PROVE  Sound(t, i)
  <2>1. CASE i \in 1..Len(rs)
    <3>1. t[i] = rs[i] /\ Sound(rs, i)
      BY <1>3, <2>1 DEF Verified
    <3>2. PrevOf(t, i) = PrevOf(rs, i)
      <4>1. i # 1 => i - 1 \in 1..Len(rs)
        BY <1>3, <2>1
      <4> QED  BY <1>3, <4>1 DEF PrevOf
    <3> QED  BY <3>1, <3>2 DEF Sound
  <2>2. CASE i = Len(rs) + 1
    <3>1. PrevOf(t, i) = HeadOf(rs)
      <4>1. CASE Len(rs) = 0
        BY <2>2, <4>1 DEF PrevOf, HeadOf
      <4>2. CASE Len(rs) > 0
        <5>1. rs # <<>> /\ i - 1 = Len(rs) /\ i # 1 /\ Len(rs) \in 1..Len(rs)
          BY <1>3, <2>2, <4>2
        <5> QED  BY <1>3, <5>1 DEF PrevOf, HeadOf
      <4> QED  BY <1>3, <4>1, <4>2
    <3> QED  BY <1>1, <1>3, <2>2, <3>1 DEF Sound
  <2> QED  BY <1>3, <2>1, <2>2
<1>5. Verified(t)
  BY <1>4 DEF Verified
<1>6. HeadOf(t) = r.hash
  BY <1>3 DEF HeadOf
<1> QED  BY <1>5, <1>6 DEF t, r

\* An alteration leaves a sequence of records.
LEMMA AlterType ==
  ASSUME TypeOK, Alter
  PROVE  records' \in Seq(Records)
<1> PICK i \in 1..Len(records) :
      (\E c \in Contents : Change(i, c)) \/ Refit(i) \/ Remove(i)
  BY DEF Alter
<1>1. records \in Seq(Records) /\ records[i] \in Records /\ Len(records) \in Nat
  BY DEF TypeOK
<1>2. ASSUME NEW r \in Records, records' = [records EXCEPT ![i] = r]
      PROVE  records' \in Seq(Records)
  BY <1>1, <1>2
<1>3. ASSUME NEW c \in Contents, Change(i, c)
      PROVE  records' \in Seq(Records)
  <2> DEFINE r == [records[i] EXCEPT !.content = c]
  <2>1. r \in Records
    BY <1>1 DEF Records
  <2>2. records' = [records EXCEPT ![i] = r]
    BY <1>3 DEF Change
  <2> QED  BY <1>2, <2>1, <2>2
<1>4. CASE Refit(i)
  <2>1. PrevOf(records, i) \in Digests
    <3>1. CASE i = 1
      BY <3>1 DEF PrevOf, genesis, Digests
    <3>2. CASE i # 1
      <4>1. i - 1 \in 1..Len(records)
        BY <1>1, <3>2
      <4>2. records[i - 1] \in Records
        BY <1>1, <4>1
      <4> QED  BY <3>2, <4>2 DEF PrevOf, Records
    <3> QED  BY <3>1, <3>2
  <2> DEFINE r == Chained(records[i].seq, records[i].content, PrevOf(records, i))
  <2>2. r \in Records
    BY <1>1, <2>1, ChainedType DEF Records
  <2>3. records' = [records EXCEPT ![i] = r]
    BY <1>4 DEF Refit
  <2> QED  BY <1>2, <2>2, <2>3
<1>5. CASE Remove(i)
  <2>1. /\ SubSeq(records, 1, i - 1) \in Seq(Records)
        /\ SubSeq(records, i + 1, Len(records)) \in Seq(Records)
    BY <1>1
  <2> QED  BY <1>5, <2>1 DEF Remove
<1> QED  BY <1>3, <1>4, <1>5

\* Every variable keeps its type, and the program's own chain is always sound.
THEOREM TypeCorrect == Spec => [](TypeOK /\ WrittenInv)
<1>1. Init => TypeOK /\ WrittenInv
  BY DEF Init, TypeOK, WrittenInv, Verified, HeadOf, genesis, Digests
<1>2. TypeOK /\ WrittenInv /\ [Next]_vars => (TypeOK /\ WrittenInv)'
  <2> SUFFICES ASSUME TypeOK, WrittenInv, [Next]_vars
               PROVE  TypeOK' /\ WrittenInv'
    OBVIOUS
  <2>1. ASSUME NEW c \in Contents, Plain(c), AppendRecord(c)
        PROVE  TypeOK' /\ WrittenInv'
    <3> DEFINE r == Chained(seq + 1, c, lastHash)
    <3>1. seq + 1 \in Nat \ {0}
      BY DEF TypeOK
    <3>2. r \in Records /\ r.hash \in Digests
      <4>1. r \in Records
        BY <3>1, ChainedType DEF TypeOK
      <4> HIDE DEF r
      <4> QED  BY <4>1 DEF Records
    <3>3. /\ seq' = seq + 1 /\ lastHash' = r.hash
          /\ records' = Append(records, r) /\ written' = Append(written, r)
      BY <2>1 DEF AppendRecord, NextSeq
    <3>4. Verified(written') /\ HeadOf(written') = lastHash'
      BY <3>1, <3>3, ExtendVerified DEF TypeOK, WrittenInv
    <3>5. r.content = c
      BY DEF Chained
    <3> HIDE DEF r
    <3>6. records' \in Seq(Records) /\ written' \in Seq(Records)
      BY <3>2, <3>3 DEF TypeOK
    <3>7. \A i \in 1..Len(written') : Plain(written'[i].content)
      <4>1. PICK n \in Nat : n = Len(written)
        BY DEF TypeOK
      <4>2. /\ Len(written') = n + 1 /\ written'[n + 1] = r
            /\ \A i \in 1..n : written'[i] = written[i]
        BY <3>2, <3>3, <4>1 DEF TypeOK
      <4> QED  BY <2>1, <3>5, <4>1, <4>2 DEF WrittenInv
    <3> QED  BY <3>1, <3>2, <3>3, <3>4, <3>6, <3>7 DEF TypeOK, WrittenInv
  <2>2. CASE Alter
    <3>1. records' \in Seq(Records)
      BY <2>2, AlterType
    <3> QED  BY <2>2, <3>1 DEF Alter, TypeOK, WrittenInv
  <2>3. CASE UNCHANGED vars
    BY <2>3 DEF vars, TypeOK, WrittenInv
  <2> QED  BY <2>1, <2>2, <2>3 DEF Next, Terminated
<1> QED  BY <1>1, <1>2, PTL DEF Spec

\* Verify together with an anchored head finds every alteration but a separator
\* moved into a field that is written without one.
THEOREM AlterationsAreFound == Spec => []AlterationFound
<1>1. TypeOK /\ WrittenInv => AlterationFound
  <2> SUFFICES ASSUME TypeOK, WrittenInv, Verified(records), HeadOf(records) = lastHash
               PROVE  /\ Len(records) = Len(written)
                      /\ \A i \in 1..Len(records) : Reads(records[i], written[i])
    BY DEF AlterationFound
  <2>1. /\ Len(records) = Len(written)
        /\ \A i \in 1..Len(records) : SameLine(records[i], written[i])
    BY HeadDetermines DEF TypeOK, WrittenInv
  <2>2. ASSUME NEW i \in 1..Len(records)
        PROVE  Reads(records[i], written[i])
    <3>1. records[i] \in Records /\ written[i] \in Records /\ Plain(written[i].content)
      BY <2>1 DEF TypeOK, WrittenInv
    <3> QED  BY <2>1, <3>1, SameLineReads
  <2> QED  BY <2>1, <2>2
<1> QED  BY <1>1, TypeCorrect, PTL

\* Verify does not blame a record for nothing.
THEOREM BlamesAreEarned == Spec => []BlameIsEarned
<1>1. TypeOK /\ WrittenInv => BlameIsEarned
  <2> DEFINE AsWritten(d) == d <= Len(written) /\ records[d] = written[d]
  <2> SUFFICES ASSUME TypeOK, WrittenInv,
                      NEW i \in 1..Len(records), Blamed(records, i)
               PROVE  /\ \E d \in 1..i : ~AsWritten(d)
                      /\ \A d \in 1..(i - 1) :
                           d <= Len(written) /\ records[d].hash = written[d].hash
                             => Reads(records[d], written[d])
    BY DEF BlameIsEarned
  <2>0. Len(records) \in Nat /\ Len(written) \in Nat
    BY DEF TypeOK
  <2>1. \E d \in 1..i : ~AsWritten(d)
    <3> SUFFICES ASSUME \A d \in 1..i : AsWritten(d)
                 PROVE  FALSE
      OBVIOUS
    <3>1. i \in 1..Len(written) /\ records[i] = written[i]
      BY <2>0
    <3>2. Sound(written, i)
      BY <3>1 DEF WrittenInv, Verified
    <3>3. i # 1 => i - 1 \in 1..i
      BY <2>0
    <3>4. i # 1 => records[i - 1] = written[i - 1]
      BY <3>3
    <3>5. PrevOf(records, i) = PrevOf(written, i)
      BY <3>4 DEF PrevOf
    <3> QED  BY <3>1, <3>2, <3>5 DEF Sound, Blamed
  <2>2. ASSUME NEW d \in 1..(i - 1), d <= Len(written),
               records[d].hash = written[d].hash
        PROVE  Reads(records[d], written[d])
    <3>1. d \in 1..Len(records) /\ d \in 1..Len(written)
      BY <2>0, <2>2
    <3>2. records[d] \in Records /\ written[d] \in Records
      BY <3>1 DEF TypeOK
    <3>3. Sound(records, d) /\ Sound(written, d) /\ Plain(written[d].content)
      BY <3>1 DEF Blamed, WrittenInv, Verified
    <3>4. SameLine(records[d], written[d])
      <4>1. hashRecord(records[d].seq, records[d].content, records[d].prevHash) =
              hashRecord(written[d].seq, written[d].content, written[d].prevHash)
        BY <2>2, <3>3 DEF Sound
      <4> QED  BY <2>2, <3>2, <4>1, RecordFields, HashTellsLine DEF SameLine
    <3> QED  BY <3>2, <3>3, <3>4, SameLineReads
  <2> QED  BY <2>1, <2>2
<1> QED  BY <1>1, TypeCorrect, PTL
=============================================================================
