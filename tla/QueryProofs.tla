----------------------------- MODULE QueryProofs -----------------------------
(***************************************************************************)
(* Proofs about QueryService and QueryMetrics, for every set of tenants,   *)
(* identities, topics and requests, every score, limit and history of      *)
(* writes.                                                                 *)
(***************************************************************************)
EXTENDS QueryMetrics, ListingProofs, SequenceTheorems

-----------------------------------------------------------------------------
(* Types *)

\* What the constants are.
LEMMA ConstantType ==
  /\ (\A k \in Ks : k \in Int) /\ MinScore \in Nat
  /\ DefaultK \in Nat \ {0} /\ DefaultLimit \in Nat \ {0} /\ FeedLimit \in Nat \ {0}
  /\ AnyTopic \notin Topics
  /\ \A id \in Identities : id.tenant \in Tenants /\ id.role \in Roles
  /\ \A a, b \in Topics : Score[a][b] \in Nat
<1>1. DefaultK \in Nat \ {0} /\ DefaultLimit \in Nat \ {0} /\ FeedLimit \in Nat \ {0}
  BY QueryServiceAssumption
<1> QED  BY <1>1, QueryServiceAssumption

\* The parts of a request.
LEMMA RequestType ==
  ASSUME TypeOK, NEW r \in Requests
  PROVE  /\ req[r] = [id |-> Me(r), query |-> My(r)]
         /\ Me(r) \in Identities /\ Me(r).tenant \in Tenants /\ Me(r).role \in Roles
         /\ My(r) \in Queries /\ My(r).k \in Int
         /\ My(r).endpoint \in {"search", "semantic", "why", "anomalies"}
         /\ My(r).topic \in Topics \cup {AnyTopic}
         /\ My(r).endpoint \in {"semantic", "why"} => My(r).topic \in Topics
<1>1. req[r] \in [id : Identities, query : Queries]
  BY DEF TypeOK
<1>2. My(r) \in Queries
  BY <1>1 DEF My
<1>3. /\ My(r).endpoint \in {"search", "semantic", "why", "anomalies"}
      /\ My(r).topic \in Topics \cup {AnyTopic}
      /\ My(r).endpoint \in {"semantic", "why"} => My(r).topic \in Topics
  BY <1>2 DEF Queries
<1>4. My(r).k \in Int
  <2>1. My(r).k \in Ks \/ My(r).k = FeedLimit
    BY <1>2 DEF Queries
  <2> QED  BY <2>1, ConstantType
<1> QED  BY <1>1, <1>2, <1>3, <1>4, ConstantType DEF Me, My

LEMMA LimitType ==
  ASSUME NEW k \in Int, NEW d \in Nat \ {0}
  PROVE  Limit(k, d) \in Nat \ {0}
  BY DEF Limit

\* A function from the first numbers is a sequence.
LEMMA FunctionIsSeq ==
  ASSUME NEW S, NEW n \in Nat, NEW f \in [1..n -> S]
  PROVE  f \in Seq(S) /\ Len(f) = n /\ DOMAIN f = 1..n
  BY IsASeq, LenProperties

\* A sequence that is appended to keeps what it has.
LEMMA Grows ==
  ASSUME NEW S, NEW s \in Seq(S), NEW t, t = s \/ \E e \in S : t = Append(s, e)
  PROVE  /\ t \in Seq(S) /\ Len(s) \in Nat /\ Len(t) \in Nat /\ Len(t) >= Len(s)
         /\ \A i \in 1..Len(s) : i \in 1..Len(t) /\ t[i] = s[i]
<1>1. CASE t = s
  BY <1>1
<1>2. ASSUME NEW e \in S, t = Append(s, e)
      PROVE  /\ t \in Seq(S) /\ Len(t) = Len(s) + 1
             /\ \A i \in 1..Len(s) : t[i] = s[i]
  BY <1>2
<1> QED  BY <1>1, <1>2

\* Upsert adds at most its item, to the index of its tenant.
LEMMA UpsertAdds ==
  ASSUME items \in [Tenants -> SUBSET Items], NEW t \in Tenants, NEW x \in Items,
         Upsert(t, x)
  PROVE  /\ items' \in [Tenants -> SUBSET Items]
         /\ \A u \in Tenants : items'[u] = items[u] \/ (u = t /\ items'[u] = items[u] \cup {x})
<1>1. CASE items' = items
  BY <1>1
<1>2. CASE items' = [items EXCEPT ![t] = @ \cup {x}]
  BY <1>2
<1> QED  BY <1>1, <1>2 DEF Upsert

-----------------------------------------------------------------------------
(* Whose text a reference names *)

\* The text is there, belongs to the tenant and has the topic.
Backed(t, ref, topic) ==
  \/ /\ ref.kind = "log" /\ ref.id \in 1..Len(store)
     /\ store[ref.id].tenant = t /\ store[ref.id].topic = topic
  \/ /\ ref.kind = "kb" /\ ref.id \in 1..Len(docs)
     /\ docs[ref.id].tenant = t /\ docs[ref.id].topic = topic
  \/ /\ ref.kind = "event" /\ ref.id \in 1..Len(feed)
     /\ feed[ref.id] = t /\ topic = AnyTopic

\* What is indexed is typed, and backed by the text it was made from.
LEMMA IndexDocType ==
  ASSUME TypeOK, docs # <<>>
  PROVE  LET d == docs[Len(docs)]
             x == [ref |-> Ref("kb", Len(docs)), topic |-> d.topic]
         IN  d.tenant \in Tenants /\ x \in Items /\ Backed(d.tenant, x.ref, x.topic)
<1>1. docs \in Seq(Texts) /\ Len(docs) \in Nat /\ Len(docs) # 0
  BY DEF TypeOK
<1>2. docs[Len(docs)] \in Texts
  BY <1>1
<1> QED  BY <1>1, <1>2 DEF Texts, Items, Refs, Ref, Backed

LEMMA IndexEntryType ==
  ASSUME TypeOK, NEW id \in 1..Len(store)
  PROVE  LET x == [ref |-> Ref("log", id), topic |-> store[id].topic] IN
         /\ store[id].tenant \in Tenants /\ store[id].topic \in Topics
         /\ x \in Items /\ Backed(store[id].tenant, x.ref, x.topic)
<1>1. store \in Seq(Texts)
  BY DEF TypeOK
<1>2. store[id] \in Texts /\ id \in Nat \ {0}
  BY <1>1
<1> QED  BY <1>2 DEF Texts, Items, Refs, Ref, Backed

-----------------------------------------------------------------------------
(* What the searches list *)

\* What a scan, a read of the feed and a citation list.
LEMMA ScanLists ==
  ASSUME TypeOK, NEW r \in Requests, Scan(r)
  PROVE  LET matching == {id \in 1..Len(store) : Matches(id, Me(r).tenant, My(r).topic)}
             got == NewestFirst(matching, Limit(My(r).k, DefaultLimit))
             m == Least(Limit(My(r).k, DefaultLimit), Cardinality(matching))
         IN  /\ m \in Nat /\ got \in [1..m -> matching]
             /\ matching \in SUBSET (1..Len(store))
             /\ out' = [out EXCEPT ![r] =
                  [i \in 1..m |-> [ref |-> Ref("log", got[i]),
                                   shown |-> store[got[i]].topic, scored |-> AnyTopic]]]
<1> DEFINE matching == {id \in 1..Len(store) : Matches(id, Me(r).tenant, My(r).topic)}
           k == Limit(My(r).k, DefaultLimit)
           got == NewestFirst(matching, k)
           m == Least(k, Cardinality(matching))
<1>1. Len(store) \in Nat /\ matching \in SUBSET (1..Len(store))
  BY DEF TypeOK
<1>2. k \in Nat
  BY RequestType, LimitType, ConstantType
<1>3. out' = [out EXCEPT ![r] =
        [i \in DOMAIN got |-> [ref |-> Ref("log", got[i]),
                                 shown |-> store[got[i]].topic, scored |-> AnyTopic]]]
  BY DEF Scan, Answer
<1> HIDE DEF matching, k
<1>4. m \in Nat /\ got \in [1..m -> matching]
  BY <1>1, <1>2, NewestLists
<1> HIDE DEF m, got
<1>5. DOMAIN got = 1..m
  BY <1>4
<1> QED  BY <1>1, <1>3, <1>4, <1>5 DEF matching, k, m, got

LEMMA ReadFeedLists ==
  ASSUME TypeOK, NEW r \in Requests, ReadFeed(r)
  PROVE  LET mine == {n \in 1..Len(feed) : feed[n] = Me(r).tenant}
             got == NewestFirst(mine, FeedLimit)
             m == Least(FeedLimit, Cardinality(mine))
         IN  /\ m \in Nat /\ got \in [1..m -> mine]
             /\ mine \in SUBSET (1..Len(feed))
             /\ out' = [out EXCEPT ![r] =
                  [i \in 1..m |-> [ref |-> Ref("event", got[i]), shown |-> AnyTopic,
                                   scored |-> AnyTopic]]]
<1> DEFINE mine == {n \in 1..Len(feed) : feed[n] = Me(r).tenant}
           got == NewestFirst(mine, FeedLimit)
           m == Least(FeedLimit, Cardinality(mine))
<1>1. Len(feed) \in Nat /\ mine \in SUBSET (1..Len(feed))
  BY DEF TypeOK
<1>2. out' = [out EXCEPT ![r] =
        [i \in DOMAIN got |-> [ref |-> Ref("event", got[i]), shown |-> AnyTopic,
                                 scored |-> AnyTopic]]]
  BY DEF ReadFeed, Answer
<1> HIDE DEF mine
<1>3. m \in Nat /\ got \in [1..m -> mine]
  BY <1>1, NewestLists, ConstantType
<1> HIDE DEF m, got
<1>4. DOMAIN got = 1..m
  BY <1>3
<1> QED  BY <1>1, <1>2, <1>3, <1>4 DEF mine, m, got

LEMMA GroundedLists ==
  ASSUME TypeOK, NEW r \in Requests
  PROVE  LET ids == {i \in 1..Len(out[r]) : Score[My(r).topic][out[r][i].scored] >= MinScore}
             c == Cardinality(ids)
             cited == InOrder(ids)
         IN  /\ ids \in SUBSET (1..Len(out[r])) /\ Len(out[r]) \in Nat
             /\ c \in Nat /\ cited \in [1..c -> ids]
             /\ \A i, j \in 1..c : i < j => cited[i] < cited[j]
             /\ \A x \in ids : \E i \in 1..c : cited[i] = x
             /\ Grounded(r) = [i \in 1..c |-> out[r][cited[i]]]
<1> DEFINE ids == {i \in 1..Len(out[r]) : Score[My(r).topic][out[r][i].scored] >= MinScore}
           c == Cardinality(ids)
           cited == InOrder(ids)
<1>1. Len(out[r]) \in Nat /\ ids \in SUBSET (1..Len(out[r]))
  <2>1. out[r] \in Seq(Sources)
    BY DEF TypeOK
  <2> QED  BY <2>1
<1>2. Grounded(r) = [i \in DOMAIN cited |-> out[r][cited[i]]]
  BY DEF Grounded
<1> HIDE DEF ids
<1>3. /\ c \in Nat /\ cited \in [1..c -> ids]
      /\ \A i, j \in 1..c : i < j => cited[i] < cited[j]
      /\ \A x \in ids : \E i \in 1..c : cited[i] = x
  BY <1>1, InOrderLists
<1> HIDE DEF c, cited
<1>4. DOMAIN cited = 1..c
  BY <1>3
<1> QED  BY <1>1, <1>2, <1>3, <1>4 DEF ids, c, cited

-----------------------------------------------------------------------------
(* Where a request is, and what it may hold there *)

\* Only a request with the capability for it gets past a check; a result exists
\* only from its search on.
FlowOf(r) ==
  /\ rpc[r] = "scan" => My(r).endpoint = "search"
  /\ rpc[r] = "nested" => My(r).endpoint = "why" /\ Can(Me(r).role, "rag_query")
  /\ rpc[r] \in {"retrieve", "resolve"} => My(r).endpoint \in {"semantic", "why"}
  /\ rpc[r] # "resolve" => hits[r] = <<>>
  /\ rpc[r] \notin {"resolve", "answered"} => out[r] = <<>>

FlowInv ==
  /\ mpc = "index" => docs # <<>>
  /\ \A t \in Tenants : IsFiniteSet(items[t])
  /\ \A r \in Requests : FlowOf(r)

-----------------------------------------------------------------------------
(* The audit log *)

\* What a check records, and what becomes of the log.
Content(r) == [id |-> Me(r), action |-> Needed(r), resource |-> Resource(r)]

\* It is a record such as the program writes, and its line one of the log.
LEMMA AuditedLine ==
  ASSUME NEW s \in Nat, NEW c \in Audited
  PROVE  Log!LineOf(s, c) \in Log!Lines /\ Log!Plain(c)
<1> DEFINE f == [tenant |-> <<c.id.tenant>>, actor |-> <<c.id.actor>>,
                 action |-> <<c.action>>, resource |-> <<c.resource>>, at |-> 0]
           j == <<c.id.tenant>> \o <<c.id.actor>> \o <<c.action>> \o <<c.resource>>
<1>1. AuditedFields[c] = f
  BY DEF AuditedFields
<1>2. /\ c.id.tenant \in AuditedPieces /\ c.id.actor \in AuditedPieces
      /\ c.action \in AuditedPieces /\ c.resource \in AuditedPieces
  BY QueryServiceAssumption DEF Audited, AuditedPieces
<1>3. j \in Seq(AuditedPieces)
  <2>1. /\ <<c.id.tenant>> \in Seq(AuditedPieces) /\ <<c.id.actor>> \in Seq(AuditedPieces)
        /\ <<c.action>> \in Seq(AuditedPieces) /\ <<c.resource>> \in Seq(AuditedPieces)
    BY <1>2
  <2>2. \A p, q \in Seq(AuditedPieces) : p \o q \in Seq(AuditedPieces)
    BY ConcatProperties, Zenon
  <2> QED  BY <2>1, <2>2, Zenon
<1>4. /\ f.tenant = <<c.id.tenant>> /\ f.actor = <<c.id.actor>>
      /\ f.action = <<c.action>> /\ f.resource = <<c.resource>> /\ f.at = 0
  OBVIOUS
<1> HIDE DEF f
<1>5. Log!Joined(c) = j /\ AuditedFields[c].at = 0
  <2>1. Log!Joined(c) = f.tenant \o f.actor \o f.action \o f.resource
    BY <1>1, Zenon DEF Log!Joined
  <2> QED  BY <1>1, <1>4, <2>1, Zenon
<1> HIDE DEF j
<1>6. Log!LineOf(s, c) \in Log!Lines
  BY <1>3, <1>5 DEF Log!LineOf, Log!Lines, Log!Texts
<1>7. Log!Plain(c)
  BY <1>1, <1>4 DEF Log!Plain
<1> QED  BY <1>6, <1>7

LEMMA AuditAppends ==
  ASSUME TypeOK, NEW r \in Requests, Audit(r)
  PROVE  /\ Content(r).id = Me(r) /\ Content(r).resource = Resource(r)
         /\ Resource(r) \in {"structured", "semantic", "question"}
         /\ \E rec \in Log!Records :
              /\ rec.content = Content(r) /\ rec.seq = seq + 1
              /\ records' = Append(records, rec) /\ written' = Append(written, rec)
         /\ seq' = seq + 1
         /\ lastHash' \in Log!Digests
         /\ Log!AppendRecord(Content(r))
<1>1. PICK c : c = Content(r)
  OBVIOUS
<1>2. Needed(r) \in {"search", "rag_query", "read_anomaly"}
  BY DEF Needed
<1>3. Resource(r) \in {"structured", "semantic", "question"}
  BY DEF Resource
<1>4. c \in Audited /\ c.id = Me(r) /\ c.resource = Resource(r)
  BY <1>1, <1>2, <1>3, RequestType DEF Content, Audited, Actions, Resources
<1>5. Log!AppendRecord(c)
  BY <1>1 DEF Audit, Content
<1>6. /\ seq \in Nat /\ lastHash \in Seq(Log!Lines)
      /\ Log!Digests = Seq(Log!Lines)
      /\ Log!Records = [seq : Nat \ {0}, content : Audited,
                        prevHash : Log!Digests, hash : Log!Digests]
  BY DEF TypeOK, Log!TypeOK, Log!Digests, Log!Records
<1>7. PICK l \in Log!Lines : l = Log!LineOf(seq + 1, c)
  BY <1>4, <1>6, AuditedLine
<1>8. PICK h : h = Append(lastHash, l)
  OBVIOUS
<1>9. PICK rec : rec = [seq |-> seq + 1, content |-> c, prevHash |-> lastHash, hash |-> h]
  OBVIOUS
<1>10. rec = Log!Chained(Log!NextSeq, c, lastHash)
  BY <1>7, <1>8, <1>9 DEF Log!Chained, Log!NextSeq, Log!hashRecord
<1>11. /\ seq' = seq + 1 /\ lastHash' = rec.hash
       /\ records' = Append(records, rec) /\ written' = Append(written, rec)
  BY <1>5, <1>10 DEF Log!AppendRecord
<1>12. h \in Seq(Log!Lines)
  BY <1>6, <1>7, <1>8
<1>13. rec \in Log!Records /\ rec.hash = h /\ rec.content = c /\ rec.seq = seq + 1
  BY <1>4, <1>6, <1>9, <1>12
<1> QED  BY <1>1, <1>3, <1>4, <1>5, <1>6, <1>11, <1>12, <1>13

-----------------------------------------------------------------------------
(* Every variable keeps its type *)

\* What is resolved and what is cited are sources.
LEMMA ResolvedType ==
  ASSUME TypeOK, NEW t \in Tenants, NEW ref \in Refs, NEW x \in Resolved(t, ref)
  PROVE  x \in Texts /\ x.topic \in Topics
<1>1. store \in Seq(Texts) /\ docs \in Seq(Texts)
  BY DEF TypeOK
<1>2. \A i \in 1..Len(store) : store[i] \in Texts
  BY <1>1
<1>3. \A i \in 1..Len(docs) : docs[i] \in Texts
  BY <1>1
<1>4. x \in Texts
  BY <1>2, <1>3 DEF Resolved, Get
<1> QED  BY <1>4 DEF Texts

LEMMA AnswerType ==
  ASSUME TypeOK, NEW r \in Requests, NEW s \in Seq(Sources), out' = [out EXCEPT ![r] = s]
  PROVE  out' \in [Requests -> Seq(Sources)]
  BY DEF TypeOK

LEMMA HandleType ==
  ASSUME TypeOK, FlowInv, NEW r \in Requests, Handle(r)
  PROVE  TypeOK'
<1> DEFINE Places == {"idle", "refused", "entered", "forbidden", "nested", "scan",
                      "retrieve", "resolve", "answered"}
<1>1. /\ rpc \in [Requests -> Places]
      /\ hits \in [Requests -> Seq(Items)] /\ out \in [Requests -> Seq(Sources)]
      /\ hits[r] \in Seq(Items) /\ out[r] \in Seq(Sources)
  BY DEF TypeOK
<1>2. ASSUME NEW p \in Places, rpc' = [rpc EXCEPT ![r] = p]
      PROVE  rpc' \in [Requests -> Places]
  BY <1>1, <1>2
<1>3. CASE Begin(r)
  <2>1. PICK id \in Identities, q \in Queries :
          /\ req' = [req EXCEPT ![r] = [id |-> id, query |-> q]]
          /\ known' = [known EXCEPT ![r] =
               [entries |-> Len(store), items |-> items[id.tenant], events |-> Len(feed)]]
    BY <1>3 DEF Begin
  <2>2. id.tenant \in Tenants
    BY ConstantType
  <2>3. Len(store) \in Nat /\ Len(feed) \in Nat /\ items[id.tenant] \in SUBSET Items
    BY <2>2 DEF TypeOK
  <2>4. req' \in [Requests -> [id : Identities, query : Queries]]
    BY <2>1 DEF TypeOK
  <2>5. known' \in [Requests -> [entries : Nat, items : SUBSET Items, events : Nat]]
    BY <2>1, <2>3 DEF TypeOK
  <2>6. rpc' \in [Requests -> Places]
    BY <1>2, <1>3 DEF Begin
  <2> QED
    BY <1>3, <2>4, <2>5, <2>6 DEF Begin, TypeOK, stores, auditLog, Log!TypeOK
<1>4. CASE Refuse(r) \/ Forbid(r)
  <2>1. rpc' \in [Requests -> Places]
    BY <1>2, <1>4 DEF Refuse, Forbid
  <2> QED  BY <1>4, <2>1 DEF Refuse, Forbid, TypeOK, stores, auditLog, Log!TypeOK
<1>5. CASE Audit(r)
  <2>1. rpc' \in [Requests -> Places]
    <3>1. AfterAudit(r) \in Places
      BY DEF AfterAudit
    <3> QED  BY <1>2, <1>5, <3>1 DEF Audit
  <2>2. Log!TypeOK'
    <3>1. PICK rec \in Log!Records :
            records' = Append(records, rec) /\ written' = Append(written, rec)
      BY <1>5, AuditAppends
    <3>2. seq' \in Nat /\ lastHash' \in Log!Digests
      BY <1>5, AuditAppends DEF TypeOK, Log!TypeOK
    <3>3. records \in Seq(Log!Records) /\ written \in Seq(Log!Records)
      BY DEF TypeOK, Log!TypeOK
    <3>4. records' \in Seq(Log!Records) /\ written' \in Seq(Log!Records)
      BY <3>1, <3>3
    <3> QED  BY <3>2, <3>4 DEF Log!TypeOK, Log!Records, Log!Digests
  <2> QED  BY <1>5, <2>1, <2>2 DEF Audit, TypeOK, stores
<1>6. CASE Scan(r)
  <2> DEFINE matching == {id \in 1..Len(store) : Matches(id, Me(r).tenant, My(r).topic)}
             got == NewestFirst(matching, Limit(My(r).k, DefaultLimit))
             m == Least(Limit(My(r).k, DefaultLimit), Cardinality(matching))
             s == [i \in 1..m |-> [ref |-> Ref("log", got[i]),
                                   shown |-> store[got[i]].topic, scored |-> AnyTopic]]
  <2>1. /\ m \in Nat /\ got \in [1..m -> matching]
        /\ matching \in SUBSET (1..Len(store)) /\ out' = [out EXCEPT ![r] = s]
    BY <1>6, ScanLists
  <2>0. Len(store) \in Nat /\ \A x \in matching : x \in 1..Len(store)
    BY DEF TypeOK
  <2> HIDE DEF m, got, matching
  <2>2. ASSUME NEW i \in 1..m
        PROVE  s[i] \in Sources
    <3>1. got[i] \in 1..Len(store) /\ got[i] \in Nat \ {0}
      <4>1. got[i] \in matching
        BY <2>1
      <4> QED  BY <2>0, <4>1
    <3>2. store[got[i]].topic \in Topics
      BY <3>1, IndexEntryType
    <3> QED  BY <3>1, <3>2 DEF Sources, Refs, Ref
  <2>3. s \in Seq(Sources)
    <3>1. s \in [1..m -> Sources]
      BY <2>2
    <3> HIDE DEF s
    <3> QED  BY <2>1, <3>1, FunctionIsSeq
  <2>4. out' \in [Requests -> Seq(Sources)]
    <3> HIDE DEF s
    <3> QED  BY <2>1, <2>3, AnswerType
  <2>5. rpc' \in [Requests -> Places]
    BY <1>2, <1>6 DEF Scan, Answer
  <2> QED  BY <1>6, <2>4, <2>5 DEF Scan, TypeOK, stores, auditLog, Log!TypeOK
<1>7. CASE ReadFeed(r)
  <2> DEFINE mine == {n \in 1..Len(feed) : feed[n] = Me(r).tenant}
             got == NewestFirst(mine, FeedLimit)
             m == Least(FeedLimit, Cardinality(mine))
             s == [i \in 1..m |-> [ref |-> Ref("event", got[i]), shown |-> AnyTopic,
                                   scored |-> AnyTopic]]
  <2>1. /\ m \in Nat /\ got \in [1..m -> mine]
        /\ mine \in SUBSET (1..Len(feed)) /\ out' = [out EXCEPT ![r] = s]
    BY <1>7, ReadFeedLists
  <2>0. Len(feed) \in Nat /\ \A x \in mine : x \in 1..Len(feed)
    BY DEF TypeOK
  <2> HIDE DEF m, got, mine
  <2>2. ASSUME NEW i \in 1..m
        PROVE  s[i] \in Sources
    <3>1. got[i] \in Nat \ {0}
      <4>1. got[i] \in mine
        BY <2>1
      <4> QED  BY <2>0, <4>1
    <3> QED  BY <3>1 DEF Sources, Refs, Ref
  <2>3. s \in Seq(Sources)
    <3>1. s \in [1..m -> Sources]
      BY <2>2
    <3> HIDE DEF s
    <3> QED  BY <2>1, <3>1, FunctionIsSeq
  <2>4. out' \in [Requests -> Seq(Sources)]
    <3> HIDE DEF s
    <3> QED  BY <2>1, <2>3, AnswerType
  <2>5. rpc' \in [Requests -> Places]
    BY <1>2, <1>7 DEF ReadFeed, Answer
  <2> QED  BY <1>7, <2>4, <2>5 DEF ReadFeed, TypeOK, stores, auditLog, Log!TypeOK
<1>8. CASE Retrieve(r)
  <2>1. PICK s \in TopK(items[Me(r).tenant], My(r).topic, Limit(My(r).k, DefaultK)) :
          hits' = [hits EXCEPT ![r] = s]
    BY <1>8 DEF Retrieve
  <2>2. s \in Seq(Items)
    <3>1. PICK k \in Nat, S \in SUBSET Items :
            /\ k = Limit(My(r).k, DefaultK) /\ S = items[Me(r).tenant]
            /\ IsFiniteSet(S) /\ Cardinality(S) \in Nat
      BY RequestType, LimitType, ConstantType, FS_CardinalityType DEF TypeOK, FlowInv
    <3>2. s \in [1..Least(k, Cardinality(S)) -> S]
      BY <2>1, <3>1 DEF TopK
    <3>3. Least(k, Cardinality(S)) \in Nat
      BY <3>1 DEF Least
    <3>4. s \in Seq(S)
      BY <3>2, <3>3, FunctionIsSeq
    <3> QED  BY <3>1, <3>4
  <2>3. hits' \in [Requests -> Seq(Items)]
    BY <1>1, <2>1, <2>2
  <2>4. rpc' \in [Requests -> Places]
    BY <1>2, <1>8 DEF Retrieve
  <2> QED  BY <1>8, <2>3, <2>4 DEF Retrieve, TypeOK, stores, auditLog, Log!TypeOK
<1>9. CASE Resolve(r)
  <2>1. Head(hits[r]) \in Items /\ Tail(hits[r]) \in Seq(Items)
    BY <1>1, <1>9 DEF Resolve
  <2>2. hits' \in [Requests -> Seq(Items)]
    <3>1. hits' = [hits EXCEPT ![r] = Tail(hits[r])]
      BY <1>9 DEF Resolve
    <3> QED  BY <1>1, <2>1, <3>1
  <2>3. PICK h, texts :
          /\ h \in Items /\ h = Head(hits[r])
          /\ texts = Resolved(Me(r).tenant, h.ref)
    BY <2>1
  <2>4. out' \in [Requests -> Seq(Sources)]
    <3>1. CASE texts = {}
      BY <1>1, <1>9, <2>3, <3>1 DEF Resolve
    <3>2. CASE texts # {}
      <4>1. PICK x : x = CHOOSE t \in texts : TRUE
        OBVIOUS
      <4>2. x \in texts
        BY <3>2, <4>1
      <4>3. PICK s : s = [ref |-> h.ref, shown |-> x.topic, scored |-> h.topic]
        OBVIOUS
      <4>4. h.ref \in Refs /\ h.topic \in Topics
        BY <2>3 DEF Items
      <4>5. s \in Sources
        BY <2>3, <4>2, <4>3, <4>4, RequestType, ResolvedType DEF Sources
      <4>6. out' = [out EXCEPT ![r] = Append(out[r], s)]
        BY <1>1, <1>9, <2>3, <3>2, <4>1, <4>3 DEF Resolve
      <4>7. Append(out[r], s) \in Seq(Sources)
        BY <1>1, <4>5
      <4> QED  BY <4>6, <4>7, AnswerType
    <3> QED  BY <3>1, <3>2
  <2> QED  BY <1>9, <2>2, <2>4 DEF Resolve, TypeOK, stores, auditLog, Log!TypeOK
<1>10. CASE Respond(r)
  <2>1. Grounded(r) \in Seq(Sources)
    <3> DEFINE ids == {i \in 1..Len(out[r]) : Score[My(r).topic][out[r][i].scored] >= MinScore}
               c == Cardinality(ids)
               cited == InOrder(ids)
    <3>1. /\ ids \in SUBSET (1..Len(out[r])) /\ c \in Nat /\ cited \in [1..c -> ids]
          /\ Grounded(r) = [i \in 1..c |-> out[r][cited[i]]]
      BY GroundedLists
    <3> HIDE DEF ids, c, cited
    <3>2. ASSUME NEW i \in 1..c
          PROVE  out[r][cited[i]] \in Sources
      <4>1. cited[i] \in ids
        BY <3>1
      <4>2. cited[i] \in 1..Len(out[r])
        BY <3>1, <4>1
      <4> QED  BY <1>1, <4>2
    <3>3. Grounded(r) \in [1..c -> Sources]
      BY <3>1, <3>2
    <3> QED  BY <3>1, <3>3, FunctionIsSeq
  <2>2. PICK s \in Seq(Sources) : out' = [out EXCEPT ![r] = s]
    BY <1>1, <1>10, <2>1 DEF Respond, Answer
  <2>3. out' \in [Requests -> Seq(Sources)]
    BY <2>2, AnswerType
  <2>4. rpc' \in [Requests -> Places]
    BY <1>2, <1>10 DEF Respond, Answer
  <2> QED  BY <1>10, <2>3, <2>4 DEF Respond, TypeOK, stores, auditLog, Log!TypeOK
<1> QED  BY <1>3, <1>4, <1>5, <1>6, <1>7, <1>8, <1>9, <1>10 DEF Handle

\* A step of a request changes nothing of another, and none of what it reads.
LEMMA HandleLocal ==
  ASSUME TypeOK, NEW r \in Requests, Handle(r)
  PROVE  /\ mpc' = mpc /\ store' = store /\ docs' = docs /\ items' = items /\ feed' = feed
         /\ \A q \in Requests \ {r} :
              /\ rpc'[q] = rpc[q] /\ req'[q] = req[q] /\ known'[q] = known[q]
              /\ hits'[q] = hits[q] /\ out'[q] = out[q]
<1>1. mpc' = mpc /\ store' = store /\ docs' = docs /\ items' = items /\ feed' = feed
  BY DEF Handle, Begin, Refuse, Forbid, Audit, Scan, ReadFeed, Retrieve, Resolve, Respond,
         stores
<1> SUFFICES ASSUME NEW q \in Requests \ {r}
             PROVE  /\ rpc'[q] = rpc[q] /\ req'[q] = req[q] /\ known'[q] = known[q]
                    /\ hits'[q] = hits[q] /\ out'[q] = out[q]
  BY <1>1
<1>2. CASE Begin(r)
  BY <1>2 DEF Begin, TypeOK
<1>3. CASE Refuse(r) \/ Forbid(r) \/ Audit(r)
  BY <1>3 DEF Refuse, Forbid, Audit, TypeOK
<1>4. CASE Scan(r) \/ ReadFeed(r) \/ Respond(r)
  BY <1>4 DEF Scan, ReadFeed, Respond, Answer, TypeOK
<1>5. CASE Retrieve(r) \/ Resolve(r)
  <2>1. (\E s : hits' = [hits EXCEPT ![r] = s]) /\ (out' = out \/ \E s : out' = [out EXCEPT ![r] = s])
    BY <1>5 DEF Retrieve, Resolve
  <2>2. /\ rpc' = rpc \/ rpc' = [rpc EXCEPT ![r] = "resolve"]
        /\ req' = req /\ known' = known
    BY <1>5 DEF Retrieve, Resolve
  <2> QED  BY <2>1, <2>2 DEF TypeOK
<1> QED  BY <1>2, <1>3, <1>4, <1>5 DEF Handle

\* An Upsert leaves the indexes finite.
LEMMA UpsertFinite ==
  ASSUME items \in [Tenants -> SUBSET Items], NEW t \in Tenants, NEW x \in Items,
         Upsert(t, x), \A u \in Tenants : IsFiniteSet(items[u])
  PROVE  \A u \in Tenants : IsFiniteSet(items'[u])
<1> SUFFICES ASSUME NEW u \in Tenants
             PROVE  IsFiniteSet(items'[u])
  OBVIOUS
<1>1. items'[u] = items[u] \/ items'[u] = items[u] \cup {x}
  BY UpsertAdds
<1> QED  BY <1>1, FS_AddElement

\* What the rest of the system does: it adds a text, a vector, an event.
LEMMA GrowStep ==
  ASSUME TypeOK, FlowInv,
         SeedDoc \/ IndexDoc \/ Serve \/ WriteEntry \/ IndexEntry \/ RaiseEvent
  PROVE  /\ mpc' \in {"seed", "index", "serving"} /\ (mpc' = "index" => docs' # <<>>)
         /\ store' = store \/ \E e \in Texts : store' = Append(store, e)
         /\ docs' = docs \/ \E e \in Texts : docs' = Append(docs, e)
         /\ feed' = feed \/ \E t \in Tenants : feed' = Append(feed, t)
         /\ items' = items \/ \E t \in Tenants, x \in Items :
              Upsert(t, x) /\ Backed(t, x.ref, x.topic)
         /\ UNCHANGED <<rpc, req, hits, out, known, auditLog>>
<1>1. CASE SeedDoc
  <2>1. Len(docs) \in Nat /\ Len(docs) + 1 \in 1..Len(Seeds)
    BY <1>1, QueryServiceAssumption DEF SeedDoc, TypeOK
  <2>2. Seeds[Len(docs) + 1] \in Texts
    BY <2>1, QueryServiceAssumption
  <2>3. PICK e \in Texts : docs' = Append(docs, e)
    BY <1>1, <2>2 DEF SeedDoc
  <2>4. docs' # <<>>
    <3>1. docs \in Seq(Texts)
      BY DEF TypeOK
    <3> QED  BY <2>3, <3>1
  <2> QED  BY <1>1, <2>3, <2>4 DEF SeedDoc
<1>2. CASE IndexDoc
  <2>1. docs # <<>>
    BY <1>2 DEF IndexDoc, FlowInv
  <2> QED  BY <1>2, <2>1, IndexDocType DEF IndexDoc
<1>3. CASE Serve
  BY <1>3 DEF Serve, stores
<1>4. CASE WriteEntry \/ RaiseEvent
  BY <1>4 DEF WriteEntry, RaiseEvent, FlowInv
<1>5. CASE IndexEntry
  <2>1. mpc' = mpc /\ docs' = docs
    BY <1>5 DEF IndexEntry
  <2> QED  BY <1>5, <2>1, IndexEntryType DEF IndexEntry, FlowInv, TypeOK
<1> QED  BY <1>1, <1>2, <1>3, <1>4, <1>5

LEMMA TypeStep ==
  ASSUME TypeOK, FlowInv, [Next]_vars
  PROVE  TypeOK'
<1>1. CASE SeedDoc \/ IndexDoc \/ Serve \/ WriteEntry \/ IndexEntry \/ RaiseEvent
  <2>1. store' \in Seq(Texts) /\ docs' \in Seq(Texts) /\ feed' \in Seq(Tenants)
    <3>1. store \in Seq(Texts) /\ docs \in Seq(Texts) /\ feed \in Seq(Tenants)
      BY DEF TypeOK
    <3>2. /\ store' = store \/ \E e \in Texts : store' = Append(store, e)
          /\ docs' = docs \/ \E e \in Texts : docs' = Append(docs, e)
          /\ feed' = feed \/ \E t \in Tenants : feed' = Append(feed, t)
      BY <1>1, GrowStep
    <3> QED  BY <3>1, <3>2, Grows
  <2>2. items' \in [Tenants -> SUBSET Items]
    BY <1>1, GrowStep, UpsertAdds DEF TypeOK
  <2>3. UNCHANGED <<rpc, req, hits, out, known, auditLog>> /\ mpc' \in {"seed", "index", "serving"}
    BY <1>1, GrowStep
  <2> QED  BY <2>1, <2>2, <2>3 DEF TypeOK, auditLog, Log!TypeOK
<1>2. CASE \E r \in Requests : Handle(r)
  BY <1>2, HandleType
<1>3. CASE UNCHANGED vars
  BY <1>3 DEF vars, stores, auditLog, TypeOK, Log!TypeOK
<1> QED  BY <1>1, <1>2, <1>3 DEF Next, Terminated

LEMMA FlowStep ==
  ASSUME TypeOK, FlowInv, [Next]_vars
  PROVE  FlowInv'
<1>1. CASE SeedDoc \/ IndexDoc \/ Serve \/ WriteEntry \/ IndexEntry \/ RaiseEvent
  <2>1. \A t \in Tenants : IsFiniteSet(items'[t])
    BY <1>1, GrowStep, UpsertFinite DEF TypeOK, FlowInv
  <2>2. (mpc' = "index" => docs' # <<>>) /\ UNCHANGED <<rpc, req, hits, out>>
    BY <1>1, GrowStep
  <2> QED  BY <2>1, <2>2 DEF FlowInv, FlowOf, Me, My
<1>2. ASSUME NEW r \in Requests, Handle(r)
      PROVE  FlowInv'
  <2>1. \A q \in Requests \ {r} : FlowOf(q)'
    BY <1>2, HandleLocal DEF FlowInv, FlowOf, Me, My
  <2>2. FlowOf(r)'
    <3>1. FlowOf(r) /\ Me(r) = req[r].id /\ My(r) = req[r].query
      BY DEF FlowInv, Me, My
    <3>2. CASE Begin(r)
      <4>1. rpc'[r] = "entered" /\ hits' = hits /\ out' = out /\ rpc[r] = "idle"
        BY <3>2 DEF Begin, TypeOK
      <4> QED  BY <3>1, <4>1 DEF FlowOf
    <3>3. CASE Refuse(r)
      <4>1. rpc'[r] = "refused" /\ hits' = hits /\ out' = out /\ rpc[r] = "idle"
        BY <3>3 DEF Refuse, TypeOK
      <4> QED  BY <3>1, <4>1 DEF FlowOf
    <3>4. CASE Forbid(r)
      <4>1. /\ rpc'[r] = "forbidden" /\ hits' = hits /\ out' = out
            /\ rpc[r] \in {"entered", "nested"}
        BY <3>4 DEF Forbid, TypeOK
      <4> QED  BY <3>1, <4>1 DEF FlowOf
    <3>5. CASE Audit(r)
      <4>1. /\ rpc'[r] = AfterAudit(r) /\ hits' = hits /\ out' = out /\ req' = req
            /\ rpc[r] \in {"entered", "nested"} /\ My(r).endpoint # "anomalies"
            /\ Can(Me(r).role, Needed(r))
        BY <3>5 DEF Audit, TypeOK
      <4>2. AfterAudit(r) = "nested" => Needed(r) = "rag_query" /\ My(r).endpoint = "why"
        BY DEF AfterAudit, Needed
      <4>3. AfterAudit(r) = "scan" => My(r).endpoint = "search"
        BY DEF AfterAudit
      <4>4. AfterAudit(r) = "retrieve" => My(r).endpoint \in {"semantic", "why"}
        BY <4>1, RequestType DEF AfterAudit
      <4>5. AfterAudit(r) \in {"scan", "nested", "retrieve"}
        BY DEF AfterAudit
      <4>6. Me(r)' = Me(r) /\ My(r)' = My(r)
        BY <4>1 DEF Me, My
      <4>7. hits[r] = <<>> /\ out[r] = <<>>
        BY <3>1, <4>1 DEF FlowOf
      <4> QED  BY <4>1, <4>2, <4>3, <4>4, <4>5, <4>6, <4>7 DEF FlowOf
    <3>6. CASE Scan(r) \/ ReadFeed(r) \/ Respond(r)
      <4>1. /\ rpc'[r] = "answered" /\ hits' = hits
            /\ (rpc[r] # "resolve" \/ hits[r] = <<>>)
        BY <3>6 DEF Scan, ReadFeed, Respond, Answer, TypeOK
      <4> QED  BY <3>1, <4>1 DEF FlowOf
    <3>7. CASE Retrieve(r)
      <4>1. rpc'[r] = "resolve" /\ req' = req /\ rpc[r] = "retrieve"
        BY <3>7 DEF Retrieve, TypeOK
      <4> QED  BY <3>1, <4>1 DEF FlowOf, My
    <3>8. CASE Resolve(r)
      <4>1. rpc' = rpc /\ req' = req /\ rpc[r] = "resolve"
        BY <3>8 DEF Resolve
      <4> QED  BY <3>1, <4>1 DEF FlowOf, My
    <3> QED  BY <1>2, <3>2, <3>3, <3>4, <3>5, <3>6, <3>7, <3>8 DEF Handle
  <2>3. mpc' = mpc /\ docs' = docs /\ items' = items
    BY <1>2, HandleLocal
  <2> QED  BY <2>1, <2>2, <2>3 DEF FlowInv
<1>3. CASE UNCHANGED vars
  BY <1>3 DEF vars, stores, FlowInv, FlowOf, Me, My
<1> QED  BY <1>1, <1>2, <1>3 DEF Next, Terminated

\* Every variable keeps its type, whatever is asked, written and indexed.
THEOREM TypeCorrect == Spec => []TypeOK
<1>1. Init => TypeOK
  <2> SUFFICES ASSUME Init
               PROVE  TypeOK
    OBVIOUS
  <2>1. PICK id : id = CHOOSE i \in Identities : TRUE
    OBVIOUS
  <2>2. PICK q : q = CHOOSE d \in Queries : TRUE
    OBVIOUS
  <2>3. id \in Identities
    BY <2>1, QueryServiceAssumption
  <2>4. q \in Queries
    <3>1. [endpoint |-> "anomalies", topic |-> AnyTopic, k |-> FeedLimit] \in Queries
      BY DEF Queries
    <3> QED  BY <2>2, <3>1
  <2>5. req \in [Requests -> [id : Identities, query : Queries]]
    <3>1. req \in [Requests -> [id : {id}, query : {q}]]
      BY <2>1, <2>2 DEF Init
    <3> QED  BY <2>3, <2>4, <3>1
  <2>6. /\ store \in Seq(Texts) /\ docs \in Seq(Texts) /\ feed \in Seq(Tenants)
        /\ items \in [Tenants -> SUBSET Items]
        /\ mpc \in {"seed", "index", "serving"}
    BY DEF Init
  <2>7. /\ hits \in [Requests -> Seq(Items)] /\ out \in [Requests -> Seq(Sources)]
        /\ rpc \in [Requests -> {"idle", "refused", "entered", "forbidden", "nested", "scan",
                                 "retrieve", "resolve", "answered"}]
    BY DEF Init
  <2>8. known \in [Requests -> [entries : Nat, items : SUBSET Items, events : Nat]]
    BY DEF Init
  <2>9. Log!TypeOK
    BY DEF Init, Log!Init, Log!TypeOK, Log!Digests, Log!genesis
  <2> QED  BY <2>5, <2>6, <2>7, <2>8, <2>9 DEF TypeOK
<1>2. Init => FlowInv
  BY FS_EmptySet DEF Init, FlowInv, FlowOf
<1> QED  BY <1>1, <1>2, TypeStep, FlowStep, PTL DEF Spec

LEMMA FlowInvariant == Spec => []FlowInv
<1>1. Init => FlowInv
  BY FS_EmptySet DEF Init, FlowInv, FlowOf
<1>2. TypeOK /\ FlowInv /\ [Next]_vars => FlowInv'
  BY FlowStep
<1> QED  BY <1>1, <1>2, TypeCorrect, PTL DEF Spec

-----------------------------------------------------------------------------
(* Answers list texts of the right tenant *)

\* A tenant's index holds vectors of its own texts only.
IndexInv ==
  \A t \in Tenants : \A x \in items[t] : Backed(t, x.ref, x.topic)

\* What a request has found is in the index of its tenant; what it lists is backed.
FoundOf(r) ==
  /\ \A i \in 1..Len(hits[r]) : hits[r][i] \in items[Me(r).tenant]
  /\ \A i \in 1..Len(out[r]) :
       /\ Backed(Me(r).tenant, out[r][i].ref, out[r][i].shown)
       /\ My(r).endpoint \in {"semantic", "why"} =>
            /\ out[r][i].scored = out[r][i].shown
            /\ [ref |-> out[r][i].ref, topic |-> out[r][i].scored] \in items[Me(r).tenant]

FoundInv == \A r \in Requests : FoundOf(r)

\* Nothing that is stored, indexed or raised goes away.
LEMMA NothingLost ==
  ASSUME TypeOK, FlowInv, [Next]_vars
  PROVE  /\ Len(store) \in Nat /\ Len(docs) \in Nat /\ Len(feed) \in Nat
         /\ Len(store') \in Nat /\ Len(docs') \in Nat /\ Len(feed') \in Nat
         /\ Len(store) <= Len(store') /\ Len(feed) <= Len(feed')
         /\ \A i \in 1..Len(store) : i \in 1..Len(store') /\ store'[i] = store[i]
         /\ \A i \in 1..Len(docs) : i \in 1..Len(docs') /\ docs'[i] = docs[i]
         /\ \A i \in 1..Len(feed) : i \in 1..Len(feed') /\ feed'[i] = feed[i]
         /\ \A t \in Tenants : items[t] \subseteq items'[t]
<1>1. store \in Seq(Texts) /\ docs \in Seq(Texts) /\ feed \in Seq(Tenants)
  BY DEF TypeOK
<1>2. /\ store' = store \/ \E e \in Texts : store' = Append(store, e)
      /\ docs' = docs \/ \E e \in Texts : docs' = Append(docs, e)
      /\ feed' = feed \/ \E t \in Tenants : feed' = Append(feed, t)
      /\ items' = items \/ \E t \in Tenants, x \in Items : Upsert(t, x)
  <2>1. CASE SeedDoc \/ IndexDoc \/ Serve \/ WriteEntry \/ IndexEntry \/ RaiseEvent
    BY <2>1, GrowStep
  <2>2. CASE \E r \in Requests : Handle(r)
    BY <2>2, HandleLocal
  <2>3. CASE UNCHANGED vars
    BY <2>3 DEF vars, stores
  <2> QED  BY <2>1, <2>2, <2>3 DEF Next, Terminated
<1>3. /\ Len(store) \in Nat /\ Len(store') \in Nat /\ Len(store) <= Len(store')
      /\ \A i \in 1..Len(store) : i \in 1..Len(store') /\ store'[i] = store[i]
  BY <1>1, <1>2, Grows
<1>4. /\ Len(docs) \in Nat /\ Len(docs') \in Nat
      /\ \A i \in 1..Len(docs) : i \in 1..Len(docs') /\ docs'[i] = docs[i]
  BY <1>1, <1>2, Grows
<1>5. /\ Len(feed) \in Nat /\ Len(feed') \in Nat /\ Len(feed) <= Len(feed')
      /\ \A i \in 1..Len(feed) : i \in 1..Len(feed') /\ feed'[i] = feed[i]
  BY <1>1, <1>2, Grows
<1>6. \A t \in Tenants : items[t] \subseteq items'[t]
  <2>1. CASE items' = items
    BY <2>1
  <2>2. ASSUME NEW t \in Tenants, NEW x \in Items, Upsert(t, x)
        PROVE  \A u \in Tenants : items[u] \subseteq items'[u]
    <3>1. items \in [Tenants -> SUBSET Items]
      BY DEF TypeOK
    <3>2. \A u \in Tenants : items'[u] = items[u] \/ items'[u] = items[u] \cup {x}
      BY <2>2, <3>1, UpsertAdds
    <3> QED  BY <3>2
  <2> QED  BY <1>2, <2>1, <2>2
<1> QED  BY <1>3, <1>4, <1>5, <1>6, Zenon

LEMMA BackedStays ==
  ASSUME TypeOK, FlowInv, [Next]_vars, NEW t, NEW ref, NEW topic, Backed(t, ref, topic)
  PROVE  Backed(t, ref, topic)'
<1>1. CASE ref.kind = "log" /\ ref.id \in 1..Len(store)
           /\ store[ref.id].tenant = t /\ store[ref.id].topic = topic
  BY <1>1, NothingLost DEF Backed
<1>2. CASE ref.kind = "kb" /\ ref.id \in 1..Len(docs)
           /\ docs[ref.id].tenant = t /\ docs[ref.id].topic = topic
  BY <1>2, NothingLost DEF Backed
<1>3. CASE ref.kind = "event" /\ ref.id \in 1..Len(feed)
           /\ feed[ref.id] = t /\ topic = AnyTopic
  BY <1>3, NothingLost DEF Backed
<1> QED  BY <1>1, <1>2, <1>3 DEF Backed

LEMMA IndexStep ==
  ASSUME TypeOK, FlowInv, IndexInv, [Next]_vars
  PROVE  IndexInv'
<1> SUFFICES ASSUME NEW t \in Tenants, NEW x \in items'[t]
             PROVE  Backed(t, x.ref, x.topic)'
  BY DEF IndexInv
<1>1. CASE x \in items[t]
  BY <1>1, BackedStays DEF IndexInv
<1>2. CASE x \notin items[t]
  <2>1. SeedDoc \/ IndexDoc \/ Serve \/ WriteEntry \/ IndexEntry \/ RaiseEvent
    <3>1. items' # items
      BY <1>2
    <3>2. ~ \E r \in Requests : Handle(r)
      BY <3>1, HandleLocal
    <3> QED  BY <3>1, <3>2 DEF Next, Terminated, vars, stores
  <2>2. PICK u \in Tenants, y \in Items : Upsert(u, y) /\ Backed(u, y.ref, y.topic)
    BY <1>2, <2>1, GrowStep
  <2>3. u = t /\ x = y
    <3>1. items \in [Tenants -> SUBSET Items]
      BY DEF TypeOK
    <3>2. items'[t] = items[t] \/ (t = u /\ items'[t] = items[t] \cup {y})
      BY <2>2, <3>1, UpsertAdds
    <3> QED  BY <1>2, <3>2
  <2> QED  BY <2>2, <2>3, BackedStays
<1> QED  BY <1>1, <1>2

\* n hits in falling score that miss of what was there only what scores no better
\* than a full list.
Best(f, n, topic, full, there) ==
  /\ \A i, j \in 1..n : i < j => Score[topic][f[i].topic] >= Score[topic][f[j].topic]
  /\ \A x \in there :
       (\A i \in 1..n : f[i] # x) =>
         n = full /\ \A i \in 1..n : Score[topic][f[i].topic] >= Score[topic][x.topic]

\* The search returns the best k of the index: in falling score, and leaving out
\* only what scores no better, once k are found.
LEMMA RetrieveFinds ==
  ASSUME TypeOK, FlowInv, NEW r \in Requests, Retrieve(r),
         NEW S, S = items[Me(r).tenant],
         NEW k, k = Limit(My(r).k, DefaultK),
         NEW topic, topic = My(r).topic
  PROVE  \E m \in Nat : \E s \in [1..m -> S] :
           /\ hits' = [hits EXCEPT ![r] = s] /\ s \in Seq(Items) /\ Len(s) = m
           /\ Best(s, m, topic, k, S)
<1>1. /\ S \in SUBSET Items /\ k \in Nat
      /\ IsFiniteSet(S) /\ Cardinality(S) \in Nat
  BY RequestType, LimitType, ConstantType, FS_CardinalityType DEF TypeOK, FlowInv
<1>2. PICK s \in TopK(S, topic, k) : hits' = [hits EXCEPT ![r] = s]
  BY <1>1 DEF Retrieve
<1>3. PICK m : m = Least(k, Cardinality(S))
  OBVIOUS
<1>4. m \in Nat /\ (m = k \/ m = Cardinality(S))
  BY <1>1, <1>3 DEF Least
<1>5. s \in [1..m -> S] /\ DOMAIN s = 1..m
  BY <1>3 DEF TopK
<1>6. /\ \A i, j \in 1..m :
           i < j => s[i] # s[j] /\ Score[topic][s[i].topic] >= Score[topic][s[j].topic]
      /\ \A x \in S, i \in 1..m :
           (\A j \in 1..m : s[j] # x) => Score[topic][s[i].topic] >= Score[topic][x.topic]
  BY <1>5 DEF TopK
<1>7. s \in Seq(Items) /\ Len(s) = m
  <2>1. s \in [1..m -> Items]
    BY <1>1, <1>5
  <2> QED  BY <1>4, <2>1, FunctionIsSeq
<1>8. ASSUME NEW x \in S, \A i \in 1..m : s[i] # x
      PROVE  m = k
  <2> SUFFICES ASSUME m = Cardinality(S)
               PROVE  FALSE
    BY <1>4
  <2>1. \A i, j \in 1..m : s[i] = s[j] => i = j
    <3> SUFFICES ASSUME NEW i \in 1..m, NEW j \in 1..m, s[i] = s[j]
                 PROVE  i = j
      OBVIOUS
    <3>1. ~(i < j) /\ ~(j < i)
      BY <1>6
    <3> QED  BY <1>4, <3>1
  <2>2. s \in Injection(1..m, S)
    BY <1>5, <2>1 DEF Injection, IsInjective
  <2> QED  BY <1>1, <1>8, <2>2, AllListed
<1>9. ASSUME NEW x \in S, \A i \in 1..m : s[i] # x
      PROVE  m = k /\ \A i \in 1..m : Score[topic][s[i].topic] >= Score[topic][x.topic]
  BY <1>6, <1>8, <1>9
<1>10. Best(s, m, topic, k, S)
  BY <1>6, <1>9 DEF Best
<1> QED  BY <1>2, <1>4, <1>5, <1>7, <1>10

\* A hit always resolves, to the text that was scored: none is dropped.
LEMMA ResolveAppends ==
  ASSUME TypeOK, IndexInv, FoundInv, NEW r \in Requests, Resolve(r)
  PROVE  LET h == hits[r][1] IN
         /\ hits[r] # <<>> /\ h \in items[Me(r).tenant] /\ h \in Items
         /\ hits' = [hits EXCEPT ![r] = Tail(hits[r])]
         /\ out' = [out EXCEPT ![r] =
              Append(out[r], [ref |-> h.ref, shown |-> h.topic, scored |-> h.topic])]
         /\ Backed(Me(r).tenant, h.ref, h.topic)
<1>1. hits[r] \in Seq(Items) /\ hits[r] # <<>> /\ Len(hits[r]) \in Nat
  BY DEF TypeOK, Resolve
<1>2. PICK h \in Items, t \in Tenants : h = hits[r][1] /\ h = Head(hits[r]) /\ t = Me(r).tenant
  <2>1. Head(hits[r]) \in Items /\ Head(hits[r]) = hits[r][1]
    BY <1>1
  <2> QED  BY <2>1, RequestType
<1>3. h \in items[t]
  BY <1>1, <1>2 DEF FoundInv, FoundOf
<1>4. Backed(t, h.ref, h.topic) /\ h.topic # AnyTopic
  BY <1>3, ConstantType DEF IndexInv, Items
<1>5. PICK x : Resolved(t, h.ref) = {x} /\ x.topic = h.topic
  <2>1. CASE h.ref.kind = "log"
    <3>1. h.ref.id \in 1..Len(store) /\ store[h.ref.id].tenant = t /\ store[h.ref.id].topic = h.topic
      BY <1>4, <2>1 DEF Backed
    <3>2. Get(h.ref.id) = {store[h.ref.id]}
      BY <3>1 DEF Get
    <3>3. Resolved(t, h.ref) = {store[h.ref.id]}
      BY <2>1, <3>1, <3>2 DEF Resolved
    <3> QED  BY <3>1, <3>3
  <2>2. CASE h.ref.kind = "kb"
    <3>1. h.ref.id \in 1..Len(docs) /\ docs[h.ref.id].tenant = t /\ docs[h.ref.id].topic = h.topic
      BY <1>4, <2>2 DEF Backed
    <3>2. {docs[i] : i \in {h.ref.id} \cap 1..Len(docs)} = {docs[h.ref.id]}
      BY <3>1
    <3>3. Resolved(t, h.ref) = {docs[h.ref.id]}
      BY <2>2, <3>1, <3>2 DEF Resolved
    <3> QED  BY <3>1, <3>3
  <2> QED  BY <1>4, <2>1, <2>2 DEF Backed
<1>6. (CHOOSE y \in Resolved(t, h.ref) : TRUE) = x
  BY <1>5
<1>7. out' = [out EXCEPT ![r] =
        Append(out[r], [ref |-> h.ref, shown |-> h.topic, scored |-> h.topic])]
  BY <1>2, <1>5, <1>6 DEF Resolve, TypeOK
<1>8. hits' = [hits EXCEPT ![r] = Tail(hits[r])]
  BY DEF Resolve, TypeOK
<1> QED  BY <1>1, <1>2, <1>3, <1>4, <1>7, <1>8

\* It moves from the hits to the list.
LEMMA ResolveMoves ==
  ASSUME TypeOK, IndexInv, FoundInv, NEW r \in Requests, Resolve(r)
  PROVE  \E h, n, m, x :
           /\ h = hits[r][1] /\ n = Len(out[r]) /\ m = Len(hits[r])
           /\ x = [ref |-> h.ref, shown |-> h.topic, scored |-> h.topic]
           /\ n \in Nat /\ m \in Nat \ {0} /\ h \in Items /\ h \in items[Me(r).tenant]
           /\ Len(hits'[r]) = m - 1
           /\ \A i \in 1..(m - 1) : hits'[r][i] = hits[r][i + 1]
           /\ Len(out'[r]) = n + 1
           /\ \A i \in 1..n : out'[r][i] = out[r][i]
           /\ out'[r][n + 1] = x
           /\ Backed(Me(r).tenant, h.ref, h.topic)
<1>1. PICK h, n, m : h = hits[r][1] /\ n = Len(out[r]) /\ m = Len(hits[r])
  OBVIOUS
<1>2. PICK s \in Seq(Items), o \in Seq(Sources) : s = hits[r] /\ o = out[r]
  BY DEF TypeOK
<1>3. PICK x : x = [ref |-> h.ref, shown |-> h.topic, scored |-> h.topic]
  OBVIOUS
<1>4. /\ s # <<>> /\ h \in Items /\ h \in items[Me(r).tenant]
      /\ hits' = [hits EXCEPT ![r] = Tail(s)] /\ out' = [out EXCEPT ![r] = Append(o, x)]
      /\ Backed(Me(r).tenant, h.ref, h.topic)
  BY <1>1, <1>2, <1>3, ResolveAppends
<1>5. x \in Sources
  BY <1>3, <1>4 DEF Items, Sources
<1>6. hits'[r] = Tail(s) /\ out'[r] = Append(o, x)
  BY <1>4 DEF TypeOK
<1>7. /\ Len(s) \in Nat \ {0} /\ Len(Tail(s)) = Len(s) - 1
      /\ \A i \in 1..(Len(s) - 1) : Tail(s)[i] = s[i + 1]
  <2>1. Len(s) \in Nat \ {0}
    BY <1>4
  <2> QED  BY <1>4, <2>1, HeadTailProperties
<1>8. /\ Len(o) \in Nat /\ Len(Append(o, x)) = Len(o) + 1
      /\ \A i \in 1..Len(o) : Append(o, x)[i] = o[i]
      /\ Append(o, x)[Len(o) + 1] = x
  BY <1>5
<1>9. m \in Nat \ {0} /\ Len(hits'[r]) = m - 1 /\ \A i \in 1..(m - 1) : hits'[r][i] = hits[r][i + 1]
  BY <1>1, <1>2, <1>6, <1>7
<1>10. n \in Nat /\ Len(out'[r]) = n + 1 /\ out'[r][n + 1] = x
  BY <1>1, <1>2, <1>6, <1>8
<1>11. \A i \in 1..n : out'[r][i] = out[r][i]
  BY <1>1, <1>2, <1>6, <1>8
<1> WITNESS h, n, m, x
<1> QED  BY <1>1, <1>3, <1>4, <1>9, <1>10, <1>11

\* Every step of a request keeps what it holds in its index and what it lists backed.
LEMMA FoundStep ==
  ASSUME TypeOK, FlowInv, IndexInv, FoundInv, [Next]_vars
  PROVE  FoundInv'
<1>1. ASSUME NEW q \in Requests,
             req'[q] = req[q], hits'[q] = hits[q], out'[q] = out[q]
      PROVE  FoundOf(q)'
  <2>1. PICK t \in Tenants : t = Me(q).tenant /\ t = Me(q)'.tenant
    BY <1>1, RequestType DEF Me
  <2>2. My(q)' = My(q) /\ items[t] \subseteq items'[t]
    BY <1>1, NothingLost DEF My
  <2>3. \A i \in 1..Len(hits[q]) : hits[q][i] \in items'[t]
    BY <2>1, <2>2 DEF FoundInv, FoundOf
  <2>4. ASSUME NEW i \in 1..Len(out[q])
        PROVE  /\ Backed(t, out[q][i].ref, out[q][i].shown)'
               /\ My(q).endpoint \in {"semantic", "why"} =>
                    /\ out[q][i].scored = out[q][i].shown
                    /\ [ref |-> out[q][i].ref, topic |-> out[q][i].scored] \in items'[t]
    <3>1. PICK ref, shown : ref = out[q][i].ref /\ shown = out[q][i].shown
      OBVIOUS
    <3>2. Backed(t, ref, shown)
      BY <2>1, <3>1 DEF FoundInv, FoundOf
    <3>3. Backed(t, ref, shown)'
      BY <3>2, BackedStays
    <3>4. out'[q][i].ref = ref /\ out'[q][i].shown = shown
      BY <1>1, <3>1
    <3>5. Backed(t, out[q][i].ref, out[q][i].shown)'
      BY <3>3, <3>4 DEF Backed
    <3> QED  BY <2>1, <2>2, <3>5 DEF FoundInv, FoundOf
  <2> QED  BY <1>1, <2>1, <2>2, <2>3, <2>4 DEF FoundOf, Backed
<1>2. CASE UNCHANGED <<req, hits, out>>
  BY <1>1, <1>2 DEF FoundInv
<1>3. ASSUME NEW r \in Requests, Handle(r)
      PROVE  FoundInv'
  <2>1. \A q \in Requests \ {r} : FoundOf(q)'
    BY <1>1, <1>3, HandleLocal
  <2>2. FoundOf(r)'
    <3>1. /\ store' = store /\ docs' = docs /\ items' = items /\ feed' = feed
          /\ FlowOf(r) /\ FoundOf(r)
      BY <1>3, HandleLocal DEF FlowInv, FoundInv
    <3>2. CASE Begin(r) \/ Refuse(r) \/ Forbid(r) \/ Audit(r)
      <4>1. hits'[r] = hits[r] /\ out'[r] = out[r] /\ rpc[r] \notin {"resolve", "answered"}
        BY <3>2 DEF Begin, Refuse, Forbid, Audit
      <4>2. hits'[r] = <<>> /\ out'[r] = <<>>
        BY <3>1, <4>1 DEF FlowOf
      <4> QED  BY <4>2 DEF FoundOf
    <3>3. CASE Scan(r)
      <4>1. /\ My(r).endpoint = "search" /\ hits'[r] = <<>>
            /\ Me(r)' = Me(r) /\ My(r)' = My(r)
        BY <3>1, <3>3 DEF Scan, FlowOf, Me, My
      <4> DEFINE matching == {id \in 1..Len(store) : Matches(id, Me(r).tenant, My(r).topic)}
                 got == NewestFirst(matching, Limit(My(r).k, DefaultLimit))
                 m == Least(Limit(My(r).k, DefaultLimit), Cardinality(matching))
                 s == [i \in 1..m |-> [ref |-> Ref("log", got[i]),
                                       shown |-> store[got[i]].topic, scored |-> AnyTopic]]
      <4>2. m \in Nat /\ got \in [1..m -> matching] /\ out' = [out EXCEPT ![r] = s]
        BY <3>3, ScanLists
      <4>3. \A id \in matching : id \in 1..Len(store) /\ store[id].tenant = Me(r).tenant
        BY DEF Matches
      <4> HIDE DEF m, got, matching
      <4>4. Len(s) = m
        BY <4>2
      <4>5. out'[r] = s
        <5> HIDE DEF s
        <5> QED  BY <4>2 DEF TypeOK
      <4>6. ASSUME NEW i \in 1..m
            PROVE  Backed(Me(r).tenant, s[i].ref, s[i].shown)
        <5>1. got[i] \in matching
          BY <4>2
        <5> QED  BY <4>3, <5>1 DEF Backed, Ref
      <4> HIDE DEF s
      <4>7. \A i \in 1..Len(out'[r]) : Backed(Me(r).tenant, out'[r][i].ref, out'[r][i].shown)
        BY <4>4, <4>5, <4>6
      <4>8. \A i \in 1..Len(out'[r]) : Backed(Me(r).tenant, out[r][i].ref, out[r][i].shown)'
        BY <3>1, <4>1, <4>7 DEF Backed
      <4> QED  BY <3>1, <4>1, <4>8 DEF FoundOf
    <3>4. CASE ReadFeed(r)
      <4>1. /\ My(r).endpoint = "anomalies" /\ hits'[r] = <<>>
            /\ Me(r)' = Me(r) /\ My(r)' = My(r)
        BY <3>1, <3>4 DEF ReadFeed, FlowOf, Me, My
      <4> DEFINE mine == {n \in 1..Len(feed) : feed[n] = Me(r).tenant}
                 got == NewestFirst(mine, FeedLimit)
                 m == Least(FeedLimit, Cardinality(mine))
                 s == [i \in 1..m |-> [ref |-> Ref("event", got[i]), shown |-> AnyTopic,
                                       scored |-> AnyTopic]]
      <4>2. m \in Nat /\ got \in [1..m -> mine] /\ out' = [out EXCEPT ![r] = s]
        BY <3>4, ReadFeedLists
      <4>3. \A id \in mine : id \in 1..Len(feed) /\ feed[id] = Me(r).tenant
        OBVIOUS
      <4> HIDE DEF m, got, mine
      <4>4. Len(s) = m
        BY <4>2
      <4>5. out'[r] = s
        <5> HIDE DEF s
        <5> QED  BY <4>2 DEF TypeOK
      <4>6. ASSUME NEW i \in 1..m
            PROVE  Backed(Me(r).tenant, s[i].ref, s[i].shown)
        <5>1. got[i] \in mine
          BY <4>2
        <5> QED  BY <4>3, <5>1 DEF Backed, Ref
      <4> HIDE DEF s
      <4>7. \A i \in 1..Len(out'[r]) : Backed(Me(r).tenant, out'[r][i].ref, out'[r][i].shown)
        BY <4>4, <4>5, <4>6
      <4>8. \A i \in 1..Len(out'[r]) : Backed(Me(r).tenant, out[r][i].ref, out[r][i].shown)'
        BY <3>1, <4>1, <4>7 DEF Backed
      <4> QED  BY <3>1, <4>1, <4>8 DEF FoundOf
    <3>5. CASE Retrieve(r)
      <4>1. out'[r] = <<>> /\ Me(r)' = Me(r)
        BY <3>1, <3>5 DEF Retrieve, FlowOf, Me
      <4>2. PICK m \in Nat : \E s \in [1..m -> items[Me(r).tenant]] :
              hits' = [hits EXCEPT ![r] = s] /\ Len(s) = m
        BY <3>5, RetrieveFinds
      <4>3. hits'[r] \in [1..m -> items[Me(r).tenant]] /\ Len(hits'[r]) = m
        BY <4>2 DEF TypeOK
      <4> QED  BY <3>1, <4>1, <4>3 DEF FoundOf
    <3>6. CASE Resolve(r)
      <4>1. Me(r)' = Me(r) /\ My(r)' = My(r)
        BY <3>6 DEF Resolve, Me, My
      <4>2. PICK h, n, m, x :
              /\ h = hits[r][1] /\ n = Len(out[r]) /\ m = Len(hits[r])
              /\ x = [ref |-> h.ref, shown |-> h.topic, scored |-> h.topic]
              /\ n \in Nat /\ m \in Nat \ {0} /\ h \in Items /\ h \in items[Me(r).tenant]
              /\ Len(hits'[r]) = m - 1
              /\ \A i \in 1..(m - 1) : hits'[r][i] = hits[r][i + 1]
              /\ Len(out'[r]) = n + 1
              /\ \A i \in 1..n : out'[r][i] = out[r][i]
              /\ out'[r][n + 1] = x
              /\ Backed(Me(r).tenant, h.ref, h.topic)
        BY <3>6, ResolveMoves
      <4>3. x.ref = h.ref /\ x.shown = h.topic /\ x.scored = h.topic
        BY <4>2
      <4>4. [ref |-> x.ref, topic |-> x.scored] = h
        BY <4>2, <4>3 DEF Items
      <4>5. \A i \in 1..Len(hits'[r]) : hits'[r][i] \in items'[Me(r).tenant]
        <5>1. \A i \in 1..(m - 1) : i + 1 \in 1..m
          BY <4>2
        <5> QED  BY <3>1, <4>2, <5>1 DEF FoundOf
      <4>6. ASSUME NEW i \in 1..Len(out'[r])
            PROVE  /\ Backed(Me(r).tenant, out'[r][i].ref, out'[r][i].shown)
                   /\ My(r).endpoint \in {"semantic", "why"} =>
                        /\ out'[r][i].scored = out'[r][i].shown
                        /\ [ref |-> out'[r][i].ref, topic |-> out'[r][i].scored]
                             \in items[Me(r).tenant]
        <5>1. CASE i = n + 1
          <6>1. out'[r][i] = x
            BY <4>2, <5>1
          <6>2. x.ref = h.ref /\ x.shown = h.topic /\ x.scored = x.shown
            BY <4>3
          <6> QED  BY <4>2, <4>4, <6>1, <6>2
        <5>2. CASE i # n + 1
          <6>1. out'[r][i] = out[r][i] /\ i \in 1..Len(out[r])
            BY <4>2, <5>2
          <6> QED  BY <3>1, <6>1 DEF FoundOf
        <5> QED  BY <5>1, <5>2
      <4>7. \A i \in 1..Len(out'[r]) : Backed(Me(r).tenant, out[r][i].ref, out[r][i].shown)'
        BY <3>1, <4>1, <4>6 DEF Backed
      <4> QED  BY <3>1, <4>1, <4>5, <4>6, <4>7 DEF FoundOf
    <3>7. CASE Respond(r)
      <4>1. Me(r)' = Me(r) /\ My(r)' = My(r) /\ hits'[r] = <<>>
        BY <3>7 DEF Respond, Me, My
      <4>2. PICK n \in Nat : n = Len(out[r])
        BY DEF TypeOK
      <4>3. /\ Len(out'[r]) \in Nat
            /\ \A i \in 1..Len(out'[r]) : \E j \in 1..n : out'[r][i] = out[r][j]
        <5>1. CASE My(r).endpoint # "why"
          <6>1. out'[r] = out[r]
            BY <3>7, <5>1 DEF Respond, Answer, TypeOK
          <6> QED  BY <4>2, <6>1
        <5>2. CASE My(r).endpoint = "why"
          <6> DEFINE ids == {i \in 1..Len(out[r]) :
                               Score[My(r).topic][out[r][i].scored] >= MinScore}
                     c == Cardinality(ids)
                     cited == InOrder(ids)
          <6>1. /\ ids \in SUBSET (1..Len(out[r])) /\ c \in Nat /\ cited \in [1..c -> ids]
                /\ Grounded(r) = [i \in 1..c |-> out[r][cited[i]]]
            BY GroundedLists
          <6>2. \A i \in ids : i \in 1..n
            BY <4>2
          <6> HIDE DEF ids, c, cited
          <6>3. out'[r] = Grounded(r)
            BY <3>7, <5>2 DEF Respond, Answer, TypeOK
          <6>4. Len(out'[r]) = c /\ \A i \in 1..c : out'[r][i] = out[r][cited[i]]
            BY <6>1, <6>3
          <6> QED  BY <6>1, <6>2, <6>4
        <5> QED  BY <5>1, <5>2
      <4>4. ASSUME NEW i \in 1..Len(out'[r])
            PROVE  /\ Backed(Me(r).tenant, out'[r][i].ref, out'[r][i].shown)
                   /\ My(r).endpoint \in {"semantic", "why"} =>
                        /\ out'[r][i].scored = out'[r][i].shown
                        /\ [ref |-> out'[r][i].ref, topic |-> out'[r][i].scored]
                             \in items[Me(r).tenant]
        <5>1. PICK j \in 1..n : out'[r][i] = out[r][j]
          BY <4>3
        <5> QED  BY <3>1, <4>2, <5>1 DEF FoundOf
      <4>5. \A i \in 1..Len(out'[r]) : Backed(Me(r).tenant, out[r][i].ref, out[r][i].shown)'
        BY <3>1, <4>1, <4>4 DEF Backed
      <4> QED  BY <3>1, <4>1, <4>4, <4>5 DEF FoundOf
    <3> QED  BY <1>3, <3>2, <3>3, <3>4, <3>5, <3>6, <3>7 DEF Handle
  <2> QED  BY <2>1, <2>2 DEF FoundInv
<1>4. CASE SeedDoc \/ IndexDoc \/ Serve \/ WriteEntry \/ IndexEntry \/ RaiseEvent
  BY <1>2, <1>4, GrowStep
<1> QED  BY <1>2, <1>3, <1>4 DEF Next, Terminated, vars

LEMMA FoundInvariant == Spec => [](IndexInv /\ FoundInv)
<1>1. Init => IndexInv /\ FoundInv
  BY DEF Init, IndexInv, FoundInv, FoundOf
<1>2. TypeOK /\ FlowInv /\ IndexInv /\ FoundInv /\ [Next]_vars => (IndexInv /\ FoundInv)'
  BY IndexStep, FoundStep
<1> QED  BY <1>1, <1>2, TypeCorrect, FlowInvariant, PTL DEF Spec

\* No answer lists a text of another tenant, or another text than its reference
\* names, whatever is stored, indexed and raised between its steps.
THEOREM AnswersHold == Spec => []AnswersAreOwn
<1>1. TypeOK /\ FoundInv => AnswersAreOwn
  <2> SUFFICES ASSUME FoundInv, NEW r \in Requests, NEW i \in 1..Len(out[r])
               PROVE  /\ Origin(out[r][i].ref) = [tenant |-> Me(r).tenant, topic |-> out[r][i].shown]
                      /\ My(r).endpoint \in {"semantic", "why"} =>
                           out[r][i].scored = out[r][i].shown
    BY DEF AnswersAreOwn
  <2>1. PICK ref, shown : ref = out[r][i].ref /\ shown = out[r][i].shown
    OBVIOUS
  <2>2. Backed(Me(r).tenant, ref, shown)
    BY <2>1 DEF FoundInv, FoundOf
  <2>3. Origin(ref) = [tenant |-> Me(r).tenant, topic |-> shown]
    <3>1. CASE ref.kind = "log"
      BY <2>2, <3>1 DEF Backed, Origin
    <3>2. CASE ref.kind = "kb"
      BY <2>2, <3>2 DEF Backed, Origin
    <3>3. CASE ref.kind = "event"
      BY <2>2, <3>3 DEF Backed, Origin
    <3> QED  BY <2>2, <3>1, <3>2, <3>3 DEF Backed
  <2> QED  BY <2>1, <2>3 DEF FoundInv, FoundOf
<1> QED  BY <1>1, TypeCorrect, FoundInvariant, PTL

-----------------------------------------------------------------------------
(* What was there when a request came *)

\* It still is.
KnownOf(r) ==
  /\ known[r].entries <= Len(store) /\ known[r].events <= Len(feed)
  /\ known[r].items \subseteq items[Me(r).tenant]

KnownInv == \A r \in Requests : KnownOf(r)

LEMMA KnownType ==
  ASSUME TypeOK, NEW r \in Requests
  PROVE  /\ known[r].entries \in Nat /\ known[r].events \in Nat
         /\ known[r].items \in SUBSET Items
<1>1. known[r] \in [entries : Nat, items : SUBSET Items, events : Nat]
  BY DEF TypeOK
<1> QED  BY <1>1

LEMMA KnownStep ==
  ASSUME TypeOK, FlowInv, KnownInv, [Next]_vars
  PROVE  KnownInv'
<1>1. ASSUME NEW q \in Requests, req'[q] = req[q], known'[q] = known[q]
      PROVE  KnownOf(q)'
  <2>1. PICK t \in Tenants : t = Me(q).tenant /\ t = Me(q)'.tenant
    BY <1>1, RequestType DEF Me
  <2>2. /\ known[q].entries <= Len(store) /\ known[q].events <= Len(feed)
        /\ known[q].items \subseteq items[t]
    BY <2>1 DEF KnownInv, KnownOf
  <2>3. /\ Len(store) <= Len(store') /\ Len(feed) <= Len(feed') /\ items[t] \subseteq items'[t]
        /\ Len(store) \in Nat /\ Len(feed) \in Nat /\ Len(store') \in Nat /\ Len(feed') \in Nat
    BY NothingLost
  <2>4. known[q].entries <= Len(store') /\ known[q].events <= Len(feed')
    BY <2>2, <2>3, KnownType
  <2> QED  BY <1>1, <2>1, <2>2, <2>3, <2>4 DEF KnownOf
<1>2. CASE UNCHANGED <<req, known>>
  BY <1>1, <1>2 DEF KnownInv
<1>3. ASSUME NEW r \in Requests, Handle(r)
      PROVE  KnownInv'
  <2>1. \A q \in Requests \ {r} : KnownOf(q)'
    BY <1>1, <1>3, HandleLocal
  <2>2. CASE Begin(r)
    <3>1. PICK id \in Identities, q \in Queries :
            /\ req'[r] = [id |-> id, query |-> q]
            /\ known'[r] = [entries |-> Len(store), items |-> items[id.tenant],
                            events |-> Len(feed)]
      BY <2>2 DEF Begin, TypeOK
    <3>2. store' = store /\ items' = items /\ feed' = feed
      BY <1>3, HandleLocal
    <3>3. Len(store) <= Len(store) /\ Len(feed) <= Len(feed)
      BY NothingLost
    <3>4. KnownOf(r)'
      BY <3>1, <3>2, <3>3 DEF KnownOf, Me
    <3> QED  BY <2>1, <3>4 DEF KnownInv
  <2>3. CASE ~Begin(r)
    BY <1>2, <1>3, <2>3
       DEF Handle, Refuse, Forbid, Audit, Scan, ReadFeed, Retrieve, Resolve, Respond
  <2> QED  BY <2>2, <2>3
<1>4. CASE SeedDoc \/ IndexDoc \/ Serve \/ WriteEntry \/ IndexEntry \/ RaiseEvent
  BY <1>2, <1>4, GrowStep
<1> QED  BY <1>2, <1>3, <1>4 DEF Next, Terminated, vars

LEMMA KnownInvariant == Spec => []KnownInv
<1>1. Init => KnownInv
  BY DEF Init, KnownInv, KnownOf
<1>2. TypeOK /\ FlowInv /\ KnownInv /\ [Next]_vars => KnownInv'
  BY KnownStep
<1> QED  BY <1>1, <1>2, TypeCorrect, FlowInvariant, PTL DEF Spec

-----------------------------------------------------------------------------
(* Searches by time *)

\* A list that is newest first, within its limit, and misses of what was there only
\* what is older than a full list.
NewestIn(o, full, there) ==
  /\ \A i, j \in DOMAIN o : i < j => o[i].ref.id > o[j].ref.id
  /\ Cardinality(DOMAIN o) <= full
  /\ \A n \in there :
       \/ \E i \in DOMAIN o : o[i].ref.id = n
       \/ Cardinality(DOMAIN o) = full /\ \A i \in DOMAIN o : o[i].ref.id > n

Full(r) == IF My(r).endpoint = "search" THEN Limit(My(r).k, DefaultLimit) ELSE FeedLimit

There(r) ==
  IF My(r).endpoint = "search"
  THEN {n \in 1..known[r].entries : Matches(n, Me(r).tenant, My(r).topic)}
  ELSE {n \in 1..known[r].events : feed[n] = Me(r).tenant}

NewestOf(r) ==
  rpc[r] = "answered" /\ My(r).endpoint \in {"search", "anomalies"} =>
    NewestIn(out[r], Full(r), There(r))

\* A loop from the end makes such a list.
LEMMA NewestFirstIsNewest ==
  ASSUME NEW N \in Nat, NEW ids \in SUBSET (1..N), NEW full \in Nat,
         NEW there \in SUBSET ids, NEW o,
         DOMAIN o = 1..Least(full, Cardinality(ids)),
         \A i \in DOMAIN o : o[i].ref.id = NewestFirst(ids, full)[i]
  PROVE  NewestIn(o, full, there)
<1>1. PICK s, m : s = NewestFirst(ids, full) /\ m = Least(full, Cardinality(ids))
  OBVIOUS
<1>2. /\ m \in Nat /\ m <= full
      /\ \A i, j \in 1..m : i < j => s[i] > s[j]
      /\ \A x \in ids : (\A i \in 1..m : s[i] # x) => m = full /\ (\A i \in 1..m : s[i] > x)
  BY <1>1, NewestLists
<1>3. DOMAIN o = 1..m /\ \A i \in 1..m : o[i].ref.id = s[i]
  BY <1>1
<1>4. Cardinality(DOMAIN o) = m
  BY <1>2, <1>3, FS_Interval
<1>5. ASSUME NEW i \in DOMAIN o, NEW j \in DOMAIN o, i < j
      PROVE  o[i].ref.id > o[j].ref.id
  <2>1. i \in 1..m /\ j \in 1..m
    BY <1>3
  <2>2. s[i] > s[j]
    BY <1>2, <1>5, <2>1
  <2> QED  BY <1>3, <2>1, <2>2
<1>6. ASSUME NEW n \in there
      PROVE  \/ \E i \in DOMAIN o : o[i].ref.id = n
             \/ Cardinality(DOMAIN o) = full /\ \A i \in DOMAIN o : o[i].ref.id > n
  <2>1. CASE \E i \in 1..m : s[i] = n
    BY <1>3, <2>1
  <2>2. CASE \A i \in 1..m : s[i] # n
    <3>1. m = full /\ \A i \in 1..m : s[i] > n
      BY <1>2, <2>2
    <3> QED  BY <1>3, <1>4, <3>1
  <2> QED  BY <2>1, <2>2
<1>7. Cardinality(DOMAIN o) <= full
  BY <1>2, <1>4
<1> QED  BY <1>5, <1>6, <1>7 DEF NewestIn

LEMMA NewestStep ==
  ASSUME TypeOK, FlowInv, KnownInv, \A r \in Requests : NewestOf(r), [Next]_vars
  PROVE  \A r \in Requests : NewestOf(r)'
<1>1. ASSUME NEW q \in Requests, rpc'[q] = rpc[q], req'[q] = req[q], out'[q] = out[q],
             known'[q] = known[q]
      PROVE  NewestOf(q)'
  <2>1. Me(q)' = Me(q) /\ My(q)' = My(q)
    BY <1>1 DEF Me, My
  <2>2. Full(q)' = Full(q)
    BY <2>1 DEF Full
  <2>3. There(q)' = There(q)
    <3>1. /\ known[q].entries \in Nat /\ known[q].entries <= Len(store) /\ Len(store) \in Nat
          /\ known[q].events \in Nat /\ known[q].events <= Len(feed) /\ Len(feed) \in Nat
      BY KnownType, NothingLost DEF KnownInv, KnownOf
    <3>2. /\ \A i \in 1..known[q].entries : store'[i] = store[i]
          /\ \A i \in 1..known[q].events : feed'[i] = feed[i]
      BY <3>1, NothingLost
    <3> QED  BY <1>1, <2>1, <3>2 DEF There, Matches
  <2> QED  BY <1>1, <2>1, <2>2, <2>3 DEF NewestOf
<1>2. CASE UNCHANGED <<rpc, req, out, known>>
  BY <1>1, <1>2
<1>3. ASSUME NEW r \in Requests, Handle(r)
      PROVE  \A q \in Requests : NewestOf(q)'
  <2>1. \A q \in Requests \ {r} : NewestOf(q)'
    BY <1>1, <1>3, HandleLocal
  <2>2. NewestOf(r)'
    <3>1. store' = store /\ feed' = feed /\ FlowOf(r) /\ KnownOf(r)
      BY <1>3, HandleLocal DEF FlowInv, KnownInv
    <3>2. CASE Begin(r) \/ Refuse(r) \/ Forbid(r) \/ Audit(r) \/ Retrieve(r) \/ Resolve(r)
      <4>1. rpc'[r] # "answered"
        BY <3>2 DEF Begin, Refuse, Forbid, Audit, AfterAudit, Retrieve, Resolve, TypeOK
      <4> QED  BY <4>1 DEF NewestOf
    <3>3. CASE Respond(r)
      <4>1. My(r)' = My(r) /\ My(r).endpoint \in {"semantic", "why"}
        BY <3>1, <3>3 DEF Respond, FlowOf, My
      <4> QED  BY <4>1 DEF NewestOf
    <3>4. CASE Scan(r)
      <4>1. /\ Me(r)' = Me(r) /\ My(r)' = My(r) /\ known' = known
            /\ My(r).endpoint = "search"
        BY <3>1, <3>4 DEF Scan, FlowOf, Me, My
      <4> DEFINE matching == {id \in 1..Len(store) : Matches(id, Me(r).tenant, My(r).topic)}
                 k == Limit(My(r).k, DefaultLimit)
                 got == NewestFirst(matching, k)
                 m == Least(k, Cardinality(matching))
                 s == [i \in 1..m |-> [ref |-> Ref("log", got[i]),
                                       shown |-> store[got[i]].topic, scored |-> AnyTopic]]
      <4>2. /\ matching \in SUBSET (1..Len(store)) /\ out' = [out EXCEPT ![r] = s]
            /\ Len(store) \in Nat
        BY <3>4, ScanLists, NothingLost
      <4>3. k \in Nat
        BY RequestType, LimitType, ConstantType
      <4>4. There(r) \in SUBSET matching
        <5>1. known[r].entries \in Nat /\ known[r].entries <= Len(store)
          BY <3>1, KnownType DEF KnownOf
        <5> QED  BY <4>1, <4>2, <5>1 DEF There
      <4>5. DOMAIN s = 1..m /\ \A i \in DOMAIN s : s[i].ref.id = got[i]
        BY DEF Ref
      <4>6. out'[r] = s
        <5> HIDE DEF s
        <5> QED  BY <4>2 DEF TypeOK
      <4> HIDE DEF s, matching, k
      <4>7. NewestIn(s, k, There(r))
        BY <4>2, <4>3, <4>4, <4>5, NewestFirstIsNewest
      <4>8. Full(r)' = k /\ There(r)' = There(r)
        BY <3>1, <4>1 DEF Full, There, Matches, k
      <4> QED  BY <4>6, <4>7, <4>8 DEF NewestOf
    <3>5. CASE ReadFeed(r)
      <4>1. /\ Me(r)' = Me(r) /\ My(r)' = My(r) /\ known' = known
            /\ My(r).endpoint = "anomalies"
        BY <3>5 DEF ReadFeed, Me, My
      <4> DEFINE mine == {n \in 1..Len(feed) : feed[n] = Me(r).tenant}
                 got == NewestFirst(mine, FeedLimit)
                 m == Least(FeedLimit, Cardinality(mine))
                 s == [i \in 1..m |-> [ref |-> Ref("event", got[i]), shown |-> AnyTopic,
                                       scored |-> AnyTopic]]
      <4>2. /\ mine \in SUBSET (1..Len(feed)) /\ out' = [out EXCEPT ![r] = s]
            /\ Len(feed) \in Nat
        BY <3>5, ReadFeedLists, NothingLost
      <4>3. FeedLimit \in Nat
        BY ConstantType
      <4>4. There(r) \in SUBSET mine
        <5>1. known[r].events \in Nat /\ known[r].events <= Len(feed)
          BY <3>1, KnownType DEF KnownOf
        <5> QED  BY <4>1, <4>2, <5>1 DEF There
      <4>5. DOMAIN s = 1..m /\ \A i \in DOMAIN s : s[i].ref.id = got[i]
        BY DEF Ref
      <4>6. out'[r] = s
        <5> HIDE DEF s
        <5> QED  BY <4>2 DEF TypeOK
      <4> HIDE DEF s, mine
      <4>7. NewestIn(s, FeedLimit, There(r))
        BY <4>2, <4>3, <4>4, <4>5, NewestFirstIsNewest
      <4>8. Full(r)' = FeedLimit /\ There(r)' = There(r)
        BY <3>1, <4>1 DEF Full, There, Matches
      <4> QED  BY <4>6, <4>7, <4>8 DEF NewestOf
    <3> QED  BY <1>3, <3>2, <3>3, <3>4, <3>5 DEF Handle
  <2> QED  BY <2>1, <2>2
<1>4. CASE SeedDoc \/ IndexDoc \/ Serve \/ WriteEntry \/ IndexEntry \/ RaiseEvent
  BY <1>2, <1>4, GrowStep
<1> QED  BY <1>2, <1>3, <1>4 DEF Next, Terminated, vars

\* A structured search and a read of the feed answer newest first, and miss nothing
\* that was there when they came but what is older than a full answer.
THEOREM NewestHold == Spec => []NewestAreFound
<1> DEFINE I == \A r \in Requests : NewestOf(r)
<1>1. Init => I
  BY DEF Init, NewestOf
<1>2. TypeOK /\ FlowInv /\ KnownInv /\ I /\ [Next]_vars => I'
  BY NewestStep
<1>3. I => NewestAreFound
  BY DEF NewestAreFound, NewestOf, NewestIn, Full, There
<1> HIDE DEF I
<1> QED  BY <1>1, <1>2, <1>3, TypeCorrect, FlowInvariant, KnownInvariant, PTL DEF Spec

-----------------------------------------------------------------------------
(* Searches by meaning *)

\* The hits of a request while it resolves them: those resolved, then the rest.
Hit(r, i) ==
  IF i <= Len(out[r]) THEN [ref |-> out[r][i].ref, topic |-> out[r][i].scored]
  ELSE hits[r][i - Len(out[r])]

HitsOf(r) ==
  rpc[r] = "resolve" =>
    LET n == Len(out[r]) + Len(hits[r])
    IN  Best([i \in 1..n |-> Hit(r, i)], n, My(r).topic, Limit(My(r).k, DefaultK), known[r].items)

\* The answer, of which a question omits what does not reach MinScore.
Cites(o, topic, full, there, question) ==
  /\ \A i, j \in DOMAIN o :
       i < j => Score[topic][o[i].scored] >= Score[topic][o[j].scored]
  /\ \A x \in there :
       \/ question /\ Score[topic][x.topic] < MinScore
       \/ \E i \in DOMAIN o : o[i].ref = x.ref
       \/ /\ Cardinality(DOMAIN o) = full
          /\ \A i \in DOMAIN o : Score[topic][o[i].scored] >= Score[topic][x.topic]

EvidenceOf(r) ==
  rpc[r] = "answered" /\ My(r).endpoint \in {"semantic", "why"} =>
    Cites(out[r], My(r).topic, Limit(My(r).k, DefaultK), known[r].items,
          My(r).endpoint = "why")

EvidenceInv == \A r \in Requests : HitsOf(r) /\ EvidenceOf(r)

LEMMA FirstCounted ==
  ASSUME NEW n \in Nat
  PROVE  Cardinality(1..n) = n
  BY FS_Interval

\* When all hits are resolved the list is the best, and so are the citations of it
\* that reach MinScore.
LEMMA AllAreCited ==
  ASSUME NEW o, NEW n \in Nat, DOMAIN o = 1..n, NEW topic, NEW full, NEW there,
         NEW f, \A i \in 1..n : f[i].ref = o[i].ref /\ f[i].topic = o[i].scored,
         Best(f, n, topic, full, there)
  PROVE  Cites(o, topic, full, there, FALSE)
<1>1. Cardinality(1..n) = n
  BY FirstCounted
<1>2. ASSUME NEW x \in there
      PROVE  \/ \E i \in 1..n : o[i].ref = x.ref
             \/ n = full /\ \A i \in 1..n : Score[topic][o[i].scored] >= Score[topic][x.topic]
  <2>1. CASE \E i \in 1..n : f[i] = x
    BY <2>1
  <2>2. CASE \A i \in 1..n : f[i] # x
    BY <2>2 DEF Best
  <2> QED  BY <2>1, <2>2
<1>3. \A i, j \in 1..n : i < j => Score[topic][o[i].scored] >= Score[topic][o[j].scored]
  BY DEF Best
<1> QED  BY <1>1, <1>2, <1>3 DEF Cites

\* What a question cites of its n hits: c of them, in their order, none of those
\* that reach MinScore left out.
Picks(g, o, n, c, cited, topic) ==
  /\ \A i \in 1..c : cited[i] \in 1..n
  /\ \A i, j \in 1..c : i < j => cited[i] < cited[j]
  /\ \A j \in 1..n :
       Score[topic][o[j].scored] >= MinScore => \E i \in 1..c : cited[i] = j
  /\ (\A j \in 1..n : Score[topic][o[j].scored] >= MinScore) => c = n
  /\ DOMAIN g = 1..c /\ \A i \in 1..c : g[i] = o[cited[i]]

Lists(o, f, n) ==
  /\ DOMAIN o = 1..n
  /\ \A i \in 1..n : f[i].ref = o[i].ref /\ f[i].topic = o[i].scored

LEMMA GroundedIsCited ==
  ASSUME NEW n \in Nat, NEW c \in Nat, NEW topic, NEW full, NEW there,
         NEW o, NEW f, NEW g, NEW cited,
         Lists(o, f, n), Best(f, n, topic, full, there), Picks(g, o, n, c, cited, topic),
         \A i \in 1..n : Score[topic][o[i].scored] \in Nat,
         \A x \in there : Score[topic][x.topic] \in Nat
  PROVE  Cites(g, topic, full, there, TRUE)
<1>1. /\ DOMAIN o = 1..n
      /\ \A i \in 1..n : f[i].ref = o[i].ref /\ f[i].topic = o[i].scored
  BY DEF Lists
<1>2. /\ \A i \in 1..c : cited[i] \in 1..n
      /\ \A i, j \in 1..c : i < j => cited[i] < cited[j]
      /\ DOMAIN g = 1..c /\ \A i \in 1..c : g[i] = o[cited[i]]
  BY DEF Picks
<1>3. /\ \A j \in 1..n :
           Score[topic][o[j].scored] >= MinScore => \E i \in 1..c : cited[i] = j
      /\ (\A j \in 1..n : Score[topic][o[j].scored] >= MinScore) => c = n
  BY DEF Picks
<1>4. \A i, j \in 1..n : i < j => Score[topic][o[i].scored] >= Score[topic][o[j].scored]
  BY <1>1 DEF Best
<1>5. \A i, j \in 1..c : i < j => Score[topic][o[cited[i]].scored] >= Score[topic][o[cited[j]].scored]
  BY <1>2, <1>4
<1>6. ASSUME NEW x \in there, ~(Score[topic][x.topic] < MinScore)
      PROVE  \/ \E i \in 1..c : o[cited[i]].ref = x.ref
             \/ /\ c = full
                /\ \A i \in 1..c : Score[topic][o[cited[i]].scored] >= Score[topic][x.topic]
  <2>1. Score[topic][x.topic] \in Nat /\ MinScore \in Nat /\ Score[topic][x.topic] >= MinScore
    BY <1>6, ConstantType
  <2>2. ASSUME NEW j \in 1..n, f[j] = x
        PROVE  \E i \in 1..c : o[cited[i]].ref = x.ref
    <3>1. Score[topic][o[j].scored] = Score[topic][x.topic]
      BY <1>1, <2>2
    <3>2. PICK i \in 1..c : cited[i] = j
      BY <1>3, <2>1, <3>1
    <3> QED  BY <1>1, <2>2, <3>2
  <2>3. ASSUME \A j \in 1..n : f[j] # x
        PROVE  /\ c = full
               /\ \A i \in 1..c : Score[topic][o[cited[i]].scored] >= Score[topic][x.topic]
    <3>1. n = full
      BY <2>3 DEF Best
    <3>2. ASSUME NEW i \in 1..n
          PROVE  Score[topic][o[i].scored] >= Score[topic][x.topic]
      <4>1. Score[topic][f[i].topic] >= Score[topic][x.topic]
        BY <2>3 DEF Best
      <4> QED  BY <1>1, <4>1
    <3>3. ASSUME NEW i \in 1..n
          PROVE  Score[topic][o[i].scored] >= MinScore
      <4>1. Score[topic][o[i].scored] \in Nat
        OBVIOUS
      <4> QED  BY <2>1, <3>2, <4>1
    <3>4. c = n
      BY <1>3, <3>3
    <3>5. \A i \in 1..c : Score[topic][o[cited[i]].scored] >= Score[topic][x.topic]
      BY <1>2, <3>2
    <3> QED  BY <3>1, <3>4, <3>5
  <2> QED  BY <2>2, <2>3
<1>7. Cardinality(DOMAIN g) = c
  BY <1>2, FirstCounted
<1>8. \A i, j \in DOMAIN g : i < j => Score[topic][g[i].scored] >= Score[topic][g[j].scored]
  BY <1>2, <1>5
<1>9. ASSUME NEW x \in there, ~(Score[topic][x.topic] < MinScore)
      PROVE  \/ \E i \in DOMAIN g : g[i].ref = x.ref
             \/ /\ Cardinality(DOMAIN g) = full
                /\ \A i \in DOMAIN g : Score[topic][g[i].scored] >= Score[topic][x.topic]
  <2>1. CASE \E i \in 1..c : o[cited[i]].ref = x.ref
    BY <1>2, <2>1
  <2>2. CASE /\ c = full
             /\ \A i \in 1..c : Score[topic][o[cited[i]].scored] >= Score[topic][x.topic]
    BY <1>2, <1>7, <2>2
  <2> QED  BY <1>6, <1>9, <2>1, <2>2
<1> QED  BY <1>8, <1>9 DEF Cites

LEMMA EvidenceStep ==
  ASSUME TypeOK, FlowInv, IndexInv, FoundInv, KnownInv, EvidenceInv, [Next]_vars
  PROVE  EvidenceInv'
<1>1. ASSUME NEW q \in Requests, rpc'[q] = rpc[q], req'[q] = req[q], out'[q] = out[q],
             hits'[q] = hits[q], known'[q] = known[q]
      PROVE  HitsOf(q)' /\ EvidenceOf(q)'
  <2>1. My(q)' = My(q)
    BY <1>1 DEF My
  <2>2. HitsOf(q) /\ EvidenceOf(q)
    BY DEF EvidenceInv
  <2>3. \A i : Hit(q, i)' = Hit(q, i)
    BY <1>1 DEF Hit
  <2>4. HitsOf(q)'
    BY <1>1, <2>1, <2>2, <2>3 DEF HitsOf
  <2>5. EvidenceOf(q)'
    BY <1>1, <2>1, <2>2 DEF EvidenceOf
  <2> QED  BY <2>4, <2>5
<1>2. CASE UNCHANGED <<rpc, req, out, hits, known>>
  BY <1>1, <1>2 DEF EvidenceInv
<1>3. ASSUME NEW r \in Requests, Handle(r)
      PROVE  EvidenceInv'
  <2>1. \A q \in Requests \ {r} : HitsOf(q)' /\ EvidenceOf(q)'
    BY <1>1, <1>3, HandleLocal
  <2>2. HitsOf(r)' /\ EvidenceOf(r)'
    <3>1. FlowOf(r) /\ FoundOf(r) /\ KnownOf(r) /\ HitsOf(r)
      BY DEF FlowInv, FoundInv, KnownInv, EvidenceInv
    <3>2. CASE Begin(r) \/ Refuse(r) \/ Forbid(r) \/ Audit(r)
      <4>1. rpc'[r] # "answered" /\ rpc'[r] # "resolve"
        BY <3>2 DEF Begin, Refuse, Forbid, Audit, AfterAudit, TypeOK
      <4> QED  BY <4>1 DEF HitsOf, EvidenceOf
    <3>3. CASE Scan(r) \/ ReadFeed(r)
      <4>1. My(r)' = My(r) /\ My(r).endpoint \in {"search", "anomalies"} /\ rpc'[r] = "answered"
        BY <3>1, <3>3 DEF Scan, ReadFeed, Answer, FlowOf, My, TypeOK
      <4> QED  BY <4>1 DEF HitsOf, EvidenceOf
    <3>4. CASE Retrieve(r)
      <4>1. out'[r] = <<>> /\ My(r)' = My(r) /\ known' = known /\ rpc'[r] = "resolve"
        BY <3>1, <3>4 DEF Retrieve, FlowOf, My, TypeOK
      <4> DEFINE S == items[Me(r).tenant]
                 topic == My(r).topic
                 k == Limit(My(r).k, DefaultK)
      <4>2. \E m \in Nat : \E s \in [1..m -> S] :
              /\ hits' = [hits EXCEPT ![r] = s] /\ Len(s) = m
              /\ Best(s, m, topic, k, S)
        BY <3>4, RetrieveFinds
      <4>3. known[r].items \subseteq S
        BY <3>1 DEF KnownOf
      <4> HIDE DEF S, topic, k
      <4>4. PICK m \in Nat : \E s \in [1..m -> S] :
              /\ hits' = [hits EXCEPT ![r] = s] /\ Len(s) = m
              /\ Best(s, m, topic, k, S)
        BY <4>2
      <4>5. PICK s \in [1..m -> S] :
              /\ hits' = [hits EXCEPT ![r] = s] /\ Len(s) = m
              /\ Best(s, m, topic, k, S)
        BY <4>4
      <4>6. hits'[r] = s
        BY <4>5 DEF TypeOK
      <4>7. Len(out'[r]) = 0 /\ Len(out'[r]) + Len(hits'[r]) = m
        BY <4>1, <4>5, <4>6
      <4>8. \A i \in 1..m : Hit(r, i)' = s[i]
        <5>1. \A i \in 1..m : ~(i <= 0) /\ i - 0 = i
          OBVIOUS
        <5> QED  BY <4>6, <4>7, <5>1 DEF Hit
      <4>9. [i \in 1..m |-> Hit(r, i)'] = s
        BY <4>8
      <4>10. Best(s, m, topic, k, known[r].items)
        BY <4>3, <4>5 DEF Best
      <4> QED  BY <4>1, <4>7, <4>9, <4>10 DEF HitsOf, EvidenceOf, topic, k
    <3>5. CASE Resolve(r)
      <4>1. My(r)' = My(r) /\ known' = known /\ rpc' = rpc /\ rpc[r] = "resolve"
        BY <3>5 DEF Resolve, My
      <4>2. PICK h, n, m, x :
              /\ h = hits[r][1] /\ n = Len(out[r]) /\ m = Len(hits[r])
              /\ x = [ref |-> h.ref, shown |-> h.topic, scored |-> h.topic]
              /\ n \in Nat /\ m \in Nat \ {0} /\ h \in Items /\ h \in items[Me(r).tenant]
              /\ Len(hits'[r]) = m - 1
              /\ \A i \in 1..(m - 1) : hits'[r][i] = hits[r][i + 1]
              /\ Len(out'[r]) = n + 1
              /\ \A i \in 1..n : out'[r][i] = out[r][i]
              /\ out'[r][n + 1] = x
              /\ Backed(Me(r).tenant, h.ref, h.topic)
        BY <3>5, ResolveMoves
      <4>3. /\ n \in Nat /\ m \in Nat \ {0} /\ h \in Items
            /\ Len(hits'[r]) = m - 1
            /\ \A i \in 1..(m - 1) : hits'[r][i] = hits[r][i + 1]
            /\ Len(out'[r]) = n + 1
            /\ \A i \in 1..n : out'[r][i] = out[r][i]
            /\ out'[r][n + 1] = [ref |-> h.ref, shown |-> h.topic, scored |-> h.topic]
        BY <4>2
      <4>4. Len(out'[r]) + Len(hits'[r]) = n + m
        BY <4>3
      <4>5. ASSUME NEW i \in 1..(n + m)
            PROVE  Hit(r, i)' = Hit(r, i)
        <5>1. CASE i <= n
          <6>1. i \in 1..n /\ i <= n + 1
            BY <4>3, <5>1
          <6> QED  BY <4>2, <4>3, <5>1, <6>1 DEF Hit
        <5>2. CASE i = n + 1
          <6>1. Hit(r, i)' = [ref |-> h.ref, topic |-> h.topic]
            BY <4>3, <5>2 DEF Hit
          <6>2. Hit(r, i) = h
            BY <4>2, <4>3, <5>2 DEF Hit
          <6> QED  BY <4>3, <6>1, <6>2 DEF Items
        <5>3. CASE i > n + 1
          <6>1. i - (n + 1) \in 1..(m - 1) /\ i - (n + 1) + 1 = i - n /\ ~(i <= n + 1) /\ ~(i <= n)
            BY <4>3, <5>3
          <6>2. Hit(r, i)' = hits[r][i - (n + 1) + 1]
            BY <4>3, <6>1 DEF Hit
          <6> QED  BY <4>2, <6>1, <6>2 DEF Hit
        <5> QED  BY <4>3, <5>1, <5>2, <5>3
      <4>6. [i \in 1..(n + m) |-> Hit(r, i)'] = [i \in 1..(n + m) |-> Hit(r, i)]
        BY <4>5
      <4> QED  BY <3>1, <4>1, <4>2, <4>4, <4>6 DEF HitsOf, EvidenceOf
    <3>6. CASE Respond(r)
      <4>1. /\ My(r)' = My(r) /\ known' = known /\ rpc'[r] = "answered" /\ rpc[r] = "resolve"
            /\ hits[r] = <<>> /\ My(r).endpoint \in {"semantic", "why"}
        BY <3>1, <3>6 DEF Respond, Answer, FlowOf, My, TypeOK
      <4>2. PICK n \in Nat, o \in Seq(Sources) : o = out[r] /\ n = Len(o) /\ DOMAIN o = 1..n
        BY DEF TypeOK
      <4>3. PICK f, topic, k, there :
              /\ f = [i \in 1..n |-> Hit(r, i)] /\ topic = My(r).topic
              /\ k = Limit(My(r).k, DefaultK) /\ there = known[r].items
        OBVIOUS
      <4>4. Best(f, n, topic, k, there)
        <5>1. Len(out[r]) + Len(hits[r]) = n
          BY <4>1, <4>2
        <5> QED  BY <3>1, <4>1, <4>3, <5>1 DEF HitsOf
      <4>5. \A i \in 1..n : f[i].ref = o[i].ref /\ f[i].topic = o[i].scored
        <5>1. \A i \in 1..n : i <= n
          OBVIOUS
        <5> QED  BY <4>2, <4>3, <5>1 DEF Hit
      <4>6. CASE My(r).endpoint = "semantic"
        <5>1. out'[r] = o
          BY <3>6, <4>2, <4>6 DEF Respond, Answer, TypeOK
        <5>2. Cites(o, topic, k, there, FALSE)
          BY <4>2, <4>4, <4>5, AllAreCited
        <5> QED  BY <4>1, <4>3, <4>6, <5>1, <5>2 DEF HitsOf, EvidenceOf
      <4>7. CASE My(r).endpoint = "why"
        <5> DEFINE ids == {i \in 1..Len(out[r]) :
                             Score[My(r).topic][out[r][i].scored] >= MinScore}
                   c == Cardinality(ids)
                   cited == InOrder(ids)
        <5>1. /\ c \in Nat /\ cited \in [1..c -> ids]
              /\ \A i, j \in 1..c : i < j => cited[i] < cited[j]
              /\ \A x \in ids : \E i \in 1..c : cited[i] = x
              /\ Grounded(r) = [i \in 1..c |-> out[r][cited[i]]]
          BY GroundedLists
        <5>2. ids = {i \in 1..n : Score[topic][o[i].scored] >= MinScore}
          BY <4>2, <4>3
        <5>3. out'[r] = Grounded(r)
          BY <3>6, <4>7 DEF Respond, Answer, TypeOK
        <5>4. topic \in Topics
          BY <4>1, <4>3, RequestType
        <5>5. \A i \in 1..n : Score[topic][o[i].scored] \in Nat
          <6>1. \A i \in 1..n : [ref |-> o[i].ref, topic |-> o[i].scored] \in Items
            BY <3>1, <4>1, <4>2, RequestType DEF FoundOf, TypeOK
          <6>2. \A i \in 1..n : o[i].scored \in Topics
            BY <6>1 DEF Items
          <6> QED  BY <5>4, <6>2, ConstantType
        <5>6. \A x \in there : Score[topic][x.topic] \in Nat
          <6>1. \A x \in there : x \in Items
            BY <4>3, KnownType
          <6>2. \A x \in there : x.topic \in Topics
            BY <6>1 DEF Items
          <6> QED  BY <5>4, <6>2, ConstantType
        <5> HIDE DEF ids, cited, c
        <5>7. \A j \in 1..n :
                Score[topic][o[j].scored] >= MinScore => \E i \in 1..c : cited[i] = j
          BY <5>1, <5>2
        <5>8. ASSUME \A j \in 1..n : Score[topic][o[j].scored] >= MinScore
              PROVE  c = n
          <6>1. ids = 1..n
            BY <5>2, <5>8
          <6> QED  BY <4>2, <6>1, FirstCounted DEF c
        <5>9. \A i \in 1..c : cited[i] \in 1..n
          BY <5>1, <5>2
        <5>10. PICK g : g = Grounded(r) /\ DOMAIN g = 1..c /\ \A i \in 1..c : g[i] = o[cited[i]]
          BY <4>2, <5>1
        <5>11. Picks(g, o, n, c, cited, topic)
          BY <5>1, <5>7, <5>8, <5>9, <5>10 DEF Picks
        <5>12. Lists(o, f, n)
          BY <4>2, <4>5 DEF Lists
        <5>13. Cites(g, topic, k, there, TRUE)
          BY <4>4, <5>1, <5>5, <5>6, <5>11, <5>12, GroundedIsCited
        <5> QED  BY <4>1, <4>3, <4>7, <5>3, <5>10, <5>13 DEF HitsOf, EvidenceOf
      <4> QED  BY <4>1, <4>6, <4>7
    <3> QED  BY <1>3, <3>2, <3>3, <3>4, <3>5, <3>6 DEF Handle
  <2> QED  BY <2>1, <2>2 DEF EvidenceInv
<1>4. CASE SeedDoc \/ IndexDoc \/ Serve \/ WriteEntry \/ IndexEntry \/ RaiseEvent
  BY <1>2, <1>4, GrowStep
<1> QED  BY <1>2, <1>3, <1>4 DEF Next, Terminated, vars

\* A search by meaning misses of what was indexed when it came only what scores no
\* better than a full answer, and a question only that or what is below MinScore.
THEOREM EvidenceHolds == Spec => []EvidenceIsCited
<1>1. Init => EvidenceInv
  BY DEF Init, EvidenceInv, HitsOf, EvidenceOf
<1>2. TypeOK /\ FlowInv /\ IndexInv /\ FoundInv /\ KnownInv /\ EvidenceInv /\ [Next]_vars
        => EvidenceInv'
  BY EvidenceStep
<1>3. EvidenceInv => EvidenceIsCited
  BY DEF EvidenceInv, EvidenceOf, Cites, EvidenceIsCited
<1> QED
  BY <1>1, <1>2, <1>3, TypeCorrect, FlowInvariant, FoundInvariant, KnownInvariant, PTL
     DEF Spec

-----------------------------------------------------------------------------
(* What has been recorded *)

Recorded(id, res) ==
  {i \in 1..Len(records) : records[i].content.id = id /\ records[i].content.resource = res}

Owing(id, res) == {r \in Requests : Me(r) = id /\ res \in Due(r)}

\* A check that records makes its resource due, which was not before.
LEMMA AuditMakesDue ==
  ASSUME TypeOK, FlowInv, NEW r \in Requests, Audit(r)
  PROVE  /\ Resource(r) \notin Due(r) /\ Due(r) \subseteq {"question"}
         /\ Due(r)' = Due(r) \cup {Resource(r)}
         /\ req' = req
<1>1. FlowOf(r) /\ rpc[r] \in {"entered", "nested"} /\ My(r).endpoint # "anomalies"
  BY DEF FlowInv, Audit
<1>2. rpc'[r] = AfterAudit(r) /\ req' = req /\ My(r)' = My(r)
  BY DEF Audit, TypeOK, My
<1>3. My(r).endpoint \in {"search", "semantic", "why"}
  BY <1>1, RequestType
<1>4. CASE My(r).endpoint = "search"
  BY <1>1, <1>2, <1>4 DEF Due, Resource, AfterAudit, FlowOf
<1>5. CASE My(r).endpoint = "semantic"
  BY <1>1, <1>2, <1>5 DEF Due, Resource, AfterAudit, FlowOf
<1>6. CASE My(r).endpoint = "why" /\ rpc[r] = "entered"
  BY <1>1, <1>2, <1>6 DEF Due, Resource, AfterAudit
<1>7. CASE My(r).endpoint = "why" /\ rpc[r] = "nested"
  BY <1>1, <1>2, <1>7 DEF Due, Resource, AfterAudit
<1> QED  BY <1>1, <1>2, <1>3, <1>4, <1>5, <1>6, <1>7

\* No other step of a request does: who may ask a question may search, so a
\* request is not refused after its question was recorded.
LEMMA OthersMakeNoneDue ==
  ASSUME TypeOK, FlowInv, NEW r \in Requests, Handle(r), ~Audit(r)
  PROVE  /\ records' = records
         /\ Due(r)' = Due(r) /\ (Me(r)' = Me(r) \/ Due(r) = {})
<1>1. FlowOf(r)
  BY DEF FlowInv
<1>2. CASE Begin(r)
  BY <1>2 DEF Begin, Due, TypeOK, auditLog
<1>3. CASE Refuse(r)
  BY <1>3 DEF Refuse, Due, TypeOK, auditLog, Me
<1>4. CASE Forbid(r)
  <2>1. rpc[r] # "nested"
    <3> SUFFICES ASSUME rpc[r] = "nested"
                 PROVE  FALSE
      OBVIOUS
    <3>1. Needed(r) = "search" /\ Me(r).role \in Roles
      BY <1>1, RequestType DEF Needed, FlowOf
    <3>2. Can(Me(r).role, "rag_query") => Can(Me(r).role, "search")
      BY <3>1 DEF Can, Caps, Roles
    <3> QED  BY <1>1, <1>4, <3>1, <3>2 DEF Forbid, FlowOf
  <2> QED  BY <1>4, <2>1 DEF Forbid, Due, TypeOK, auditLog, Me
<1>5. CASE Scan(r) \/ ReadFeed(r) \/ Respond(r)
  <2>1. /\ rpc'[r] = "answered" /\ req' = req /\ records' = records
        /\ rpc[r] \in {"scan", "entered", "resolve"}
        /\ rpc[r] = "entered" => My(r).endpoint = "anomalies"
    BY <1>5 DEF Scan, ReadFeed, Respond, Answer, TypeOK, auditLog
  <2>2. Me(r)' = Me(r) /\ My(r)' = My(r)
    BY <2>1 DEF Me, My
  <2> QED  BY <1>1, <2>1, <2>2, RequestType DEF Due
<1>6. CASE Retrieve(r) \/ Resolve(r)
  <2>1. /\ rpc'[r] = "resolve" /\ req' = req /\ records' = records
        /\ rpc[r] \in {"retrieve", "resolve"}
    BY <1>6 DEF Retrieve, Resolve, TypeOK, auditLog
  <2>2. Me(r)' = Me(r) /\ My(r)' = My(r)
    BY <2>1 DEF Me, My
  <2> QED  BY <1>1, <2>1, <2>2, RequestType DEF Due
<1> QED  BY <1>2, <1>3, <1>4, <1>5, <1>6 DEF Handle

AuditedInv ==
  \A id \in Identities, res \in {"structured", "semantic", "question"} :
    Cardinality(Recorded(id, res)) = Cardinality(Owing(id, res))

LEMMA AuditedStep ==
  ASSUME TypeOK, FlowInv, AuditedInv, [Next]_vars
  PROVE  AuditedInv'
<1> SUFFICES ASSUME NEW id \in Identities, NEW res \in {"structured", "semantic", "question"}
             PROVE  Cardinality(Recorded(id, res)') = Cardinality(Owing(id, res)')
  BY DEF AuditedInv
<1>1. Cardinality(Recorded(id, res)) = Cardinality(Owing(id, res))
  BY DEF AuditedInv
<1>2. CASE UNCHANGED <<records, rpc, req>>
  <2>1. Recorded(id, res)' = Recorded(id, res)
    BY <1>2 DEF Recorded
  <2>2. Owing(id, res)' = Owing(id, res)
    BY <1>2 DEF Owing, Me, Due, My
  <2> QED  BY <1>1, <2>1, <2>2
<1>3. ASSUME NEW r \in Requests, Handle(r)
      PROVE  Cardinality(Recorded(id, res)') = Cardinality(Owing(id, res)')
  <2>1. ASSUME NEW q \in Requests \ {r}
        PROVE  Me(q)' = Me(q) /\ Due(q)' = Due(q)
    <3>1. rpc'[q] = rpc[q] /\ req'[q] = req[q]
      BY <1>3, HandleLocal
    <3> QED  BY <3>1 DEF Me, Due, My
  <2>2. CASE ~Audit(r)
    <3>1. records' = records /\ Due(r)' = Due(r) /\ (Me(r)' = Me(r) \/ Due(r) = {})
      BY <1>3, <2>2, OthersMakeNoneDue
    <3>2. Recorded(id, res)' = Recorded(id, res)
      BY <3>1 DEF Recorded
    <3>3. Owing(id, res)' = Owing(id, res)
      BY <2>1, <3>1 DEF Owing
    <3> QED  BY <1>1, <3>2, <3>3
  <2>3. CASE Audit(r)
    <3>1. Resource(r) \notin Due(r) /\ Due(r)' = Due(r) \cup {Resource(r)} /\ Me(r)' = Me(r)
      BY <2>3, AuditMakesDue DEF Me
    <3>2. PICK rec : /\ records' = Append(records, rec)
                     /\ rec.content.id = Me(r) /\ rec.content.resource = Resource(r)
                     /\ rec \in Log!Records
      BY <2>3, AuditAppends
    <3>3. PICK n \in Nat : n = Len(records)
      BY DEF TypeOK, Log!TypeOK
    <3>4. /\ Len(records') = n + 1 /\ records'[n + 1] = rec
          /\ \A i \in 1..n : records'[i] = records[i]
      BY <3>2, <3>3 DEF TypeOK, Log!TypeOK
    <3>5. CASE Me(r) = id /\ Resource(r) = res
      <4>1. Recorded(id, res)' = Recorded(id, res) \cup {n + 1}
        BY <3>2, <3>3, <3>4, <3>5 DEF Recorded
      <4>2. Owing(id, res)' = Owing(id, res) \cup {r} /\ r \notin Owing(id, res)
        BY <2>1, <3>1, <3>5 DEF Owing
      <4>3. IsFiniteSet(Recorded(id, res)) /\ n + 1 \notin Recorded(id, res)
        <5>1. Recorded(id, res) \in SUBSET (1..n)
          BY <3>3 DEF Recorded
        <5> QED  BY <5>1, PositionsFinite
      <4>4. IsFiniteSet(Owing(id, res))
        BY QueryServiceAssumption, FS_Subset DEF Owing
      <4>5. Cardinality(Recorded(id, res)') = Cardinality(Recorded(id, res)) + 1
        BY <4>1, <4>3, FS_AddElement
      <4>6. Cardinality(Owing(id, res)') = Cardinality(Owing(id, res)) + 1
        BY <4>2, <4>4, FS_AddElement
      <4> QED  BY <1>1, <4>5, <4>6
    <3>6. CASE ~(Me(r) = id /\ Resource(r) = res)
      <4>1. Recorded(id, res)' = Recorded(id, res)
        BY <3>2, <3>3, <3>4, <3>6 DEF Recorded
      <4>2. Owing(id, res)' = Owing(id, res)
        BY <2>1, <3>1, <3>6 DEF Owing
      <4> QED  BY <1>1, <4>1, <4>2
    <3> QED  BY <3>5, <3>6
  <2> QED  BY <2>2, <2>3
<1>4. CASE SeedDoc \/ IndexDoc \/ Serve \/ WriteEntry \/ IndexEntry \/ RaiseEvent
  BY <1>2, <1>4 DEF SeedDoc, IndexDoc, Serve, WriteEntry, IndexEntry, RaiseEvent, auditLog
<1> QED  BY <1>2, <1>3, <1>4 DEF Next, Terminated, vars, auditLog

\* Every search that was granted is recorded, once for each check it passed, in
\* the name of its identity, and nothing else is.
LEMMA AuditedInvariant == Spec => []GrantedMeansAudited
<1>1. Init => AuditedInv
  <2> SUFFICES ASSUME Init, NEW id \in Identities,
                      NEW res \in {"structured", "semantic", "question"}
               PROVE  Cardinality(Recorded(id, res)) = Cardinality(Owing(id, res))
    BY DEF AuditedInv
  <2>1. Recorded(id, res) = {}
    BY DEF Init, Log!Init, Recorded
  <2>2. Owing(id, res) = {}
    BY DEF Init, Owing, Due
  <2> QED  BY <2>1, <2>2
<1>2. TypeOK /\ FlowInv /\ AuditedInv /\ [Next]_vars => AuditedInv'
  BY AuditedStep
<1>3. AuditedInv => GrantedMeansAudited
  BY DEF AuditedInv, GrantedMeansAudited, Recorded, Owing
<1> QED  BY <1>1, <1>2, <1>3, TypeCorrect, FlowInvariant, PTL DEF Spec

\* The log has room for the two records of each request: a search by question has
\* two halves, every other search one.
Halves ==
  {h \in Requests \X {1, 2} :
     IF h[2] = 1 THEN "question" \in Due(h[1])
     ELSE Due(h[1]) \cap {"structured", "semantic"} # {}}

RoomInv == Len(written) = Cardinality(Halves)

LEMMA HalvesBound ==
  /\ IsFiniteSet(Requests \X {1, 2})
  /\ Cardinality(Requests \X {1, 2}) = 2 * Cardinality(Requests)
  /\ Cardinality(Requests) \in Nat
<1>1. IsFiniteSet({1, 2}) /\ Cardinality({1, 2}) = 2
  <2>1. IsFiniteSet({1}) /\ Cardinality({1}) = 1
    BY FS_Singleton
  <2>2. {1, 2} = {1} \cup {2} /\ 2 \notin {1}
    OBVIOUS
  <2> QED  BY <2>1, <2>2, FS_AddElement
<1>2. IsFiniteSet(Requests) /\ Cardinality(Requests) \in Nat
  BY QueryServiceAssumption, FS_CardinalityType
<1>3. /\ IsFiniteSet(Requests \X {1, 2})
      /\ Cardinality(Requests \X {1, 2}) = Cardinality(Requests) * Cardinality({1, 2})
  BY <1>1, <1>2, FS_Product
<1> QED  BY <1>1, <1>2, <1>3

\* An Audit takes the half of its request that it records, which was free.
LEMMA AuditTakesHalf ==
  ASSUME TypeOK, FlowInv, NEW r \in Requests, Audit(r)
  PROVE  \E h \in Requests \X {1, 2} : h \notin Halves /\ Halves' = Halves \cup {h}
<1>1. /\ Due(r)' = Due(r) \cup {Resource(r)} /\ Due(r) \subseteq {"question"}
      /\ Resource(r) \notin Due(r)
  BY AuditMakesDue
<1>2. \A q \in Requests \ {r} : Due(q)' = Due(q)
  <2> SUFFICES ASSUME NEW q \in Requests \ {r}
               PROVE  Due(q)' = Due(q)
    OBVIOUS
  <2>1. rpc'[q] = rpc[q] /\ req'[q] = req[q]
    BY HandleLocal DEF Handle
  <2> QED  BY <2>1 DEF Due, My
<1>3. Resource(r) \in {"structured", "semantic", "question"}
  BY AuditAppends
<1>4. \A q \in Requests : q # r => Due(q)' = Due(q)
  BY <1>2
<1>5. \A h \in Requests \X {1, 2} :
        /\ h[1] \in Requests /\ h[2] \in {1, 2} /\ h = <<h[1], h[2]>>
        /\ h \in Halves <=> IF h[2] = 1 THEN "question" \in Due(h[1])
                            ELSE Due(h[1]) \cap {"structured", "semantic"} # {}
        /\ h \in Halves' <=> IF h[2] = 1 THEN "question" \in Due(h[1])'
                             ELSE Due(h[1])' \cap {"structured", "semantic"} # {}
  BY DEF Halves
<1>6. CASE Resource(r) = "question"
  <2>1. <<r, 1>> \in Requests \X {1, 2} /\ <<r, 1>> \notin Halves
    BY <1>1, <1>5, <1>6
  <2>2. \A h \in Requests \X {1, 2} : h \in Halves' <=> h \in Halves \/ h = <<r, 1>>
    BY <1>1, <1>4, <1>5, <1>6
  <2>3. Halves' = Halves \cup {<<r, 1>>}
    BY <2>1, <2>2 DEF Halves
  <2> QED  BY <2>1, <2>3
<1>7. CASE Resource(r) # "question"
  <2>1. <<r, 2>> \in Requests \X {1, 2} /\ <<r, 2>> \notin Halves
    BY <1>1, <1>5
  <2>2. \A h \in Requests \X {1, 2} : h \in Halves' <=> h \in Halves \/ h = <<r, 2>>
    BY <1>1, <1>3, <1>4, <1>5, <1>7
  <2>3. Halves' = Halves \cup {<<r, 2>>}
    BY <2>1, <2>2 DEF Halves
  <2> QED  BY <2>1, <2>3
<1> QED  BY <1>6, <1>7

LEMMA RoomStep ==
  ASSUME TypeOK, FlowInv, RoomInv, [Next]_vars
  PROVE  RoomInv' /\ [Log!Next]_(Log!vars)
<1>1. CASE UNCHANGED <<auditLog, rpc, req>>
  BY <1>1 DEF RoomInv, Halves, Due, My, auditLog, Log!vars
<1>2. ASSUME NEW r \in Requests, Handle(r), ~Audit(r)
      PROVE  RoomInv' /\ [Log!Next]_(Log!vars)
  <2>1. ASSUME NEW q \in Requests
        PROVE  Due(q)' = Due(q)
    <3>1. CASE q = r
      BY <1>2, <3>1, OthersMakeNoneDue
    <3>2. CASE q # r
      <4>1. rpc'[q] = rpc[q] /\ req'[q] = req[q]
        BY <1>2, <3>2, HandleLocal
      <4> QED  BY <4>1 DEF Due, My
    <3> QED  BY <3>1, <3>2
  <2>2. Halves' = Halves
    BY <2>1 DEF Halves
  <2>3. UNCHANGED auditLog
    BY <1>2 DEF Handle, Begin, Refuse, Forbid, Scan, ReadFeed, Retrieve, Resolve, Respond
  <2> QED  BY <2>2, <2>3 DEF RoomInv, auditLog, Log!vars
<1>3. ASSUME NEW r \in Requests, Audit(r)
      PROVE  RoomInv' /\ [Log!Next]_(Log!vars)
  <2>1. PICK h \in Requests \X {1, 2} : h \notin Halves /\ Halves' = Halves \cup {h}
    BY <1>3, AuditTakesHalf
  <2>2. IsFiniteSet(Halves) /\ Cardinality(Halves) \in Nat
    BY HalvesBound, FS_Subset, FS_CardinalityType DEF Halves
  <2>3. Cardinality(Halves') = Cardinality(Halves) + 1
    BY <2>1, <2>2, FS_AddElement
  <2>4. Cardinality(Halves') <= 2 * Cardinality(Requests)
    <3>1. Halves \cup {h} \in SUBSET (Requests \X {1, 2})
      BY DEF Halves
    <3> QED  BY <2>1, <3>1, HalvesBound, FS_Subset
  <2>5. PICK rec \in Log!Records : written' = Append(written, rec)
    BY <1>3, AuditAppends
  <2>6. Len(written') = Len(written) + 1
    BY <2>5 DEF TypeOK, Log!TypeOK
  <2>7. Log!AppendRecord(Content(r)) /\ Len(written) < 2 * Cardinality(Requests)
    BY <1>3, <2>2, <2>3, <2>4, HalvesBound, AuditAppends DEF RoomInv
  <2>8. Content(r) \in Audited
    <3>1. Needed(r) \in {"search", "rag_query", "read_anomaly"}
      BY DEF Needed
    <3>2. Resource(r) \in {"structured", "semantic", "question"}
      BY DEF Resource
    <3> QED  BY <3>1, <3>2, RequestType DEF Content, Audited, Actions, Resources
  <2>9. Log!Plain(Content(r))
    BY <2>8, AuditedLine
  <2> QED  BY <2>3, <2>6, <2>7, <2>8, <2>9 DEF RoomInv, Log!Next
<1>4. CASE SeedDoc \/ IndexDoc \/ Serve \/ WriteEntry \/ IndexEntry \/ RaiseEvent
  BY <1>1, <1>4 DEF SeedDoc, IndexDoc, Serve, WriteEntry, IndexEntry, RaiseEvent
<1> QED  BY <1>1, <1>2, <1>3, <1>4 DEF Next, Terminated, vars, Handle

\* To the audit log the query layer is one of its users, which only appends, within
\* the bound: what is proved of AuditLog holds here.
THEOREM LogInside == Spec => Log!Spec
<1>1. Init => RoomInv
  <2> SUFFICES ASSUME Init
               PROVE  Len(written) = Cardinality(Halves)
    BY DEF RoomInv
  <2>1. \A r \in Requests : Due(r) = {}
    BY DEF Init, Due
  <2>2. Halves = {}
    BY <2>1 DEF Halves
  <2>3. Len(written) = 0
    BY DEF Init, Log!Init
  <2> QED  BY <2>2, <2>3, FS_EmptySet
<1>2. Init => Log!Init
  BY DEF Init
<1>3. TypeOK /\ FlowInv /\ RoomInv /\ [Next]_vars => RoomInv' /\ [Log!Next]_(Log!vars)
  BY RoomStep
<1> QED  BY <1>1, <1>2, <1>3, TypeCorrect, FlowInvariant, PTL DEF Spec, Log!Spec

-----------------------------------------------------------------------------
(* What is proved of the audit log, said of the one that queries write *)

Chain == INSTANCE AuditLogProofs WITH
  Contents   <- Audited,
  Pieces     <- AuditedPieces,
  Fields     <- AuditedFields,
  MaxRecords <- 2 * Cardinality(Requests)

\* The fields of a record are texts, and the bound on its length is a number, as
\* AuditLog assumes.
LEMMA ChainConstants == Chain!AuditLogAssumption
<1>1. Cardinality(Requests) \in Nat
  BY QueryServiceAssumption, FS_CardinalityType
<1>2. ASSUME NEW c \in Audited
      PROVE  [tenant |-> <<c.id.tenant>>, actor |-> <<c.id.actor>>,
              action |-> <<c.action>>, resource |-> <<c.resource>>, at |-> 0]
               \in [tenant : Seq(AuditedPieces), actor : Seq(AuditedPieces),
                    action : Seq(AuditedPieces), resource : Seq(AuditedPieces), at : Nat]
  <2>1. /\ c.id.tenant \in AuditedPieces /\ c.id.actor \in AuditedPieces
        /\ c.action \in AuditedPieces /\ c.resource \in AuditedPieces
    BY QueryServiceAssumption DEF Audited, AuditedPieces
  <2>2. /\ <<c.id.tenant>> \in Seq(AuditedPieces) /\ <<c.id.actor>> \in Seq(AuditedPieces)
        /\ <<c.action>> \in Seq(AuditedPieces) /\ <<c.resource>> \in Seq(AuditedPieces)
    BY <2>1
  <2> QED  BY <2>2
<1>3. AuditedFields \in
        [Audited -> [tenant : Seq(AuditedPieces), actor : Seq(AuditedPieces),
                     action : Seq(AuditedPieces), resource : Seq(AuditedPieces),
                     at : Nat]]
  BY <1>2 DEF AuditedFields
<1> QED  BY <1>1, <1>3 DEF Chain!AuditLogAssumption, Chain!Texts

\* The two instances are the same specification.
LEMMA SameLog == Log!Spec => Chain!Spec
<1>1. Log!Init => Chain!Init
  BY DEF Log!Init, Chain!Init, Log!genesis, Chain!genesis
<1>2. \A s, c, p : Log!hashRecord(s, c, p) = Chain!hashRecord(s, c, p)
  BY DEF Log!hashRecord, Chain!hashRecord, Log!LineOf, Chain!LineOf, Log!Joined,
         Chain!Joined
<1>3. \A c : Log!Plain(c) <=> Chain!Plain(c)
  BY DEF Log!Plain, Chain!Plain
<1>4. [Log!Next]_(Log!vars) => [Chain!Next]_(Chain!vars)
  BY <1>2, <1>3
     DEF Log!Next, Chain!Next, Log!vars, Chain!vars, Log!AppendRecord, Chain!AppendRecord,
         Log!NextSeq, Chain!NextSeq, Log!Chained, Chain!Chained,
         Log!Alter, Chain!Alter, Log!Change, Chain!Change,
         Log!Refit, Chain!Refit, Log!Remove, Chain!Remove, Log!PrevOf, Chain!PrevOf,
         Log!genesis, Chain!genesis, Log!Terminated, Chain!Terminated
<1> QED  BY <1>1, <1>4, PTL DEF Log!Spec, Chain!Spec

\* No query alters a record once it is written.
LEMMA RecordsStay == Spec => [](records = written)
<1>1. Init => records = written
  BY DEF Init, Log!Init
<1>2. TypeOK /\ records = written /\ [Next]_vars => (records = written)'
  <2> SUFFICES ASSUME TypeOK, records = written, [Next]_vars
               PROVE  records' = written'
    OBVIOUS
  <2>1. CASE UNCHANGED auditLog
    BY <2>1 DEF auditLog
  <2>2. ASSUME NEW r \in Requests, Audit(r)
        PROVE  records' = written'
    BY <2>2, AuditAppends
  <2>3. ASSUME NEW r \in Requests, Handle(r), ~Audit(r)
        PROVE  UNCHANGED auditLog
    BY <2>3 DEF Handle, Begin, Refuse, Forbid, Scan, ReadFeed, Retrieve, Resolve, Respond
  <2>4. CASE SeedDoc \/ IndexDoc \/ Serve \/ WriteEntry \/ IndexEntry \/ RaiseEvent
    BY <2>1, <2>4 DEF SeedDoc, IndexDoc, Serve, WriteEntry, IndexEntry, RaiseEvent
  <2> QED  BY <2>1, <2>2, <2>3, <2>4 DEF Next, Terminated, vars
<1> QED  BY <1>1, <1>2, TypeCorrect, PTL DEF Spec

\* However queries overtake each other between their checks and their answers, the
\* log they write verifies at any time and ends in the hash that Head returns.
THEOREM QueriesAreChained ==
  Spec => [](Log!Verified(records) /\ Log!HeadOf(records) = lastHash)
<1>1. Chain!Spec => [](Chain!TypeOK /\ Chain!WrittenInv)
  BY ChainConstants, Chain!TypeCorrect
<1>2. \A s, c, p : Log!hashRecord(s, c, p) = Chain!hashRecord(s, c, p)
  BY DEF Log!hashRecord, Chain!hashRecord, Log!LineOf, Chain!LineOf, Log!Joined,
         Chain!Joined
<1>3. Chain!WrittenInv /\ records = written =>
        Log!Verified(records) /\ Log!HeadOf(records) = lastHash
  BY <1>2 DEF Chain!WrittenInv, Chain!Verified, Log!Verified, Chain!Sound, Log!Sound,
         Chain!PrevOf, Log!PrevOf, Chain!HeadOf, Log!HeadOf, Chain!genesis, Log!genesis
<1> QED  BY <1>1, <1>3, LogInside, SameLog, RecordsStay, PTL

-----------------------------------------------------------------------------
(* The histogram *)

Last == Len(Bounds) + 1

\* The bounds rise, so a bucket and all below it take what does not exceed its bound.
LEMMA BucketsSplit ==
  ASSUME NEW v \in Nat
  PROVE  /\ Latency!BucketOf(v) \in 1..Last
         /\ \A i \in 1..Len(Bounds) : Latency!BucketOf(v) <= i <=> v <= Bounds[i]
<1>1. /\ Bounds \in Seq(Nat) /\ Len(Bounds) \in Nat /\ DOMAIN Bounds = 1..Len(Bounds)
      /\ \A i \in 1..Len(Bounds) : Bounds[i] \in Nat
      /\ \A i, j \in 1..Len(Bounds) : i < j => Bounds[i] < Bounds[j]
  BY QueryMetricsAssumption
<1> DEFINE T == {i \in DOMAIN Bounds : Bounds[i] >= v} \cup {Len(Bounds) + 1}
<1>2. T \in SUBSET Nat /\ T # {} /\ T \in SUBSET (1..Last)
  BY <1>1 DEF Last
<1>3. /\ \A i \in 1..Len(Bounds) : i \in T <=> v <= Bounds[i]
      /\ \A i \in T : i \in 1..Len(Bounds) \/ i = Len(Bounds) + 1
  BY <1>1
<1>4. Latency!BucketOf(v) = CHOOSE x \in T : \A y \in T : x =< y
  BY DEF Latency!BucketOf, Latency!Min
<1> HIDE DEF T
<1>5. \E x \in T : \A y \in T : x <= y
  BY <1>2, FirstNumber
<1>6. PICK b : b = Latency!BucketOf(v)
  OBVIOUS
<1>7. b \in T /\ \A y \in T : b <= y
  BY <1>4, <1>5, <1>6
<1>8. ASSUME NEW i \in 1..Len(Bounds)
      PROVE  b <= i <=> v <= Bounds[i]
  <2>1. CASE v <= Bounds[i]
    BY <1>3, <1>7, <2>1
  <2>2. CASE b <= i
    <3>1. b \in 1..Len(Bounds) /\ v <= Bounds[b]
      BY <1>1, <1>2, <1>3, <1>7, <2>2
    <3>2. Bounds[b] <= Bounds[i]
      BY <1>1, <2>2, <3>1
    <3> QED  BY <1>1, <2>2, <3>1, <3>2
  <2> QED  BY <2>1, <2>2
<1> QED  BY <1>2, <1>6, <1>7, <1>8

\* What is rendered of a bucket is the sum up to it.
LEMMA RenderedSums ==
  ASSUME NEW n \in Nat, NEW h, NEW u,
         u[0] = 0, \A i \in 1..n : u[i] = u[i - 1] + h.counts[i]
  PROVE  Latency!Rendered(h, n) = u[n]
<1> DEFINE Sums(c) == c = [i \in 0..n |-> IF i = 0 THEN 0 ELSE c[i - 1] + h.counts[i]]
           c == CHOOSE c : Sums(c)
           w == [i \in 0..n |-> u[i]]
<1>1. Latency!Rendered(h, n) = c[n]
  BY DEF Latency!Rendered
<1>2. Sums(w)
  <2>1. \A i \in 0..n : i # 0 => i \in 1..n /\ i - 1 \in 0..n
    OBVIOUS
  <2>2. \A i \in 0..n : w[i] = IF i = 0 THEN 0 ELSE w[i - 1] + h.counts[i]
    BY <2>1
  <2> QED  BY <2>2
<1>3. Sums(c)
  <2> HIDE DEF Sums, w
  <2> QED  BY <1>2
<1> HIDE DEF c
<1>4. c[0] = 0 /\ \A i \in 1..n : c[i] = c[i - 1] + h.counts[i]
  <2>1. \A i \in 0..n : c[i] = IF i = 0 THEN 0 ELSE c[i - 1] + h.counts[i]
    BY <1>3
  <2>2. 0 \in 0..n /\ \A i \in 1..n : i \in 0..n /\ i # 0
    OBVIOUS
  <2> QED  BY <2>1, <2>2
<1>5. \A i \in 0..n : c[i] = u[i]
  <2> SUFFICES ASSUME NEW j \in 0..n, c[j] # u[j]
               PROVE  FALSE
    OBVIOUS
  <2> DEFINE D == {i \in 0..n : c[i] # u[i]}
  <2>1. D \in SUBSET Nat /\ D # {}
    OBVIOUS
  <2> HIDE DEF D
  <2>2. PICK m \in D : \A k \in D : m <= k
    BY <2>1, FirstNumber
  <2>3. m \in 0..n /\ c[m] # u[m]
    BY <2>2 DEF D
  <2>4. m # 0
    BY <1>4, <2>3
  <2>5. m \in 1..n /\ m - 1 \in 0..n /\ ~(m <= m - 1)
    BY <2>3, <2>4
  <2>6. c[m - 1] = u[m - 1]
    BY <2>2, <2>5 DEF D
  <2> QED  BY <1>4, <2>3, <2>5, <2>6
<1> QED  BY <1>1, <1>5

Observed == {r \in Requests : value[r] # -1}
InBucket(i) == {r \in Requests : value[r] # -1 /\ Latency!BucketOf(value[r]) = i}
UpTo(i) == {r \in Requests : value[r] # -1 /\ Latency!BucketOf(value[r]) <= i}

\* There is at most one histogram, whoever found one found it, and it counts
\* what was observed.
HistInv ==
  /\ value \in [Requests -> Values \cup {-1}]
  /\ hist \in {0, 1}
  /\ found \in [Requests -> {0, hist}]
  /\ \A r \in Requests : found[r] = 0 => value[r] = -1
  /\ heap \in Seq([counts : [1..Last -> Nat], total : Nat]) /\ Len(heap) = hist
  /\ hist = 1 =>
       /\ \A i \in 1..Last : heap[1].counts[i] = Cardinality(InBucket(i))
       /\ heap[1].total = Cardinality(Observed)

LEMMA ValueType ==
  ASSUME NEW v \in Values
  PROVE  v \in Nat /\ v # -1
  BY QueryMetricsAssumption

\* An observation adds one goroutine to its bucket and to no other.
LEMMA ObserveFills ==
  ASSUME HistInv, NEW r \in Requests, NEW v \in Values, Latency!observe(r, v)
  PROVE  HistInv'
<1> DEFINE b == Latency!BucketOf(v)
           Histograms == [counts : [1..Last -> Nat], total : Nat]
<1>1. /\ value[r] = -1 /\ found[r] = 1 /\ hist = 1 /\ hist' = 1 /\ found' = found
      /\ value' = [value EXCEPT ![r] = v]
  BY DEF HistInv, Latency!observe
<1>2. v \in Nat /\ v # -1 /\ b \in 1..Last
  BY ValueType, BucketsSplit
<1>3. /\ heap' = [heap EXCEPT ![1].counts[b] = @ + 1, ![1].total = @ + 1]
      /\ heap \in Seq(Histograms) /\ Len(heap) = 1
  BY <1>1 DEF HistInv, Latency!observe
<1>4. /\ value \in [Requests -> Values \cup {-1}]
      /\ value' \in [Requests -> Values \cup {-1}]
      /\ value'[r] = v /\ \A q \in Requests \ {r} : value'[q] = value[q]
  BY <1>1 DEF HistInv
<1> HIDE DEF b
<1>5. /\ heap' \in Seq(Histograms) /\ Len(heap') = 1
      /\ heap'[1].counts[b] = heap[1].counts[b] + 1
      /\ \A i \in (1..Last) \ {b} : heap'[1].counts[i] = heap[1].counts[i]
      /\ heap'[1].total = heap[1].total + 1
  <2>1. heap[1] \in Histograms /\ DOMAIN heap = 1..1
    <3> HIDE DEF Histograms
    <3> QED  BY <1>3
  <2>2. PICK x \in [1..Last -> Nat], t \in Nat :
          heap[1].counts = x /\ heap[1].total = t
    BY <2>1
  <2>3. PICK y : y = [x EXCEPT ![b] = @ + 1]
    OBVIOUS
  <2>4. y \in [1..Last -> Nat] /\ y[b] = x[b] + 1 /\ \A i \in (1..Last) \ {b} : y[i] = x[i]
    BY <1>2, <2>2, <2>3
  <2>5. heap' = [heap EXCEPT ![1] = [counts |-> y, total |-> t + 1]]
    BY <1>3, <2>1, <2>2, <2>3
  <2>6. [counts |-> y, total |-> t + 1] \in Histograms
    BY <2>2, <2>4
  <2> HIDE DEF Histograms
  <2>7. heap' \in Seq(Histograms) /\ Len(heap') = 1 /\ heap'[1] = [counts |-> y, total |-> t + 1]
    BY <1>3, <2>1, <2>5, <2>6
  <2> QED  BY <2>2, <2>4, <2>7
<1>6. /\ InBucket(b)' = InBucket(b) \cup {r} /\ r \notin InBucket(b)
      /\ \A i \in (1..Last) \ {b} : InBucket(i)' = InBucket(i)
      /\ Observed' = Observed \cup {r} /\ r \notin Observed
  BY <1>1, <1>2, <1>4 DEF InBucket, Observed, b
<1>7. \A i \in 1..Last : heap'[1].counts[i] = Cardinality(InBucket(i)')
  <2> SUFFICES ASSUME NEW i \in 1..Last
               PROVE  heap'[1].counts[i] = Cardinality(InBucket(i)')
    OBVIOUS
  <2>1. heap[1].counts[i] = Cardinality(InBucket(i))
    BY <1>1 DEF HistInv
  <2>2. CASE i = b
    <3>1. IsFiniteSet(InBucket(b))
      BY QueryServiceAssumption, FS_Subset DEF InBucket
    <3>2. Cardinality(InBucket(b)') = Cardinality(InBucket(b)) + 1
      BY <1>6, <3>1, FS_AddElement
    <3> QED  BY <1>5, <2>1, <2>2, <3>2
  <2>3. CASE i # b
    BY <1>5, <1>6, <2>1, <2>3
  <2> QED  BY <2>2, <2>3
<1>8. heap'[1].total = Cardinality(Observed')
  <2>1. IsFiniteSet(Observed)
    BY QueryServiceAssumption, FS_Subset DEF Observed
  <2>2. Cardinality(Observed') = Cardinality(Observed) + 1
    BY <1>6, <2>1, FS_AddElement
  <2> QED  BY <1>1, <1>5, <2>2 DEF HistInv
<1>9. \A q \in Requests : found'[q] = 0 => value'[q] = -1
  BY <1>1, <1>4 DEF HistInv
<1> QED  BY <1>1, <1>4, <1>5, <1>7, <1>8, <1>9 DEF HistInv

\* Whoever comes first makes the histogram, with empty buckets; nobody has
\* observed anything then.
LEMMA FindMakesOne ==
  ASSUME HistInv, NEW r \in Requests, Latency!Find(r)
  PROVE  HistInv'
<1> DEFINE Histograms == [counts : [1..Last -> Nat], total : Nat]
<1>1. value' = value /\ found' = [found EXCEPT ![r] = hist'] /\ found[r] = 0
  BY DEF Latency!Find
<1>2. \A i : InBucket(i)' = InBucket(i) /\ Observed' = Observed
  BY <1>1 DEF InBucket, Observed
<1>3. CASE hist # 0
  <2>1. heap' = heap /\ hist' = hist /\ hist = 1
    BY <1>3 DEF HistInv, Latency!Find, Latency!LookUp
  <2> QED  BY <1>1, <1>2, <2>1 DEF HistInv
<1>4. CASE hist = 0
  <2>1. /\ heap \in Seq(Histograms) /\ Len(heap) = 0
        /\ heap' = Append(heap, Latency!newHistogram) /\ hist' = Len(heap')
    BY <1>4 DEF HistInv, Latency!Find, Latency!LookUp
  <2>2. PICK x : x = Latency!newHistogram
    OBVIOUS
  <2>3. /\ x \in Histograms /\ x.total = 0 /\ \A i \in 1..Last : x.counts[i] = 0
    BY <2>2 DEF Latency!newHistogram, Latency!Buckets, Last
  <2> HIDE DEF Histograms
  <2>4. heap' \in Seq(Histograms) /\ Len(heap') = 1 /\ heap'[1] = x
    BY <2>1, <2>2, <2>3
  <2>5. \A q \in Requests : found[q] = 0 /\ value[q] = -1
    BY <1>4 DEF HistInv
  <2>6. Observed = {} /\ \A i : InBucket(i) = {}
    BY <2>5 DEF InBucket, Observed
  <2>7. \A i \in 1..Last : heap'[1].counts[i] = Cardinality(InBucket(i)')
    BY <1>2, <2>3, <2>4, <2>6, FS_EmptySet
  <2>8. heap'[1].total = Cardinality(Observed')
    BY <1>2, <2>3, <2>4, <2>6, FS_EmptySet
  <2>9. hist' = 1 /\ found' \in [Requests -> {0, 1}]
    BY <1>1, <1>4, <2>1, <2>4 DEF HistInv
  <2>10. /\ value' \in [Requests -> Values \cup {-1}]
         /\ \A q \in Requests : found'[q] = 0 => value'[q] = -1
    BY <1>1, <2>5 DEF HistInv
  <2> QED  BY <2>4, <2>7, <2>8, <2>9, <2>10 DEF HistInv, Histograms
<1> QED  BY <1>3, <1>4

LEMMA HistStep ==
  ASSUME HistInv, [TimedNext]_<<vars, registry>>
  PROVE  HistInv'
<1>1. CASE UNCHANGED registry
  BY <1>1 DEF registry, HistInv, InBucket, Observed
<1>2. ASSUME NEW r \in Requests, Timed(r)
      PROVE  HistInv'
  BY <1>2, FindMakesOne, ObserveFills DEF Timed
<1> QED  BY <1>1, <1>2 DEF TimedNext, Query

LEMMA SameCardinality ==
  ASSUME NEW S
  PROVE  Latency!Cardinality(S) = Cardinality(S)
  BY DEF Latency!Cardinality, Cardinality

\* What is rendered is what was observed.
LEMMA HistExact == HistInv => HistogramExact
<1> SUFFICES ASSUME HistInv, hist # 0
             PROVE  /\ \A i \in 1..Len(Bounds) :
                         Latency!Rendered(heap[1], i)
                           = Cardinality({r \in Observed : value[r] <= Bounds[i]})
                    /\ Latency!Rendered(heap[1], Last) = Cardinality(Observed)
                    /\ heap[1].total = Cardinality(Observed)
  <2>1. HistInv /\ hist = 0 => Observed = {}
    BY DEF HistInv, Observed
  <2>2. DOMAIN Bounds = 1..Len(Bounds)
    BY QueryMetricsAssumption
  <2>3. HistInv /\ hist # 0 => hist = 1
    BY DEF HistInv
  <2>4. Observed = {r \in Requests : value[r] # -1}
    BY DEF Observed
  <2> HIDE DEF Observed
  <2> QED
    BY <2>1, <2>2, <2>3, <2>4, SameCardinality DEF HistogramExact, Latency!Exact, Last
<1>1. /\ \A i \in 1..Last : heap[1].counts[i] = Cardinality(InBucket(i))
      /\ heap[1].total = Cardinality(Observed)
  BY DEF HistInv
<1>2. Len(Bounds) \in Nat /\ Last \in Nat
  BY QueryMetricsAssumption DEF Last
<1>3. \A r \in Observed : value[r] \in Nat /\ Latency!BucketOf(value[r]) \in 1..Last
  <2>1. \A r \in Observed : value[r] \in Values
    BY DEF HistInv, Observed
  <2> QED  BY <2>1, ValueType, BucketsSplit
<1>4. \A i : IsFiniteSet(UpTo(i)) /\ IsFiniteSet(InBucket(i))
  BY QueryServiceAssumption, FS_Subset DEF UpTo, InBucket
<1> DEFINE u == [i \in Nat |-> Cardinality(UpTo(i))]
<1>5. UpTo(0) = {}
  BY <1>3 DEF UpTo, Observed
<1>6. ASSUME NEW i \in 1..Last
      PROVE  Cardinality(UpTo(i)) = Cardinality(UpTo(i - 1)) + heap[1].counts[i]
  <2>1. UpTo(i) = UpTo(i - 1) \cup InBucket(i) /\ UpTo(i - 1) \cap InBucket(i) = {}
    BY <1>2, <1>3, <1>6 DEF UpTo, InBucket, Observed
  <2>2. Cardinality(UpTo(i - 1)) \in Nat /\ Cardinality(InBucket(i)) \in Nat
    BY <1>4, FS_CardinalityType
  <2>3. Cardinality(UpTo(i - 1) \cap InBucket(i)) = 0
    BY <2>1, FS_EmptySet
  <2>4. Cardinality(UpTo(i)) = Cardinality(UpTo(i - 1)) + Cardinality(InBucket(i))
    BY <1>4, <2>1, <2>2, <2>3, FS_Union
  <2> QED  BY <1>1, <2>4
<1>7. ASSUME NEW n \in 0..Last
      PROVE  Latency!Rendered(heap[1], n) = Cardinality(UpTo(n))
  <2>1. n \in Nat /\ u[0] = 0 /\ u[n] = Cardinality(UpTo(n))
    BY <1>2, <1>5, FS_EmptySet
  <2>2. \A i \in 1..n : u[i] = u[i - 1] + heap[1].counts[i]
    <3> SUFFICES ASSUME NEW i \in 1..n
                 PROVE  u[i] = u[i - 1] + heap[1].counts[i]
      OBVIOUS
    <3>1. i \in 1..Last /\ i \in Nat /\ i - 1 \in Nat
      BY <1>2
    <3> QED  BY <1>6, <3>1
  <2> HIDE DEF u
  <2> QED  BY <2>1, <2>2, RenderedSums
<1>8. ASSUME NEW i \in 1..Len(Bounds)
      PROVE  UpTo(i) = {r \in Observed : value[r] <= Bounds[i]}
  BY <1>3, BucketsSplit DEF UpTo, Observed
<1>9. UpTo(Last) = Observed
  BY <1>2, <1>3 DEF UpTo, Observed
<1>10. \A i \in 1..Len(Bounds) :
         Latency!Rendered(heap[1], i) = Cardinality({r \in Observed : value[r] <= Bounds[i]})
  <2> SUFFICES ASSUME NEW i \in 1..Len(Bounds)
               PROVE  Latency!Rendered(heap[1], i)
                        = Cardinality({r \in Observed : value[r] <= Bounds[i]})
    OBVIOUS
  <2>1. i \in 0..Last
    BY <1>2 DEF Last
  <2> QED  BY <1>7, <1>8, <2>1
<1>11. Latency!Rendered(heap[1], Last) = Cardinality(Observed)
  BY <1>2, <1>7, <1>9
<1> QED  BY <1>1, <1>10, <1>11

\* Measuring changes nothing of the query layer: all its theorems hold of the
\* program that measures.
THEOREM TimedInside == TimedSpec => Spec
<1>1. TimedInit => Init
  BY DEF TimedInit
<1>2. [TimedNext]_<<vars, registry>> => [Next]_vars
  BY DEF TimedNext, Query, Timed, vars
<1> QED  BY <1>1, <1>2, PTL DEF TimedSpec, Spec

\* Every search that was granted is recorded, once for each check it passed, in
\* the name of its identity, and nothing else is.
THEOREM GrantsAreAudited == TimedSpec => []GrantedMeansAudited
  BY AuditedInvariant, TimedInside, PTL

\* The registry sees of the query layer only goroutines that each observe once.
THEOREM RegistryInside == TimedSpec => Latency!Spec
<1>1. TimedInit => Latency!Init
  BY DEF TimedInit
<1>2. [TimedNext]_<<vars, registry>> => [Latency!Next]_(Latency!vars)
  <2>1. CASE UNCHANGED registry
    BY <2>1 DEF registry, Latency!vars
  <2>2. ASSUME NEW r \in Requests, Timed(r)
        PROVE  Latency!Next
    BY <2>2 DEF Timed, Latency!Next
  <2> QED  BY <2>1, <2>2 DEF TimedNext, Query
<1> QED  BY <1>1, <1>2, PTL DEF TimedSpec, Latency!Spec

\* A scrape shows every latency observed so far in all buckets it belongs to,
\* whoever raced to create the histogram.
THEOREM HistogramHolds == TimedSpec => []HistogramExact
<1>1. TimedInit => HistInv
  BY DEF TimedInit, Latency!Init, HistInv
<1>2. HistInv /\ [TimedNext]_<<vars, registry>> => HistInv'
  BY HistStep
<1> QED  BY <1>1, <1>2, HistExact, PTL DEF TimedSpec
=============================================================================
