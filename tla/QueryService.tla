---------------------------- MODULE QueryService ----------------------------
(***************************************************************************)
(* The query layer: structured search, semantic search, "why did it fail"  *)
(* and the anomaly feed, for identities of several tenants, while entries  *)
(* are stored and indexed.                                                 *)
(*                                                                         *)
(*   src/internal/query/    the four endpoints                             *)
(*   src/internal/rbac/     Can                                            *)
(*   src/internal/kb/       Add and GetByRef                               *)
(*   src/internal/store/    Search and Get                                 *)
(*   src/internal/vector/   Upsert and Search                              *)
(*   src/internal/audit/    by way of AuditLog                             *)
(*                                                                         *)
(* A text is its topic: what a filter matches and what a score depends on. *)
(* A request is a process; each of its steps is one call that takes a lock *)
(* of its own, so entries, vectors and audit records come in between.      *)
(***************************************************************************)
EXTENDS Listing

CONSTANTS
  Requests,
  Tenants,
  Identities,   \* what Resolve returns: actor, tenant and role
  Topics,
  Score,        \* the cosine of two topics, in steps
  MinScore,     \* Service.MinScore
  Ks,           \* limits that clients ask for
  DefaultK,     \* hits if k is not positive (5)
  DefaultLimit, \* entries if the limit is not positive (100)
  FeedLimit,    \* events shown (50)
  Seeds,        \* the documents of seedKB
  MaxWrites     \* bound on the store and the feed together

Roles == {"viewer", "responder", "admin"}
Texts == [tenant : Tenants, topic : Topics]
AnyTopic == "any"

ASSUME QueryServiceAssumption ==
  /\ IsFiniteSet(Requests)
  /\ Identities # {}
  /\ \A id \in Identities : id.tenant \in Tenants /\ id.role \in Roles
  /\ Score \in [Topics -> [Topics -> Nat]]
  /\ MinScore \in Nat
  /\ Ks \subseteq Int
  /\ {DefaultK, DefaultLimit, FeedLimit} \subseteq Nat \ {0}
  /\ Seeds \in Seq(Texts)
  /\ MaxWrites \in Nat
  /\ AnyTopic \notin Topics

VARIABLES
  mpc,        \* main: "seed", "index", "serving"
  store,      \* MemStore.entries; an ID is an index
  docs,       \* kb.Store.docs
  items,      \* MemVectorStore.items, per tenant
  feed,       \* the tenant of each event raised
  rpc,        \* where each request is
  req,        \* its identity and body
  hits,       \* results of the vector search not yet resolved
  out,        \* what it answers
  known,      \* history: what was stored and indexed when it came
  records, lastHash, seq, written   \* the audit log

stores   == <<store, docs, items, feed>>
auditLog == <<records, lastHash, seq, written>>
vars     == <<mpc, stores, rpc, req, hits, out, known, auditLog>>

\* What a record is about, and its fields: of an identity it has no role. A text
\* of a client is known by what it is, and times are not told apart.
Actions   == {"search", "rag_query", "read_anomaly"}
Resources == {"structured", "semantic", "question"}
Audited   == [id : Identities, action : Actions, resource : Resources]
AuditedPieces == Tenants \cup {id.actor : id \in Identities} \cup Actions \cup Resources
AuditedFields ==
  [c \in Audited |->
    [tenant |-> <<c.id.tenant>>, actor |-> <<c.id.actor>>, action |-> <<c.action>>,
     resource |-> <<c.resource>>, at |-> 0]]

Log == INSTANCE AuditLog WITH
  Contents   <- Audited,
  Pieces     <- AuditedPieces,
  Fields     <- AuditedFields,
  MaxRecords <- 2 * Cardinality(Requests)

\* A reference. Faulty: the index instead of the ID.
RefToIndex(kind, id) == [kind |-> kind, id |-> id - 1]
Ref(kind, id) == [kind |-> kind, id |-> id]

Refs  == [kind : {"log", "kb", "event"}, id : Nat \ {0}]
Items == [ref : Refs, topic : Topics]

\* What is listed in an answer: a reference, the text shown, and the text that
\* was scored.
Sources == [ref : Refs, shown : Topics \cup {AnyTopic}, scored : Topics \cup {AnyTopic}]

Queries ==
  [endpoint : {"search"}, topic : Topics \cup {AnyTopic}, k : Ks]
    \cup [endpoint : {"semantic", "why"}, topic : Topics, k : Ks]
    \cup [endpoint : {"anomalies"}, topic : {AnyTopic}, k : {FeedLimit}]

Init ==
  /\ mpc = "seed"
  /\ store = <<>> /\ docs = <<>> /\ items = [t \in Tenants |-> {}] /\ feed = <<>>
  /\ rpc = [r \in Requests |-> "idle"]
  /\ req \in [Requests -> [id : {CHOOSE id \in Identities : TRUE},
                           query : {CHOOSE q \in Queries : TRUE}]]
  /\ hits = [r \in Requests |-> <<>>]
  /\ out = [r \in Requests |-> <<>>]
  /\ known = [r \in Requests |-> [entries |-> 0, items |-> {}, events |-> 0]]
  /\ Log!Init

-----------------------------------------------------------------------------
(* The knowledge base at the start, and what the rest of the system adds     *)

Upsert(t, item) ==
  items' = IF \E x \in items[t] : x.ref = item.ref THEN items
           ELSE [items EXCEPT ![t] = @ \cup {item}]

\* Add: the document, then its vector.
SeedDoc ==
  /\ mpc = "seed"
  /\ Len(docs) < Len(Seeds)
  /\ docs' = Append(docs, Seeds[Len(docs) + 1])
  /\ mpc' = "index"
  /\ UNCHANGED <<store, items, feed, rpc, req, hits, out, known, auditLog>>

IndexDoc ==
  /\ mpc = "index"
  /\ LET d == docs[Len(docs)] IN
     Upsert(d.tenant, [ref |-> Ref("kb", Len(docs)), topic |-> d.topic])
  /\ mpc' = "seed"
  /\ UNCHANGED <<store, docs, feed, rpc, req, hits, out, known, auditLog>>

Serve ==
  /\ mpc = "seed"
  /\ Len(docs) = Len(Seeds)
  /\ mpc' = "serving"
  /\ UNCHANGED <<stores, rpc, req, hits, out, known, auditLog>>

\* The writer, the embedding worker (which skips contents it has seen) and the
\* anomaly worker.
WriteEntry ==
  /\ mpc = "serving"
  /\ Len(store) + Len(feed) < MaxWrites
  /\ \E e \in Texts : store' = Append(store, e)
  /\ UNCHANGED <<mpc, docs, items, feed, rpc, req, hits, out, known, auditLog>>

IndexEntry ==
  /\ \E id \in 1..Len(store) :
       Upsert(store[id].tenant, [ref |-> Ref("log", id), topic |-> store[id].topic])
  /\ items' # items
  /\ UNCHANGED <<mpc, store, docs, feed, rpc, req, hits, out, known, auditLog>>

RaiseEvent ==
  /\ mpc = "serving"
  /\ Len(store) + Len(feed) < MaxWrites
  /\ \E t \in Tenants : feed' = Append(feed, t)
  /\ UNCHANGED <<mpc, store, docs, items, rpc, req, hits, out, known, auditLog>>

-----------------------------------------------------------------------------
(* A request up to its search *)

Caps(role) ==
  CASE role = "viewer" -> {"search"}
    [] role = "responder" -> {"search", "rag_query", "read_anomaly"}
    [] role = "admin" -> {"search", "rag_query", "read_anomaly", "view_audit"}

Can(role, action) == action \in Caps(role)

Me(r) == req[r].id
My(r) == req[r].query

\* Authenticated and decoded.
Begin(r) ==
  /\ mpc = "serving"
  /\ rpc[r] = "idle"
  /\ \E id \in Identities, q \in Queries :
       /\ req' = [req EXCEPT ![r] = [id |-> id, query |-> q]]
       /\ known' = [known EXCEPT ![r] =
            [entries |-> Len(store), items |-> items[id.tenant], events |-> Len(feed)]]
  /\ rpc' = [rpc EXCEPT ![r] = "entered"]
  /\ UNCHANGED <<mpc, stores, hits, out, auditLog>>

\* 401, 405, 400.
Refuse(r) ==
  /\ mpc = "serving"
  /\ rpc[r] = "idle"
  /\ rpc' = [rpc EXCEPT ![r] = "refused"]
  /\ UNCHANGED <<mpc, stores, req, hits, out, known, auditLog>>

\* The action a request is about to be checked for: WhyDidFail calls
\* SemanticSearch, which checks and records again.
Needed(r) ==
  CASE My(r).endpoint = "why" /\ rpc[r] = "entered" -> "rag_query"
    [] My(r).endpoint = "anomalies" -> "read_anomaly"
    [] OTHER -> "search"

Forbid(r) ==
  /\ rpc[r] \in {"entered", "nested"}
  /\ ~Can(Me(r).role, Needed(r))
  /\ rpc' = [rpc EXCEPT ![r] = "forbidden"]
  /\ UNCHANGED <<mpc, stores, req, hits, out, known, auditLog>>

Resource(r) ==
  CASE My(r).endpoint = "why" /\ rpc[r] = "entered" -> "question"
    [] My(r).endpoint = "search" -> "structured"
    [] OTHER -> "semantic"

\* Faulty: WhyDidFail searches the index itself.
SkipNested(r) == IF My(r).endpoint = "search" THEN "scan" ELSE "retrieve"
AfterAudit(r) ==
  CASE My(r).endpoint = "search" -> "scan"
    [] My(r).endpoint = "why" /\ rpc[r] = "entered" -> "nested"
    [] OTHER -> "retrieve"

Audit(r) ==
  /\ rpc[r] \in {"entered", "nested"}
  /\ My(r).endpoint # "anomalies"
  /\ Can(Me(r).role, Needed(r))
  /\ Log!AppendRecord([id |-> Me(r), action |-> Needed(r), resource |-> Resource(r)])
  /\ rpc' = [rpc EXCEPT ![r] = AfterAudit(r)]
  /\ UNCHANGED <<mpc, stores, req, hits, out, known>>

-----------------------------------------------------------------------------
(* The searches *)

Limit(k, default) == IF k <= 0 THEN default ELSE k

Answer(r, sources) ==
  /\ out' = [out EXCEPT ![r] = sources]
  /\ rpc' = [rpc EXCEPT ![r] = "answered"]

\* Each filter of the query that is set must match; they are taken as one. The
\* tenant always is.
Matches(id, t, topic) ==
  store[id].tenant = t /\ (topic = AnyTopic \/ store[id].topic = topic)

Scan(r) ==
  /\ rpc[r] = "scan"
  /\ LET matching == {id \in 1..Len(store) : Matches(id, Me(r).tenant, My(r).topic)}
         found == NewestFirst(matching, Limit(My(r).k, DefaultLimit))
     IN  Answer(r, [i \in DOMAIN found |->
           [ref |-> Ref("log", found[i]), shown |-> store[found[i]].topic,
            scored |-> AnyTopic]])
  /\ UNCHANGED <<mpc, stores, req, hits, known, auditLog>>

ReadFeed(r) ==
  /\ rpc[r] = "entered"
  /\ My(r).endpoint = "anomalies"
  /\ Can(Me(r).role, "read_anomaly")
  /\ LET mine == {n \in 1..Len(feed) : feed[n] = Me(r).tenant}
         found == NewestFirst(mine, FeedLimit)
     IN  Answer(r, [i \in DOMAIN found |->
           [ref |-> Ref("event", found[i]), shown |-> AnyTopic, scored |-> AnyTopic]])
  /\ UNCHANGED <<mpc, stores, req, hits, known, auditLog>>

\* The best k of some items, in an order of falling score. The sort is not
\* stable, so items of equal score may come in any order. Faulty: not sorted.
AnyK(is, topic, k) ==
  {s \in [1..Least(k, Cardinality(is)) -> is] :
     \A i, j \in DOMAIN s : i # j => s[i] # s[j]}
TopK(is, topic, k) ==
  {s \in [1..Least(k, Cardinality(is)) -> is] :
     /\ \A i, j \in DOMAIN s :
          i < j => s[i] # s[j] /\ Score[topic][s[i].topic] >= Score[topic][s[j].topic]
     /\ \A x \in is, i \in DOMAIN s :
          (\A j \in DOMAIN s : s[j] # x)
            => Score[topic][s[i].topic] >= Score[topic][x.topic]}

Retrieve(r) ==
  /\ rpc[r] = "retrieve"
  /\ \E s \in TopK(items[Me(r).tenant], My(r).topic, Limit(My(r).k, DefaultK)) :
       hits' = [hits EXCEPT ![r] = s]
  /\ rpc' = [rpc EXCEPT ![r] = "resolve"]
  /\ UNCHANGED <<mpc, stores, req, out, known, auditLog>>

\* The texts a reference resolves to, none or one. An ID of the store is checked
\* against its bounds, and the text against the tenant. Faulty: the ID is taken
\* for an index.
GetNext(id) == {store[i] : i \in {id + 1} \cap 1..Len(store)}
Get(id) == {store[i] : i \in {id} \cap 1..Len(store)}

Resolved(t, ref) ==
  {x \in IF ref.kind = "log" THEN Get(ref.id)
         ELSE {docs[i] : i \in {ref.id} \cap 1..Len(docs)} : x.tenant = t}

\* A hit that does not resolve is dropped.
Resolve(r) ==
  /\ rpc[r] = "resolve"
  /\ hits[r] # <<>>
  /\ hits' = [hits EXCEPT ![r] = Tail(@)]
  /\ LET h == Head(hits[r])
         texts == Resolved(Me(r).tenant, h.ref)
     IN  out' = IF texts = {} THEN out
                ELSE [out EXCEPT ![r] = Append(@,
                       [ref |-> h.ref, shown |-> (CHOOSE x \in texts : TRUE).topic,
                        scored |-> h.topic])]
  /\ UNCHANGED <<mpc, stores, rpc, req, known, auditLog>>

\* An answer of WhyDidFail cites what reaches MinScore, and is refused if
\* nothing does.
Grounded(r) ==
  LET cited == InOrder({i \in 1..Len(out[r]) :
                          Score[My(r).topic][out[r][i].scored] >= MinScore})
  IN  [i \in DOMAIN cited |-> out[r][cited[i]]]

Respond(r) ==
  /\ rpc[r] = "resolve"
  /\ hits[r] = <<>>
  /\ Answer(r, IF My(r).endpoint = "why" THEN Grounded(r) ELSE out[r])
  /\ UNCHANGED <<mpc, stores, req, hits, known, auditLog>>

Handle(r) ==
  \/ Begin(r) \/ Refuse(r) \/ Forbid(r) \/ Audit(r)
  \/ Scan(r) \/ ReadFeed(r) \/ Retrieve(r) \/ Resolve(r) \/ Respond(r)

\* All requests are answered.
Terminated ==
  /\ \A r \in Requests : rpc[r] \in {"answered", "forbidden", "refused"}
  /\ UNCHANGED vars

Next ==
  \/ SeedDoc \/ IndexDoc \/ Serve
  \/ WriteEntry \/ IndexEntry \/ RaiseEvent
  \/ \E r \in Requests : Handle(r)
  \/ Terminated

Spec == Init /\ [][Next]_vars

-----------------------------------------------------------------------------
(* Properties *)

TypeOK ==
  /\ mpc \in {"seed", "index", "serving"}
  /\ store \in Seq(Texts) /\ docs \in Seq(Texts)
  /\ items \in [Tenants -> SUBSET Items]
  /\ feed \in Seq(Tenants)
  /\ rpc \in [Requests -> {"idle", "refused", "entered", "forbidden", "nested", "scan",
                           "retrieve", "resolve", "answered"}]
  /\ req \in [Requests -> [id : Identities, query : Queries]]
  /\ hits \in [Requests -> Seq(Items)]
  /\ out \in [Requests -> Seq(Sources)]
  /\ known \in [Requests -> [entries : Nat, items : SUBSET Items, events : Nat]]
  /\ Log!TypeOK

\* The text behind a reference.
Origin(ref) ==
  CASE ref.kind = "log" -> [tenant |-> store[ref.id].tenant, topic |-> store[ref.id].topic]
    [] ref.kind = "kb" -> [tenant |-> docs[ref.id].tenant, topic |-> docs[ref.id].topic]
    [] OTHER -> [tenant |-> feed[ref.id], topic |-> AnyTopic]

\* Whatever is written meanwhile, an answer lists only sources of the tenant of
\* its identity, with the text that the reference names, which for a hit is the
\* text that was scored.
AnswersAreOwn ==
  \A r \in Requests : \A i \in 1..Len(out[r]) :
    LET s == out[r][i] IN
    /\ Origin(s.ref) = [tenant |-> Me(r).tenant, topic |-> s.shown]
    /\ My(r).endpoint \in {"semantic", "why"} => s.scored = s.shown

\* The resources a request must have recorded by now.
Due(r) ==
  IF rpc[r] \in {"idle", "refused", "entered", "forbidden"} THEN {}
  ELSE CASE My(r).endpoint = "anomalies" -> {}
         [] My(r).endpoint = "search" -> {"structured"}
         [] My(r).endpoint = "semantic" -> {"semantic"}
         [] My(r).endpoint = "why" ->
              IF rpc[r] = "nested" THEN {"question"} ELSE {"question", "semantic"}

\* A granted search is in the audit log before it reads anything, once per check
\* it passed, in the name of its identity; a refused one leaves no record.
GrantedMeansAudited ==
  \A id \in Identities, res \in {"structured", "semantic", "question"} :
    Cardinality({i \in 1..Len(records) :
                   records[i].content.id = id /\ records[i].content.resource = res})
      = Cardinality({r \in Requests : Me(r) = id /\ res \in Due(r)})

\* Semantic hits and citations come in falling score, and evidence indexed before
\* the question came is cited unless k better or equal sources are; so "why" is
\* refused only if nothing indexed before reached MinScore.
EvidenceIsCited ==
  \A r \in Requests :
    rpc[r] = "answered" /\ My(r).endpoint \in {"semantic", "why"} =>
      LET score(topic) == Score[My(r).topic][topic]
          listed == DOMAIN out[r]
      IN  /\ \A i, j \in listed :
               i < j => score(out[r][i].scored) >= score(out[r][j].scored)
          /\ \A x \in known[r].items :
               \/ My(r).endpoint = "why" /\ score(x.topic) < MinScore
               \/ \E i \in listed : out[r][i].ref = x.ref
               \/ /\ Cardinality(listed) = Limit(My(r).k, DefaultK)
                  /\ \A i \in listed : score(out[r][i].scored) >= score(x.topic)

\* A structured search, or a read of the feed, answers newest first, and misses
\* nothing that was there when it came unless its limit is filled by newer ones.
NewestAreFound ==
  \A r \in Requests :
    rpc[r] = "answered" /\ My(r).endpoint \in {"search", "anomalies"} =>
      LET listed == DOMAIN out[r]
          id(i) == out[r][i].ref.id
          full == IF My(r).endpoint = "search" THEN Limit(My(r).k, DefaultLimit)
                  ELSE FeedLimit
          there == IF My(r).endpoint = "search"
                   THEN {n \in 1..known[r].entries : Matches(n, Me(r).tenant, My(r).topic)}
                   ELSE {n \in 1..known[r].events : feed[n] = Me(r).tenant}
      IN  /\ \A i, j \in listed : i < j => id(i) > id(j)
          /\ Cardinality(listed) <= full
          /\ \A n \in there :
               \/ \E i \in listed : id(i) = n
               \/ Cardinality(listed) = full /\ \A i \in listed : id(i) > n
=============================================================================
