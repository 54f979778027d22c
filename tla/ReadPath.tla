------------------------------ MODULE ReadPath ------------------------------
(***************************************************************************)
(* Reads of the local service over its raw records, while a refresh saves  *)
(* new ones.                                                               *)
(*                                                                         *)
(* Most requests (_signed_read) compute the signature of what they depend  *)
(* on, which is bound to its content, and use a cache keyed by it          *)
(* (application/read_cache_policy.py): identical requests wait for one     *)
(* load.  The charts of some assets are cached by their request alone and  *)
(* dropped at the end of a refresh.  Each of signature, load and           *)
(* validation opens the store anew, and sees the snapshot of that moment.  *)
(***************************************************************************)
EXTENDS RawStore, SequencesExt

CONSTANTS
  Readers,    \* threads of the HTTP server
  Queries,    \* what a request selects, a set of records
  Requests,   \* bound: who asks for what, and how
  MaxEntries, \* of the signature cache
  None

ASSUME ReadPathAssumption ==
  /\ \A q \in Queries : q \subseteq Records
  /\ Requests \subseteq Readers \X Queries \X {"signed", "plain", "chart"}
  /\ MaxEntries \in Nat \ {0}
  /\ \A q \in Queries : None \notin [q -> 0..2]

VARIABLES
  pc,        \* where each thread is
  how,       \* how it reads: signed, plain (no signature), chart
  query,     \* what it selects
  key,       \* its signature
  value,     \* what its load returned, None after an error
  entries,   \* _entries: the signature cache, least recently used first
  inflight,  \* _inflight: signatures that are being loaded
  charts,    \* the caches of charts: a value for each query, or None
  since,     \* history: the records of a request as they were when it began
  reply,     \* history: the answers that were given last
  overtaken  \* history: queries whose chart was dropped while it was loaded

cacheVars == <<entries, inflight, charts>>
callVars == <<pc, how, query, key, value, since, reply>>
vars == <<storeVars, callVars, cacheVars, overtaken>>

View(q) == [r \in q |-> index[r]]

InitReads ==
  /\ pc = [p \in Readers |-> "idle"]
  /\ how = [p \in Readers |-> "plain"]
  /\ query = [p \in Readers |-> {}]
  /\ key = [p \in Readers |-> None]
  /\ value = [p \in Readers |-> None]
  /\ entries = <<>>
  /\ inflight = {}
  /\ charts = [q \in Queries |-> None]
  /\ since = [p \in Readers |-> None]
  /\ reply = [p \in Readers |-> None]
  /\ overtaken = {}

Init == InitStore /\ InitReads

-----------------------------------------------------------------------------
(* Steps of a request *)

Goto(p, there) == pc' = [pc EXCEPT ![p] = there]

\* The threads of A have their answer v, or None when they raise it.
Answer(A, v) ==
  /\ pc' = [p \in Readers |-> IF p \in A THEN "idle" ELSE pc[p]]
  /\ since' = [p \in Readers |-> IF p \in A THEN None ELSE since[p]]
  /\ reply' = [p \in Readers |-> IF p \in A /\ how[p] # "chart" THEN v ELSE None]
  /\ key' = [p \in Readers |-> IF p \in A THEN None ELSE key[p]]
  /\ value' = [p \in Readers |-> IF p \in A THEN None ELSE value[p]]
  /\ how' = [p \in Readers |-> IF p \in A THEN "plain" ELSE how[p]]
  /\ query' = [p \in Readers |-> IF p \in A THEN {} ELSE query[p]]

\* A request without a signature (ReadSignatureUnavailable) is plain: it is
\* loaded and not shared.
Request(p, q, h) ==
  /\ service = "up"
  /\ pc[p] = "idle"
  /\ query' = [query EXCEPT ![p] = q]
  /\ how' = [how EXCEPT ![p] = h]
  /\ since' = IF h = "chart" THEN since ELSE [since EXCEPT ![p] = View(q)]
  /\ Goto(p, IF h = "plain" THEN "load" ELSE "begin")
  /\ UNCHANGED <<storeVars, key, value, reply, cacheVars, overtaken>>

\* Fault: the signature names the request and not the content it depends on.
SignatureOfRequest(q) == [query |-> q, content |-> {}]

\* build_read_dependency_signature: bound to the content of the selected rows.
Signature(q) == [query |-> q, content |-> View(q)]

\* _signed_read.
Sign(p) ==
  /\ pc[p] = "begin" /\ how[p] = "signed"
  /\ key' = [key EXCEPT ![p] = Signature(query[p])]
  /\ Goto(p, "lookup")
  /\ UNCHANGED <<storeVars, how, query, value, since, reply, cacheVars, overtaken>>

Cached(k) == {n \in DOMAIN entries : entries[n].key = k}

\* get_or_load: the value is cached; it becomes the most recently used.
Hit(p) ==
  /\ pc[p] = "lookup"
  /\ \E n \in Cached(key[p]) :
       /\ Answer({p}, entries[n].value)
       /\ entries' = Append(RemoveAt(entries, n), entries[n])
  /\ UNCHANGED <<storeVars, inflight, charts, overtaken>>

\* ... it is being loaded: the thread waits for the event of that load ...
Join(p) ==
  /\ pc[p] = "lookup"
  /\ Cached(key[p]) = {}
  /\ key[p] \in inflight
  /\ Goto(p, "wait")
  /\ UNCHANGED <<storeVars, how, query, key, value, since, reply, cacheVars, overtaken>>

\* ... or the thread loads it for all.
Lead(p) ==
  /\ pc[p] = "lookup"
  /\ Cached(key[p]) = {}
  /\ key[p] \notin inflight
  /\ inflight' = inflight \cup {key[p]}
  /\ Goto(p, "load")
  /\ UNCHANGED <<storeVars, how, query, key, value, since, reply, entries, charts,
                 overtaken>>

\* A chart is looked up under the lock of the caches, and loaded outside it.
ChartLookup(p) ==
  /\ pc[p] = "begin" /\ how[p] = "chart"
  /\ IF charts[query[p]] # None
     THEN Answer({p}, charts[query[p]])
     ELSE Goto(p, "load") /\ UNCHANGED <<how, query, key, value, since, reply>>
  /\ UNCHANGED <<storeVars, cacheVars, overtaken>>

Loaded(p) ==
  CASE how[p] = "signed" -> "check" [] how[p] = "chart" -> "store" [] how[p] = "plain" -> "end"

\* The load opens a snapshot and hydrates its rows from their files, which
\* nobody changes or removes.
Load(p) ==
  /\ pc[p] = "load"
  /\ value' = [value EXCEPT ![p] = View(query[p])]
  /\ Goto(p, Loaded(p))
  /\ UNCHANGED <<storeVars, how, query, key, since, reply, cacheVars, overtaken>>

\* The loader raises; who leads still has to release the others.
LoadRaises(p) ==
  /\ pc[p] = "load"
  /\ faults < MaxFaults
  /\ faults' = faults + 1
  /\ Goto(p, "end")
  /\ UNCHANGED <<index, blobs, service, writer, job, saves, crashes, how, query, key,
                 value, since, reply, cacheVars, overtaken>>

\* Fault: the value is cached without a second look at what it depends on.
CheckNothing(p) ==
  /\ pc[p] = "check"
  /\ Goto(p, "store")
  /\ UNCHANGED <<storeVars, how, query, key, value, since, reply, cacheVars, overtaken>>

\* revalidate: only what has the signature still may be cached; a signature
\* that cannot be computed now is another.
Check(p) ==
  /\ pc[p] = "check"
  /\ \/ Signature(query[p]) = key[p] /\ Goto(p, "store")
     \/ Goto(p, "end")
  /\ UNCHANGED <<storeVars, how, query, key, value, since, reply, cacheVars, overtaken>>

\* Fault: the cache is cut when it is past its limit by one.
BoundedLate(es) == IF Len(es) > MaxEntries + 1 THEN Tail(es) ELSE es

\* store: the least recently used entries make room.
Bounded(es) == IF Len(es) > MaxEntries THEN Tail(es) ELSE es

Without(k) == IF Cached(k) = {} THEN entries ELSE RemoveAt(entries, CHOOSE n \in Cached(k) : TRUE)

Store(p) ==
  /\ pc[p] = "store" /\ how[p] = "signed"
  /\ entries' = Bounded(Append(Without(key[p]), [key |-> key[p], value |-> value[p]]))
  /\ Goto(p, "end")
  /\ UNCHANGED <<storeVars, how, query, key, value, since, reply, inflight, charts,
                 overtaken>>

ChartStore(p) ==
  /\ pc[p] = "store" /\ how[p] = "chart"
  /\ charts' = [charts EXCEPT ![query[p]] = value[p]]
  /\ Answer({p}, value[p])
  /\ UNCHANGED <<storeVars, entries, inflight, overtaken>>

Waiting(k) == {w \in Readers : pc[w] = "wait" /\ key[w] = k}

\* Fault: an error is raised before the waiting threads are released.
EndUnlessRaised(p) ==
  /\ pc[p] = "end" /\ how[p] = "signed"
  /\ IF value[p] = None
     THEN Answer({p}, None) /\ UNCHANGED inflight
     ELSE Answer({p} \cup Waiting(key[p]), value[p]) /\ inflight' = inflight \ {key[p]}
  /\ UNCHANGED <<storeVars, entries, charts, overtaken>>

\* The value or the error goes to everyone who waits, and the load is over.
End(p) ==
  /\ pc[p] = "end" /\ how[p] = "signed"
  /\ Answer({p} \cup Waiting(key[p]), value[p])
  /\ inflight' = inflight \ {key[p]}
  /\ UNCHANGED <<storeVars, entries, charts, overtaken>>

EndAlone(p) ==
  /\ pc[p] = "end" /\ how[p] # "signed"
  /\ Answer({p}, value[p])
  /\ UNCHANGED <<storeVars, cacheVars, overtaken>>

-----------------------------------------------------------------------------
(* The writer, and the process *)

Writes == StoreStep \/ \E b \in Batches : SaveBegins(b)

\* Fault: a refresh that failed leaves the caches as they are.
ClearAfterSuccess ==
  /\ writer = "clear"
  /\ Drop("idle")
  /\ IF faults > 0
     THEN UNCHANGED <<charts, entries, overtaken>>
     ELSE /\ charts' = [q \in Queries |-> None]
          /\ entries' = <<>>
          /\ overtaken' = {q \in Queries : \E p \in Readers :
               how[p] = "chart" /\ query[p] = q /\ pc[p] = "store"}
  /\ saves' = saves + 1
  /\ UNCHANGED <<index, blobs, service, crashes, faults, callVars, inflight>>

\* The end of a refresh, whether it succeeded or not: the caches are dropped,
\* but a load under way still stores what it read.
Clear ==
  /\ writer = "clear"
  /\ Drop("idle")
  /\ charts' = [q \in Queries |-> None]
  /\ entries' = <<>>
  /\ overtaken' = {q \in Queries : \E p \in Readers :
       how[p] = "chart" /\ query[p] = q /\ pc[p] = "store"}
  /\ saves' = saves + 1
  /\ UNCHANGED <<index, blobs, service, crashes, faults, callVars, inflight>>

Repairs == (StoreUp \/ RepairStep) /\ UNCHANGED <<callVars, cacheVars, overtaken>>

\* With the process its threads and caches are gone.
ProcessEnds ==
  /\ StoreDown
  /\ pc' = [p \in Readers |-> "idle"]
  /\ how' = [p \in Readers |-> "plain"]
  /\ query' = [p \in Readers |-> {}]
  /\ key' = [p \in Readers |-> None]
  /\ value' = [p \in Readers |-> None]
  /\ since' = [p \in Readers |-> None]
  /\ entries' = <<>>
  /\ inflight' = {}
  /\ charts' = [q \in Queries |-> None]
  /\ overtaken' = {}
  /\ reply' = [p \in Readers |-> None]

-----------------------------------------------------------------------------
ReaderStep(p) ==
  \/ Sign(p) \/ Hit(p) \/ Join(p) \/ Lead(p) \/ ChartLookup(p)
  \/ Load(p) \/ LoadRaises(p)
  \/ Check(p) \/ Store(p) \/ ChartStore(p) \/ End(p) \/ EndAlone(p)

Next ==
  \/ \E p \in Readers : ReaderStep(p)
  \/ \E r \in Requests : Request(r[1], r[2], r[3])
  \/ Writes /\ UNCHANGED <<callVars, cacheVars, overtaken>>
  \/ Clear
  \/ Repairs
  \/ ProcessEnds

Spec == Init /\ [][Next]_vars

\* Every thread that can run does, and every load returns or raises.
Fairness == \A p \in Readers : WF_vars(ReaderStep(p))

FairSpec == Spec /\ Fairness

-----------------------------------------------------------------------------
(* Properties *)

IsView(v) == \E q \in Queries : v \in [q -> 0..2]
IsKey(k) == \E q \in Queries : k.query = q /\ k.content \in [q -> 0..2]

\* The types; a value, a snapshot and a signature are of the query they are for.
TypeOK ==
  /\ index \in [Records -> 0..2] /\ blobs \subseteq Items
  /\ service \in {"up", "down"}
  /\ writer \in {"idle", "chunk", "items", "clear", "repair"}
  /\ list \in Seq(Items) /\ chunk \in Seq(Items) /\ rows \subseteq Items
  /\ pc \in [Readers -> {"idle", "begin", "lookup", "wait", "load", "check", "store", "end"}]
  /\ how \in [Readers -> {"signed", "plain", "chart"}]
  /\ \A p \in Readers :
       /\ key[p] # None => IsKey(key[p]) /\ key[p].query = query[p]
       /\ value[p] # None => value[p] \in [query[p] -> 0..2]
       /\ reply[p] # None => IsView(reply[p])
  /\ \A n \in DOMAIN entries : IsKey(entries[n].key) /\ IsView(entries[n].value)
  /\ Len(entries) <= MaxEntries
  /\ \A k \in inflight : IsKey(k)
  /\ \A q \in Queries : charts[q] # None => charts[q] \in [q -> 0..2]

\* What is cached under a signature is exactly what the signature was taken
\* of, although a refresh may write between signature, load and validation.
CacheBound ==
  \A n \in DOMAIN entries :
    entries[n].key = [query |-> DOMAIN entries[n].value, content |-> entries[n].value]

\* Between refreshes a cached chart shows the data as it is, unless it was
\* being loaded when the last refresh dropped the charts.
ChartsCurrent ==
  writer = "idle" =>
    \A q \in Queries : charts[q] # None => charts[q] = View(q) \/ q \in overtaken

\* docs/local_interface.md:631-634: every refresh invalidates the cached charts,
\* even one that ends with part of its work done.
ChartsInvalidated ==
  writer = "idle" => \A q \in Queries : charts[q] # None => charts[q] = View(q)

Fresh == INSTANCE FreshRead WITH data <- index

\* Cached, shared or loaded, an answer is not older than its request: reads
\* implement FreshRead.
ImplementsFreshRead == Fresh!Spec

\* Every request ends, also one that waits for the load of another, when that
\* load raises or what it returned may not be cached.
EveryRequestEnds == \A p \in Readers : pc[p] # "idle" ~> pc[p] = "idle"
=============================================================================
