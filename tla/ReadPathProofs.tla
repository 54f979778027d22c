--------------------------- MODULE ReadPathProofs ---------------------------
(***************************************************************************)
(* Proofs about ReadPath, for any records, batches, readers and queries:   *)
(* no row without its file, no cached value that its signature was not     *)
(* taken of, no answer older than its request, and no chart that a refresh *)
(* left behind.                                                            *)
(*                                                                         *)
(* The store's part of the invariant makes the contents of a record only   *)
(* grow; the readers' part orders, for each request, the records at its    *)
(* start, under its signature, in its value and now.  A second invariant,  *)
(* on top of it, follows the charts from their load to the next refresh.   *)
(***************************************************************************)
EXTENDS ReadPath, SequenceTheorems, TLAPS

Values(q) == [q -> 0..2]

Below(a, b, q) == \A r \in q : a[r] <= b[r]

\* The files of the rows to come are there, and the rows do not go back.
StoreInv ==
  /\ index \in [Records -> 0..2] /\ blobs \subseteq Items
  /\ list \in Seq(Items) /\ chunk \in Seq(Items)
  /\ rows \subseteq blobs
  /\ \A i \in rows : index[i.id] <= i.body
  /\ IndexReadable

Grown == Below(index, index', Records)

\* What is known of one thread: where it is (c), how it reads (h), what (q),
\* its signature (k), its value (v) and the records at its start (s), when the
\* records are as in i.
Placed(c, h, q, k, v, s) ==
  /\ h \in {"signed", "plain", "chart"}
  /\ c = "idle" => s = None
  /\ h = "chart" => s = None
  /\ c # "idle" => q \in Queries
  /\ c \in {"lookup", "wait", "check"} => h = "signed"
  /\ c \in {"idle", "begin", "lookup", "wait", "load"} => v = None
  /\ c \in {"check", "store"} => v # None

Dated(c, h, q, s, i) ==
  c # "idle" /\ h # "chart" => s \in Values(q) /\ Below(s, i, q)

Sealed(c, h, q, k, s, i) ==
  c \notin {"idle", "begin"} /\ h = "signed" =>
    /\ k.content \in Values(q)
    /\ k = [query |-> q, content |-> k.content]
    /\ Below(s, k.content, q) /\ Below(k.content, i, q)

Valued(c, h, q, k, v, s, i) ==
  v # None =>
    /\ v \in Values(q) /\ Below(v, i, q)
    /\ h = "signed" => Below(k.content, v, q)
    /\ h = "plain" => Below(s, v, q)
    /\ c = "store" /\ h = "signed" => v = k.content

Known(c, h, q, k, v, s, i) ==
  /\ Placed(c, h, q, k, v, s)
  /\ Dated(c, h, q, s, i)
  /\ Sealed(c, h, q, k, s, i)
  /\ Valued(c, h, q, k, v, s, i)

ReaderInv(p) == Known(pc[p], how[p], query[p], key[p], value[p], since[p], index)

\* An entry of the signature cache that shows v.
Pair(v) == [key |-> [query |-> DOMAIN v, content |-> v], value |-> v]

Pairs == {Pair(v) : v \in UNION {Values(q) : q \in Queries}}

\* The variables of the threads are functions on Readers.
Threads ==
  /\ pc = [p \in Readers |-> pc[p]] /\ how = [p \in Readers |-> how[p]]
  /\ query = [p \in Readers |-> query[p]] /\ key = [p \in Readers |-> key[p]]
  /\ value = [p \in Readers |-> value[p]] /\ since = [p \in Readers |-> since[p]]

IInv ==
  /\ StoreInv
  /\ Threads
  /\ \A p \in Readers : ReaderInv(p)
  /\ entries \in Seq(Pairs)

-----------------------------------------------------------------------------
(* The store *)

\* Rows inserted or updated at once: every row keeps its file, and no record
\* goes back to an older content.
LEMMA RowsKeep ==
  ASSUME StoreInv, index' = WithRows(rows), blobs' = blobs
  PROVE  index' \in [Records -> 0..2] /\ IndexReadable' /\ Grown
<1>1. \A r \in Records :
        \/ index'[r] = index[r]
        \/ \E i \in rows : i.id = r /\ index'[r] = i.body
  BY DEF WithRows
<1>2. \A i \in rows : i \in Items /\ i \in blobs /\ index[i.id] <= i.body
  BY DEF StoreInv
<1>3. \A i \in Items : i = [id |-> i.id, body |-> i.body] /\ i.body \in 1..2
  BY DEF Items, Bodies
<1>4. index' = [r \in Records |-> index'[r]]
  BY DEF WithRows
<1>5. \A r \in Records : index[r] \in 0..2
  BY DEF StoreInv
<1>6. ASSUME NEW r \in Records
      PROVE  /\ index'[r] \in 0..2 /\ index[r] <= index'[r]
             /\ index'[r] # 0 => [id |-> r, body |-> index'[r]] \in blobs
  <2>1. CASE index'[r] = index[r]
    BY <1>5, <2>1 DEF StoreInv, IndexReadable
  <2>2. CASE \E i \in rows : i.id = r /\ index'[r] = i.body
    <3>1. PICK i \in rows : i.id = r /\ index'[r] = i.body
      BY <2>2
    <3>2. i = [id |-> r, body |-> index'[r]] /\ i.body \in 1..2
      BY <1>2, <1>3, <3>1
    <3> QED BY <1>2, <3>1, <3>2
  <2> QED BY <1>1, <2>1, <2>2
<1> QED BY <1>4, <1>6 DEF IndexReadable, Grown, Below

\* A step that leaves rows and files alone, and drops rows or keeps them.
LEMMA StoreKeeps ==
  ASSUME StoreInv, UNCHANGED <<index, blobs>>, rows' \subseteq rows,
         list' \in Seq(Items), chunk' \in Seq(Items)
  PROVE  StoreInv' /\ Grown
BY DEF StoreInv, IndexReadable, Grown, Below

\* The sequences that a step empties are sequences of items.
LEMMA EmptyItems == <<>> \in Seq(Items)
OBVIOUS

\* Every step of a save keeps the store's part of the invariant, and no
\* record goes back.
LEMMA SaveKeeps ==
  ASSUME StoreInv, StoreStep \/ (\E b \in Batches : SaveBegins(b))
  PROVE  StoreInv' /\ Grown
<1> USE EmptyItems
<1>0. /\ list \in Seq(Items) /\ chunk \in Seq(Items)
      /\ rows \subseteq Items /\ blobs \subseteq Items
  BY DEF StoreInv
<1>1. ASSUME NEW b \in Batches, SaveBegins(b) PROVE StoreInv' /\ Grown
  <2>1. b \in Seq(Items) BY RawStoreAssumption
  <2> QED BY <1>0, <1>1, <2>1, StoreKeeps DEF SaveBegins
<1>2. CASE TakeChunk
  <2> DEFINE n == Least(ChunkSize, Len(list))
             next == SubSeq(list, 1, n)
  <2>1. Len(list) \in Nat /\ n \in 0..Len(list)
    BY <1>0, RawStoreAssumption, LenProperties DEF Least
  <2>2. next \in Seq(Items) /\ SubSeq(list, n + 1, Len(list)) \in Seq(Items)
    BY <1>0, <2>1, SubSeqProperties
  <2>3. list' \in Seq(Items) /\ chunk' \in Seq(Items) /\ rows' = {}
    <3>1. CASE Drop("clear") BY <3>1 DEF Drop
    <3>2. CASE /\ list' = SubSeq(list, n + 1, Len(list))
               /\ chunk' = next
               /\ rows' = {}
      <4> HIDE DEF n, next
      <4> QED BY <2>2, <3>2
    <3> QED BY <1>2, <3>1, <3>2 DEF TakeChunk
  <2>4. UNCHANGED <<index, blobs>> BY <1>2 DEF TakeChunk
  <2> QED BY <2>3, <2>4, StoreKeeps
<1>3. CASE Reuse
  <2>1. Tail(chunk) \in Seq(Items) BY <1>0, <1>3, HeadTailProperties DEF Reuse
  <2> QED BY <1>0, <1>3, <2>1, StoreKeeps DEF Reuse
<1>4. CASE Conflict \/ SaveFails
  BY <1>4, StoreKeeps DEF Conflict, SaveFails, Drop
<1>5. CASE WriteBlob
  <2> DEFINE i == Head(chunk)
  <2>1. i \in Items /\ Tail(chunk) \in Seq(Items)
    BY <1>0, <1>5, HeadTailProperties DEF WriteBlob
  <2>2. index[i.id] <= i.body
    BY <1>5, <2>1 DEF WriteBlob, Items, Bodies
  <2>3. /\ UNCHANGED <<index, list>> /\ chunk' = Tail(chunk)
        /\ rows' = rows \cup {i} /\ blobs' = blobs \cup {i}
    BY <1>5 DEF WriteBlob
  <2> HIDE DEF i
  <2> QED BY <2>1, <2>2, <2>3 DEF StoreInv, IndexReadable, Grown, Below
<1>6. CASE CommitChunk
  <2>1. index' \in [Records -> 0..2] /\ IndexReadable' /\ Grown
    BY <1>6, RowsKeep DEF CommitChunk
  <2> QED BY <1>0, <1>6, <2>1 DEF CommitChunk, StoreInv
<1> QED BY <1>1, <1>2, <1>3, <1>4, <1>5, <1>6 DEF StoreStep

\* So do the steps of a repair, the starts and the ends of processes and the
\* end of a refresh.
LEMMA RepairKeeps ==
  ASSUME StoreInv, StoreUp \/ RepairStep
  PROVE  StoreInv' /\ Grown
<1> USE EmptyItems
<1>1. CASE StoreUp \/ RepairFails
  BY <1>1, StoreKeeps DEF StoreUp, RepairFails, Drop, StoreInv, job
<1>2. ASSUME NEW r \in Records, RepairFile(r) PROVE StoreInv' /\ Grown
  <2> DEFINE i == [id |-> r, body |-> 2]
  <2>1. i \in Items /\ i.id = r /\ i.body = 2 BY DEF Items, Bodies
  <2>2. UNCHANGED <<index, list, chunk>> /\ rows' = {i} /\ blobs' = blobs \cup {i}
    BY <1>2 DEF RepairFile
  <2>3. index[r] <= 2 BY <1>2 DEF RepairFile
  <2> HIDE DEF i
  <2> QED BY <2>1, <2>2, <2>3 DEF StoreInv, IndexReadable, Grown, Below
<1>3. CASE RepairRow
  <2>1. index' \in [Records -> 0..2] /\ IndexReadable' /\ Grown
    BY <1>3, RowsKeep DEF RepairRow
  <2> QED BY <1>3, <2>1 DEF RepairRow, Drop, StoreInv
<1> QED BY <1>1, <1>2, <1>3 DEF RepairStep

-----------------------------------------------------------------------------
(* The threads *)

\* Records that grow keep what is known of every thread.
LEMMA GrowthKeeps ==
  ASSUME StoreInv, StoreInv', Grown, Threads,
         NEW p \in Readers, ReaderInv(p),
         UNCHANGED <<pc, how, query, key, value, since>>
  PROVE  ReaderInv(p)'
<1>1. /\ pc'[p] = pc[p] /\ how'[p] = how[p] /\ query'[p] = query[p]
      /\ key'[p] = key[p] /\ value'[p] = value[p] /\ since'[p] = since[p]
  OBVIOUS
<1>2. \A r \in Records : index[r] \in 0..2 /\ index'[r] \in 0..2 /\ index[r] <= index'[r]
  BY DEF StoreInv, Grown, Below
<1>3. ASSUME NEW q \in Queries, NEW v \in Values(q), Below(v, index, q)
      PROVE  Below(v, index', q)
  <2>1. \A r \in q : r \in Records /\ v[r] \in 0..2
    BY ReadPathAssumption DEF Values
  <2> QED BY <1>2, <1>3, <2>1 DEF Below
<1>4. Placed(pc[p], how[p], query[p], key[p], value[p], since[p])
  BY DEF ReaderInv, Known
<1>5. Dated(pc[p], how[p], query[p], since[p], index')
  BY <1>3, <1>4 DEF ReaderInv, Known, Dated, Placed
<1>6. Sealed(pc[p], how[p], query[p], key[p], since[p], index')
  BY <1>3, <1>4 DEF ReaderInv, Known, Sealed, Placed
<1>7. Valued(pc[p], how[p], query[p], key[p], value[p], since[p], index')
  BY <1>3, <1>4 DEF ReaderInv, Known, Valued, Placed
<1> QED BY <1>1, <1>4, <1>5, <1>6, <1>7 DEF ReaderInv, Known

\* What is known of a thread that a step does not touch.
LEMMA OthersKeep ==
  ASSUME NEW p, ReaderInv(p), UNCHANGED index,
         pc'[p] = pc[p], how'[p] = how[p], query'[p] = query[p],
         key'[p] = key[p], value'[p] = value[p], since'[p] = since[p]
  PROVE  ReaderInv(p)'
BY DEF ReaderInv

\* Threads that have their answer know nothing more, the others what they knew.
LEMMA AnswerKeeps ==
  ASSUME Threads, \A p \in Readers : ReaderInv(p), UNCHANGED index,
         NEW A, NEW v, Answer(A, v)
  PROVE  Threads' /\ \A p \in Readers : ReaderInv(p)'
<1>1. Threads'
  BY DEF Answer, Threads
<1>2. ASSUME NEW p \in Readers PROVE ReaderInv(p)'
  <2>1. CASE p \in A
    <3>1. /\ pc'[p] = "idle" /\ how'[p] = "plain" /\ query'[p] = {}
          /\ key'[p] = None /\ value'[p] = None /\ since'[p] = None
      BY <2>1 DEF Answer
    <3> QED BY <3>1 DEF ReaderInv, Known, Placed, Dated, Sealed, Valued
  <2>2. CASE p \notin A
    <3>1. /\ pc'[p] = pc[p] /\ how'[p] = how[p] /\ query'[p] = query[p]
          /\ key'[p] = key[p] /\ value'[p] = value[p] /\ since'[p] = since[p]
      BY <2>2 DEF Answer
    <3> QED BY <3>1, OthersKeep
  <2> QED BY <2>1, <2>2
<1> QED BY <1>1, <1>2

\* The records of a query are its values, and as new as they are.
LEMMA Views ==
  ASSUME StoreInv, NEW q \in Queries
  PROVE  /\ View(q) \in Values(q) /\ DOMAIN View(q) = q
         /\ \A r \in q : View(q)[r] = index[r] /\ index[r] \in 0..2
         /\ Below(View(q), index, q) /\ None \notin Values(q)
<1>1. \A r \in q : r \in Records /\ index[r] \in 0..2
  BY ReadPathAssumption DEF StoreInv
<1> QED BY <1>1, ReadPathAssumption DEF View, Values, Below

\* An entry under the signature of a thread shows what the signature names.
LEMMA PairShows ==
  ASSUME NEW e \in Pairs, NEW q, NEW w, e.key = [query |-> q, content |-> w]
  PROVE  e.value = w /\ w \in Values(q) /\ q \in Queries
<1>1. PICK v \in UNION {Values(x) : x \in Queries} : e = Pair(v)
  BY DEF Pairs
<1>2. PICK x \in Queries : v \in Values(x)
  BY <1>1
<1>3. DOMAIN v = x /\ e.value = v /\ e.key = [query |-> x, content |-> v]
  BY <1>1, <1>2 DEF Pair, Values
<1>4. e.key.query = q /\ e.key.content = w /\ e.key.query = x /\ e.key.content = v
  BY <1>3
<1> QED BY <1>2, <1>3, <1>4

\* What a signature was taken of makes an entry of the cache.
LEMMA ShowsPair ==
  ASSUME NEW q \in Queries, NEW v \in Values(q)
  PROVE  [key |-> [query |-> q, content |-> v], value |-> v] \in Pairs
BY DEF Pairs, Pair, Values

\* Entries taken out and put behind are still entries.
LEMMA EntriesKeep ==
  ASSUME NEW es \in Seq(Pairs), NEW n \in DOMAIN es
  PROVE  RemoveAt(es, n) \in Seq(Pairs)
<1>1. DOMAIN es = 1..Len(es) /\ Len(es) \in Nat
  BY LenProperties
<1>2. SubSeq(es, 1, n - 1) \in Seq(Pairs) /\ SubSeq(es, n + 1, Len(es)) \in Seq(Pairs)
  BY <1>1, SubSeqProperties
<1> QED BY <1>2, ConcatProperties DEF RemoveAt

\* A step of one thread: what is left to show is what is known of that one.
LEMMA OneMoves ==
  ASSUME \A x \in Readers : ReaderInv(x), UNCHANGED index, NEW p \in Readers,
         \A x \in Readers \ {p} :
           /\ pc'[x] = pc[x] /\ how'[x] = how[x] /\ query'[x] = query[x]
           /\ key'[x] = key[x] /\ value'[x] = value[x] /\ since'[x] = since[x],
         ReaderInv(p)'
  PROVE  \A x \in Readers : ReaderInv(x)'
BY OthersKeep

ReadersInv == Threads /\ (\A p \in Readers : ReaderInv(p)) /\ entries \in Seq(Pairs)

\* A request is asked.
LEMMA RequestKeeps ==
  ASSUME StoreInv, ReadersInv, NEW r \in Requests, Request(r[1], r[2], r[3])
  PROVE  ReadersInv'
<1> DEFINE p == r[1]
           q == r[2]
           h == r[3]
<1>1. p \in Readers /\ q \in Queries /\ h \in {"signed", "plain", "chart"}
  BY ReadPathAssumption
<1>2. /\ pc[p] = "idle" /\ Request(p, q, h)
  BY DEF Request
<1> HIDE DEF p, q, h
<1>3. /\ pc'[p] = (IF h = "plain" THEN "load" ELSE "begin") /\ how'[p] = h /\ query'[p] = q
      /\ key'[p] = key[p] /\ value'[p] = value[p]
      /\ since'[p] = (IF h = "chart" THEN since[p] ELSE View(q))
      /\ UNCHANGED <<index, entries>>
  BY <1>1, <1>2 DEF Request, Goto, ReadersInv, Threads, storeVars, cacheVars
<1>4. \A x \in Readers \ {p} :
        /\ pc'[x] = pc[x] /\ how'[x] = how[x] /\ query'[x] = query[x]
        /\ key'[x] = key[x] /\ value'[x] = value[x] /\ since'[x] = since[x]
  BY <1>2 DEF Request, Goto, ReadersInv, Threads
<1>5. since[p] = None /\ value[p] = None
  BY <1>1, <1>2 DEF ReadersInv, ReaderInv, Known, Placed
<1>6. ReaderInv(p)'
  <2>1. Placed(pc'[p], h, q, key[p], value[p], since'[p])
    BY <1>1, <1>3, <1>5 DEF Placed
  <2>2. Dated(pc'[p], h, q, since'[p], index)
    BY <1>1, <1>3, Views DEF Dated
  <2>3. Sealed(pc'[p], h, q, key[p], since'[p], index)
    BY <1>1, <1>3 DEF Sealed
  <2>4. Valued(pc'[p], h, q, key[p], value[p], since'[p], index)
    BY <1>5 DEF Valued
  <2> QED BY <1>3, <2>1, <2>2, <2>3, <2>4 DEF ReaderInv, Known
<1>7. Threads'
  BY ZenonT(60), <1>1, <1>2 DEF Request, Goto, ReadersInv, Threads
<1> QED BY <1>1, <1>3, <1>4, <1>6, <1>7, OneMoves DEF ReadersInv

\* A thread takes the signature of what it is to read.
LEMMA SignKeeps ==
  ASSUME StoreInv, ReadersInv, NEW p \in Readers, Sign(p)
  PROVE  ReadersInv'
<1> DEFINE q == query[p]
<1>1. /\ pc[p] = "begin" /\ how[p] = "signed"
      /\ pc'[p] = "lookup" /\ how'[p] = "signed" /\ query'[p] = q
      /\ key'[p] = [query |-> q, content |-> View(q)] /\ value'[p] = value[p]
      /\ since'[p] = since[p] /\ UNCHANGED <<index, entries>>
  BY DEF Sign, Signature, Goto, ReadersInv, Threads, storeVars, cacheVars
<1>2. \A x \in Readers \ {p} :
        /\ pc'[x] = pc[x] /\ how'[x] = how[x] /\ query'[x] = query[x]
        /\ key'[x] = key[x] /\ value'[x] = value[x] /\ since'[x] = since[x]
  BY DEF Sign, Goto, ReadersInv, Threads
<1>3. /\ Placed("begin", "signed", q, key[p], value[p], since[p])
      /\ Dated("begin", "signed", q, since[p], index)
  BY <1>1 DEF ReadersInv, ReaderInv, Known
<1>4. q \in Queries /\ value[p] = None /\ since[p] \in Values(q) /\ Below(since[p], index, q)
  BY <1>3 DEF Placed, Dated
<1> HIDE DEF q
<1>5. ReaderInv(p)'
  <2>1. Placed("lookup", "signed", q, key'[p], value[p], since[p])
    BY <1>4 DEF Placed
  <2>2. Dated("lookup", "signed", q, since[p], index)
    BY <1>4 DEF Dated
  <2>3. Sealed("lookup", "signed", q, key'[p], since[p], index)
    BY <1>1, <1>4, Views DEF Sealed, Below
  <2>4. Valued("lookup", "signed", q, key'[p], value[p], since[p], index)
    BY <1>4 DEF Valued
  <2> QED BY <1>1, <2>1, <2>2, <2>3, <2>4 DEF ReaderInv, Known
<1>6. Threads'
  BY DEF Sign, Goto, ReadersInv, Threads
<1> QED BY <1>1, <1>2, <1>5, <1>6, OneMoves DEF ReadersInv

\* Between the look-up of its signature and its load nothing changes for a
\* thread but its place, nor when its load raises.
LEMMA MoveKeeps ==
  ASSUME StoreInv, ReadersInv, NEW p \in Readers,
         Join(p) \/ Lead(p) \/ LoadRaises(p)
  PROVE  ReadersInv'
<1>1. /\ pc' = [pc EXCEPT ![p] = pc'[p]] /\ UNCHANGED <<how, query, key, value, since>>
      /\ UNCHANGED <<index, entries>>
      /\ \/ pc[p] = "lookup" /\ pc'[p] \in {"wait", "load"}
         \/ pc[p] = "load" /\ pc'[p] = "end"
  BY DEF Join, Lead, LoadRaises, Goto, ReadersInv, Threads, storeVars, cacheVars
<1>2. Known(pc[p], how[p], query[p], key[p], value[p], since[p], index)
  BY DEF ReadersInv, ReaderInv
<1>3. Known(pc'[p], how[p], query[p], key[p], value[p], since[p], index)
  BY <1>1, <1>2 DEF Known, Placed, Dated, Sealed, Valued
<1>4. ReaderInv(p)'
  BY <1>1, <1>3 DEF ReaderInv
<1>5. Threads'
  BY <1>1 DEF ReadersInv, Threads
<1> QED BY <1>1, <1>4, <1>5, OneMoves DEF ReadersInv, Threads

\* A load returns the records as they are.
LEMMA LoadKeeps ==
  ASSUME StoreInv, ReadersInv, NEW p \in Readers, Load(p)
  PROVE  ReadersInv'
<1> DEFINE q == query[p]
<1>1. /\ pc[p] = "load" /\ pc'[p] = Loaded(p)
      /\ how'[p] = how[p] /\ query'[p] = q /\ key'[p] = key[p]
      /\ value'[p] = View(q) /\ since'[p] = since[p]
      /\ UNCHANGED <<index, entries>>
  BY DEF Load, Goto, ReadersInv, Threads, storeVars, cacheVars
<1>2. \A x \in Readers \ {p} :
        /\ pc'[x] = pc[x] /\ how'[x] = how[x] /\ query'[x] = query[x]
        /\ key'[x] = key[x] /\ value'[x] = value[x] /\ since'[x] = since[x]
  BY DEF Load, Goto, ReadersInv, Threads
<1>3. Known("load", how[p], q, key[p], value[p], since[p], index)
  BY <1>1 DEF ReadersInv, ReaderInv
<1>4. q \in Queries
  BY <1>3 DEF Known, Placed
<1>5. /\ how[p] = "signed" => pc'[p] = "check"
      /\ how[p] = "chart" => pc'[p] = "store"
      /\ how[p] = "plain" => pc'[p] = "end"
      /\ how[p] \in {"signed", "plain", "chart"}
  BY <1>1, <1>3 DEF Loaded, Known, Placed
<1> HIDE DEF q
<1>6. View(q) \in Values(q) /\ Below(View(q), index, q) /\ View(q) # None
      /\ \A r \in q : View(q)[r] = index[r]
  BY <1>4, Views
<1>7. ReaderInv(p)'
  <2>1. Placed(pc'[p], how[p], q, key[p], View(q), since[p])
    BY <1>3, <1>4, <1>5, <1>6 DEF Known, Placed
  <2>2. Dated(pc'[p], how[p], q, since[p], index)
    BY <1>3, <1>5 DEF Known, Dated
  <2>3. Sealed(pc'[p], how[p], q, key[p], since[p], index)
    BY <1>3, <1>5 DEF Known, Sealed
  <2>4. how[p] = "signed" => Below(key[p].content, View(q), q)
    BY <1>3, <1>6 DEF Known, Sealed, Below
  <2>5. how[p] = "plain" => Below(since[p], View(q), q)
    BY <1>3, <1>6 DEF Known, Dated, Below
  <2>6. Valued(pc'[p], how[p], q, key[p], View(q), since[p], index)
    BY <1>5, <1>6, <2>4, <2>5 DEF Valued
  <2> QED BY <1>1, <2>1, <2>2, <2>3, <2>6 DEF ReaderInv, Known
<1>8. Threads'
  BY DEF Load, Goto, ReadersInv, Threads
<1> QED BY <1>1, <1>2, <1>7, <1>8, OneMoves DEF ReadersInv

\* A value may be cached only when it is what the signature names.
LEMMA CheckKeeps ==
  ASSUME StoreInv, ReadersInv, NEW p \in Readers, Check(p)
  PROVE  ReadersInv'
<1> DEFINE q == query[p]
<1>1. /\ pc[p] = "check" /\ pc' = [pc EXCEPT ![p] = pc'[p]]
      /\ UNCHANGED <<how, query, key, value, since>> /\ UNCHANGED <<index, entries>>
      /\ \/ pc'[p] = "store" /\ Signature(q) = key[p]
         \/ pc'[p] = "end"
  BY DEF Check, Goto, ReadersInv, Threads, storeVars, cacheVars
<1>2. Known("check", how[p], q, key[p], value[p], since[p], index)
  BY <1>1 DEF ReadersInv, ReaderInv
<1>3. q \in Queries /\ how[p] = "signed" /\ value[p] # None
  BY <1>2 DEF Known, Placed
<1> HIDE DEF q
<1>4. /\ key[p].content \in Values(q) /\ value[p] \in Values(q)
      /\ Below(key[p].content, value[p], q) /\ Below(value[p], index, q)
  BY <1>2, <1>3 DEF Known, Sealed, Valued
<1>5. ASSUME Signature(q) = key[p] PROVE value[p] = key[p].content
  <2>1. key[p].content = View(q)
    BY <1>5 DEF Signature
  <2>2. \A r \in q : key[p].content[r] = index[r] /\ index[r] \in 0..2
    BY <1>3, <2>1, Views
  <2>3. \A r \in q : value[p][r] = key[p].content[r]
    BY <1>4, <2>2 DEF Below, Values
  <2> QED BY <1>4, <2>3 DEF Values
<1>6. Placed(pc'[p], how[p], q, key[p], value[p], since[p])
  BY <1>1, <1>2, <1>3 DEF Known, Placed
<1>7. /\ Dated(pc'[p], how[p], q, since[p], index)
      /\ Sealed(pc'[p], how[p], q, key[p], since[p], index)
  BY <1>1, <1>2 DEF Known, Dated, Sealed
<1>8. Valued(pc'[p], how[p], q, key[p], value[p], since[p], index)
  BY <1>1, <1>2, <1>5 DEF Known, Valued
<1>9. ReaderInv(p)'
  BY <1>1, <1>6, <1>7, <1>8 DEF ReaderInv, Known, q
<1>10. Threads'
  BY <1>1 DEF ReadersInv, Threads
<1> QED BY <1>1, <1>9, <1>10, OneMoves DEF ReadersInv, Threads

\* What is stored in the signature cache is an entry.
LEMMA StoreKeepsEntries ==
  ASSUME StoreInv, ReadersInv, NEW p \in Readers, Store(p)
  PROVE  ReadersInv'
<1> DEFINE q == query[p]
           e == [key |-> key[p], value |-> value[p]]
<1>1. /\ pc[p] = "store" /\ how[p] = "signed" /\ pc' = [pc EXCEPT ![p] = "end"]
      /\ entries' = Bounded(Append(Without(key[p]), e))
      /\ UNCHANGED <<how, query, key, value, since>> /\ UNCHANGED index
  BY DEF Store, Goto, storeVars
<1>2. Known("store", "signed", q, key[p], value[p], since[p], index)
  BY <1>1 DEF ReadersInv, ReaderInv
<1>3. /\ q \in Queries /\ value[p] = key[p].content /\ value[p] \in Values(q)
      /\ key[p] = [query |-> q, content |-> value[p]]
  BY <1>2 DEF Known, Placed, Sealed, Valued
<1>4. e \in Pairs
  BY <1>3, ShowsPair
<1>5. Without(key[p]) \in Seq(Pairs)
  BY EntriesKeep DEF Without, Cached, ReadersInv
<1> HIDE DEF e
<1>6. entries' \in Seq(Pairs)
  <2> DEFINE es == Append(Without(key[p]), e)
  <2>1. es \in Seq(Pairs) /\ es # <<>>
    BY <1>4, <1>5, AppendProperties
  <2> HIDE DEF es
  <2>2. Tail(es) \in Seq(Pairs)
    BY <2>1, HeadTailProperties
  <2> QED BY <1>1, <2>1, <2>2 DEF Bounded, es
<1>7. Known("end", "signed", q, key[p], value[p], since[p], index)
  BY <1>2 DEF Known, Placed, Dated, Sealed, Valued
<1>8. ReaderInv(p)' /\ Threads'
  BY <1>1, <1>7 DEF ReaderInv, ReadersInv, Threads
<1> QED BY <1>1, <1>6, <1>8, OneMoves DEF ReadersInv, Threads

-----------------------------------------------------------------------------
(* Answers *)

\* The threads of A ask for q and get v, or an error.
Given(A, q, v) ==
  /\ A \subseteq Readers
  /\ \A a \in A : /\ pc[a] # "idle" /\ how[a] # "chart" /\ query[a] = q
                  /\ v # None => Below(since[a], v, q)
  /\ v # None => v \in Values(q) /\ Below(v, index, q)

\* Such an answer is as new as the request and not newer than the records.
LEMMA AnswerRefines ==
  ASSUME StoreInv, ReadersInv, UNCHANGED index,
         NEW A, NEW v, NEW q, Given(A, q, v), Answer(A, v)
  PROVE  Fresh!Next
<1>1. ASSUME NEW a \in A
      PROVE  /\ q \in Queries /\ since[a] \in Values(q) /\ since[a] # None
             /\ \A r \in q : index[r] \in 0..2
  <2>1. Known(pc[a], how[a], query[a], key[a], value[a], since[a], index)
    BY <1>1 DEF Given, ReadersInv, ReaderInv
  <2>2. q \in Queries /\ since[a] \in Values(q)
    BY <1>1, <2>1 DEF Given, Known, Placed, Dated
  <2> QED BY <2>2, Views
<1>2. A \subseteq {p \in Readers : since[p] # None}
  BY <1>1 DEF Given
<1>3. /\ since' = [p \in Readers |-> IF p \in A THEN None ELSE since[p]]
      /\ reply' = [p \in Readers |-> IF p \in A THEN v ELSE None]
  BY DEF Answer, Given
<1>4. ASSUME NEW a \in A, v # None
      PROVE  /\ DOMAIN v = DOMAIN since[a] /\ Fresh!Newer(v, since[a])
             /\ Fresh!Newer([r \in DOMAIN v |-> index[r]], v)
  <2>1. /\ DOMAIN v = q /\ DOMAIN since[a] = q
        /\ \A r \in q : v[r] \in 0..2 /\ since[a][r] \in 0..2
    BY <1>1, <1>4 DEF Given, Values
  <2>2. \A r \in q : since[a][r] <= v[r] /\ v[r] <= index[r]
    BY <1>4 DEF Given, Below
  <2> QED BY <1>1, <2>1, <2>2 DEF Fresh!Newer
<1>5. /\ \A p \in Readers \ A : reply'[p] = None
      /\ \A p \in A : reply'[p] = v
      /\ DOMAIN reply' = Readers
  BY <1>2, <1>3
<1>6. Fresh!End(A)
  BY <1>3, <1>4, <1>5 DEF Fresh!End
<1> QED BY <1>2, <1>6 DEF Fresh!Next

\* The answer to a chart, whose age is not promised, is none for FreshRead.
LEMMA ChartRefines ==
  ASSUME ReadersInv, UNCHANGED index, NEW p \in Readers, how[p] = "chart",
         NEW v, Answer({p}, v)
  PROVE  Fresh!Next
<1>1. since[p] = None
  BY DEF ReadersInv, ReaderInv, Known, Placed
<1>2. since' = [x \in Readers |-> IF x \in {} THEN None ELSE since[x]]
  BY <1>1 DEF Answer, ReadersInv, Threads
<1>3. reply' = [x \in Readers |-> None]
  BY DEF Answer
<1>4. Fresh!End({})
  BY <1>2, <1>3 DEF Fresh!End
<1> QED BY <1>4 DEF Fresh!Next

\* A cached value is answered.
LEMMA HitRefines ==
  ASSUME StoreInv, ReadersInv, NEW p \in Readers, Hit(p)
  PROVE  ReadersInv' /\ Fresh!Next
<1>1. PICK n \in Cached(key[p]) :
        /\ Answer({p}, entries[n].value)
        /\ entries' = Append(RemoveAt(entries, n), entries[n])
  BY DEF Hit
<1>2. pc[p] = "lookup" /\ UNCHANGED index
  BY DEF Hit, storeVars
<1>3. n \in DOMAIN entries /\ entries[n] \in Pairs /\ entries[n].key = key[p]
  BY ElementOfSeq DEF Cached, ReadersInv
<1>4. entries' \in Seq(Pairs)
  <2>1. RemoveAt(entries, n) \in Seq(Pairs)
    BY <1>3, EntriesKeep DEF ReadersInv
  <2> QED BY <1>1, <1>3, <2>1, AppendProperties
<1>5. Known("lookup", how[p], query[p], key[p], value[p], since[p], index)
  BY <1>2 DEF ReadersInv, ReaderInv
<1>6. how[p] = "signed"
  BY <1>5 DEF Known, Placed
<1>7. /\ key[p] = [query |-> query[p], content |-> key[p].content]
      /\ Below(since[p], key[p].content, query[p]) /\ Below(key[p].content, index, query[p])
  BY <1>5, <1>6 DEF Known, Sealed
<1>8. entries[n].value = key[p].content /\ key[p].content \in Values(query[p])
  BY <1>3, <1>7, PairShows
<1>9. Given({p}, query[p], entries[n].value)
  BY <1>2, <1>6, <1>7, <1>8 DEF Given
<1>10. ReadersInv'
  BY <1>1, <1>2, <1>4, AnswerKeeps DEF ReadersInv
<1> QED BY <1>1, <1>2, <1>9, <1>10, AnswerRefines

\* A chart is found, or answered once it is loaded.
LEMMA ChartsRefine ==
  ASSUME StoreInv, ReadersInv, NEW p \in Readers, ChartLookup(p) \/ ChartStore(p)
  PROVE  ReadersInv' /\ [Fresh!Next]_Fresh!vars
<1>1. how[p] = "chart" /\ UNCHANGED <<index, entries>>
  BY DEF ChartLookup, ChartStore, storeVars, cacheVars
<1>2. ASSUME NEW v, Answer({p}, v) PROVE ReadersInv' /\ Fresh!Next
  BY <1>1, <1>2, AnswerKeeps, ChartRefines DEF ReadersInv
<1>3. ASSUME pc[p] = "begin", Goto(p, "load"),
             UNCHANGED <<how, query, key, value, since, reply>>
      PROVE  ReadersInv' /\ UNCHANGED Fresh!vars
  <2>1. pc' = [pc EXCEPT ![p] = "load"]
    BY <1>3 DEF Goto
  <2>2. Known("begin", "chart", query[p], key[p], value[p], since[p], index)
    BY <1>1, <1>3 DEF ReadersInv, ReaderInv
  <2>3. Known("load", "chart", query[p], key[p], value[p], since[p], index)
    BY <2>2 DEF Known, Placed, Dated, Sealed, Valued
  <2>4. ReaderInv(p)' /\ Threads'
    BY <1>1, <1>3, <2>1, <2>3 DEF ReaderInv, ReadersInv, Threads
  <2> QED BY <1>1, <1>3, <2>1, <2>4, OneMoves DEF ReadersInv, Threads, Fresh!vars
<1>4. CASE ChartStore(p)
  BY <1>2, <1>4 DEF ChartStore
<1>5. CASE ChartLookup(p)
  BY <1>2, <1>3, <1>5 DEF ChartLookup
<1> QED BY <1>4, <1>5

\* A load is over: its value goes to everyone who waits for it.
LEMMA EndRefines ==
  ASSUME StoreInv, ReadersInv, NEW p \in Readers, End(p) \/ EndAlone(p)
  PROVE  ReadersInv' /\ [Fresh!Next]_Fresh!vars
<1>1. pc[p] = "end" /\ UNCHANGED <<index, entries>>
  BY DEF End, EndAlone, storeVars, cacheVars
<1>2. Known("end", how[p], query[p], key[p], value[p], since[p], index)
  BY <1>1 DEF ReadersInv, ReaderInv
<1>3. ASSUME NEW A, Answer(A, value[p]) PROVE ReadersInv'
  BY <1>1, <1>3, AnswerKeeps DEF ReadersInv
<1>4. CASE End(p)
  <2> DEFINE A == {p} \cup Waiting(key[p])
  <2>1. how[p] = "signed" /\ Answer(A, value[p])
    BY <1>4 DEF End
  <2>2. /\ key[p] = [query |-> query[p], content |-> key[p].content]
        /\ key[p].content \in Values(query[p])
        /\ Below(since[p], key[p].content, query[p])
    BY <1>2, <2>1 DEF Known, Sealed
  <2>3. value[p] # None =>
          /\ value[p] \in Values(query[p]) /\ Below(value[p], index, query[p])
          /\ Below(key[p].content, value[p], query[p])
    BY <1>2, <2>1 DEF Known, Valued
  <2>4. ASSUME NEW a \in A
        PROVE  /\ a \in Readers /\ pc[a] # "idle" /\ how[a] = "signed" /\ query[a] = query[p]
               /\ since[a] \in Values(query[p])
               /\ Below(since[a], key[p].content, query[p])
    <3>1. a \in Readers /\ pc[a] \in {"end", "wait"} /\ key[a] = key[p]
      BY <1>1, <2>4 DEF Waiting
    <3>2. Known(pc[a], how[a], query[a], key[a], value[a], since[a], index)
      BY <3>1 DEF ReadersInv, ReaderInv
    <3>3. how[a] = "signed"
      BY <2>1, <2>4, <3>1, <3>2 DEF Waiting, Known, Placed
    <3>4. /\ key[a] = [query |-> query[a], content |-> key[a].content]
          /\ Below(since[a], key[a].content, query[a])
          /\ since[a] \in Values(query[a])
      BY <3>1, <3>2, <3>3 DEF Known, Sealed, Dated
    <3>5. query[a] = key[a].query /\ query[p] = key[p].query
      BY <2>2, <3>4
    <3> QED BY <3>1, <3>3, <3>4, <3>5
  <2>5. ASSUME NEW a \in A, value[p] # None PROVE Below(since[a], value[p], query[p])
    <3>1. \A r \in query[p] : /\ since[a][r] \in 0..2 /\ key[p].content[r] \in 0..2
                              /\ value[p][r] \in 0..2
      BY <2>2, <2>3, <2>4, <2>5 DEF Values
    <3> QED BY <2>3, <2>4, <2>5, <3>1 DEF Below
  <2>6. Given(A, query[p], value[p])
    BY <2>3, <2>4, <2>5 DEF Given
  <2> HIDE DEF A
  <2> QED BY <1>1, <1>3, <2>1, <2>6, AnswerRefines
<1>5. CASE EndAlone(p)
  <2>1. how[p] # "signed" /\ Answer({p}, value[p])
    BY <1>5 DEF EndAlone
  <2>2. CASE how[p] = "chart"
    BY <1>1, <1>3, <2>1, <2>2, ChartRefines
  <2>3. CASE how[p] = "plain"
    <3>1. Given({p}, query[p], value[p])
      BY <1>1, <1>2, <2>3 DEF Known, Valued, Given
    <3> QED BY <1>1, <1>3, <2>1, <3>1, AnswerRefines
  <2> QED BY <1>2, <2>1, <2>2, <2>3 DEF Known, Placed
<1> QED BY <1>4, <1>5

-----------------------------------------------------------------------------
(* The system *)

\* The steps of one thread keep the invariant, and answer freshly.
LEMMA ReaderSteps ==
  ASSUME IInv, NEW p \in Readers, ReaderStep(p)
  PROVE  IInv' /\ [Fresh!Next]_Fresh!vars
<1>1. StoreInv /\ ReadersInv
  BY DEF IInv, ReadersInv
<1>2. StoreInv'
  <2>1. UNCHANGED <<index, blobs, rows, list, chunk>>
    BY DEF ReaderStep, Sign, Hit, Join, Lead, ChartLookup, Load, LoadRaises, Check, Store,
           ChartStore, End, EndAlone, storeVars, job
  <2> QED BY <1>1, <2>1, StoreKeeps DEF StoreInv
<1>3. CASE Sign(p) \/ Join(p) \/ Lead(p) \/ LoadRaises(p) \/ Load(p) \/ Check(p) \/ Store(p)
  <2>1. ReadersInv'
    BY <1>1, <1>3, SignKeeps, MoveKeeps, LoadKeeps, CheckKeeps, StoreKeepsEntries
  <2>2. UNCHANGED Fresh!vars
    BY <1>3 DEF Sign, Join, Lead, LoadRaises, Load, Check, Store, storeVars, Fresh!vars
  <2> QED BY <1>2, <2>1, <2>2 DEF IInv, ReadersInv
<1>4. CASE Hit(p)
  BY <1>1, <1>2, <1>4, HitRefines DEF IInv, ReadersInv
<1>5. CASE ChartLookup(p) \/ ChartStore(p)
  BY <1>1, <1>2, <1>5, ChartsRefine DEF IInv, ReadersInv
<1>6. CASE End(p) \/ EndAlone(p)
  BY <1>1, <1>2, <1>6, EndRefines DEF IInv, ReadersInv
<1> QED BY <1>3, <1>4, <1>5, <1>6 DEF ReaderStep

\* Records that grow under threads that stand still.
LEMMA StoreSteps ==
  ASSUME IInv, StoreInv', Grown, UNCHANGED <<callVars, entries>>
  PROVE  IInv' /\ [Fresh!Next]_Fresh!vars
<1>1. UNCHANGED <<pc, how, query, key, value, since, reply>>
  BY DEF callVars
<1>2. Threads' /\ \A p \in Readers : ReaderInv(p)'
  BY <1>1, GrowthKeeps DEF IInv, Threads
<1>3. Fresh!Grow
  BY <1>1 DEF Fresh!Grow, Fresh!Newer, StoreInv, Grown, Below, IInv
<1> QED BY <1>2, <1>3 DEF IInv, Fresh!Next

\* With the process every request is gone, unanswered.
LEMMA Ends ==
  ASSUME IInv, ProcessEnds
  PROVE  IInv' /\ [Fresh!Next]_Fresh!vars
<1>1. StoreInv' /\ UNCHANGED index
  BY EmptyItems, StoreKeeps DEF IInv, ProcessEnds, StoreDown, Drop
<1>2. Threads' /\ entries' \in Seq(Pairs)
  BY EmptySeq DEF ProcessEnds, Threads
<1>3. ASSUME NEW p \in Readers PROVE ReaderInv(p)'
  <2>1. pc'[p] = "idle" /\ how'[p] = "plain" /\ value'[p] = None /\ since'[p] = None
    BY DEF ProcessEnds
  <2> QED BY <2>1 DEF ReaderInv, Known, Placed, Dated, Sealed, Valued
<1>4. Fresh!Next
  <2> DEFINE A == {p \in Readers : since[p] # None}
  <2>1. /\ since' = [p \in Readers |-> IF p \in A THEN None ELSE since[p]]
        /\ reply' = [p \in Readers |-> None]
    BY DEF ProcessEnds
  <2>2. Fresh!End(A)
    BY <1>1, <2>1 DEF Fresh!End
  <2> QED BY <2>2 DEF Fresh!Next
<1> QED BY <1>1, <1>2, <1>3, <1>4 DEF IInv

\* The invariant holds at the start, which is a start of FreshRead.
LEMMA Starts == ASSUME Init PROVE IInv /\ Fresh!Init
<1>1. StoreInv
  BY EmptyItems DEF Init, InitStore, StoreInv, IndexReadable
<1>2. Threads /\ entries \in Seq(Pairs)
  BY EmptySeq DEF Init, InitReads, Threads
<1>3. ASSUME NEW p \in Readers PROVE ReaderInv(p)
  <2>1. pc[p] = "idle" /\ how[p] = "plain" /\ value[p] = None /\ since[p] = None
    BY DEF Init, InitReads
  <2> QED BY <2>1 DEF ReaderInv, Known, Placed, Dated, Sealed, Valued
<1> QED BY <1>1, <1>2, <1>3 DEF IInv, Init, InitStore, InitReads, Fresh!Init

\* Every step keeps the invariant, and is a step of FreshRead or none.
LEMMA Steps ==
  ASSUME IInv, [Next]_vars
  PROVE  IInv' /\ [Fresh!Next]_Fresh!vars
<1> USE DEF IInv
<1>1. ASSUME NEW p \in Readers, ReaderStep(p) PROVE IInv' /\ [Fresh!Next]_Fresh!vars
  BY <1>1, ReaderSteps
<1>2. ASSUME NEW r \in Requests, Request(r[1], r[2], r[3])
      PROVE  IInv' /\ [Fresh!Next]_Fresh!vars
  <2> DEFINE p == r[1]
             q == r[2]
             h == r[3]
  <2>1. p \in Readers /\ q \in Queries
    BY ReadPathAssumption
  <2>2. pc[p] = "idle" /\ UNCHANGED <<index, blobs, rows, list, chunk, reply>>
    BY <1>2 DEF Request, storeVars, job
  <2>3. since' = since \/ since' = [since EXCEPT ![p] = View(q)]
    BY <1>2 DEF Request
  <2> HIDE DEF p, q, h
  <2>4. since[p] = None
    BY <2>1, <2>2 DEF ReaderInv, Known, Placed
  <2>5. Fresh!Ask(p, q) \/ UNCHANGED Fresh!vars
    BY <2>2, <2>3, <2>4 DEF Fresh!Ask, Fresh!vars, View
  <2>6. [Fresh!Next]_Fresh!vars
    BY <2>1, <2>5 DEF Fresh!Next
  <2>7. StoreInv'
    BY <2>2, StoreKeeps DEF StoreInv
  <2>8. ReadersInv'
    BY <1>2, RequestKeeps DEF ReadersInv
  <2> QED BY <2>6, <2>7, <2>8 DEF ReadersInv
<1>3. CASE Writes /\ UNCHANGED <<callVars, cacheVars, overtaken>>
  BY <1>3, SaveKeeps, StoreSteps DEF Writes, cacheVars
<1>4. CASE Clear
  <2>1. StoreInv' /\ Grown
    BY <1>4, EmptyItems, StoreKeeps DEF Clear, Drop
  <2>2. Threads' /\ (\A p \in Readers : ReaderInv(p)') /\ UNCHANGED <<index, since, reply>>
    BY <1>4, <2>1, GrowthKeeps DEF Clear, callVars, Threads
  <2>3. entries' \in Seq(Pairs)
    BY <1>4, EmptySeq DEF Clear
  <2> QED BY <2>1, <2>2, <2>3 DEF Fresh!vars
<1>5. CASE Repairs
  BY <1>5, RepairKeeps, StoreSteps DEF Repairs, cacheVars
<1>6. CASE ProcessEnds
  BY <1>6, Ends
<1>7. CASE UNCHANGED vars
  <2>1. UNCHANGED <<storeVars, callVars, entries>>
    BY <1>7 DEF vars, cacheVars
  <2>2. StoreInv' /\ Grown
    BY <2>1, StoreKeeps DEF storeVars, StoreInv
  <2> QED BY <2>1, <2>2, StoreSteps
<1> QED BY <1>1, <1>2, <1>3, <1>4, <1>5, <1>6, <1>7 DEF Next

-----------------------------------------------------------------------------
(* The theorems *)

\* The invariant of the read path.
THEOREM Invariance == Spec => []IInv
BY Starts, Steps, PTL DEF Spec

\* No row of the index ever refers to a file that is not there, for any
\* batches, chunks, repairs, kills and failed writes.
THEOREM Readable == Spec => []IndexReadable
<1>1. IInv => IndexReadable
  BY DEF IInv, StoreInv
<1> QED BY <1>1, Invariance, PTL

\* Nothing is cached under a signature that was taken of something else, for
\* any number of threads, queries and entries.
THEOREM Bound == Spec => []CacheBound
<1>1. IInv => CacheBound
  <2> SUFFICES ASSUME IInv, NEW n \in DOMAIN entries
               PROVE  entries[n].key = [query |-> DOMAIN entries[n].value,
                                        content |-> entries[n].value]
    BY DEF CacheBound
  <2>1. entries[n] \in Pairs
    BY ElementOfSeq DEF IInv
  <2> QED BY <2>1 DEF Pairs, Pair
<1> QED BY <1>1, Invariance, PTL

\* Cached, shared or loaded, no answer is older than its request: the read
\* path implements FreshRead for every value of the constants.
THEOREM Freshness == Spec => ImplementsFreshRead
<1>1. Init => Fresh!Init
  BY Starts
<1>2. IInv /\ [Next]_vars => [Fresh!Next]_Fresh!vars
  BY Steps
<1> QED BY <1>1, <1>2, Invariance, PTL DEF Spec, ImplementsFreshRead, Fresh!Spec

-----------------------------------------------------------------------------
(* Types, and charts *)

Places == {"idle", "begin", "lookup", "wait", "load", "check", "store", "end"}
Writers == {"idle", "chunk", "items", "clear", "repair"}

\* A signature is there only during a request, and of what it selects.
KeyFits(c, q, k) ==
  /\ c = "idle" => k = None
  /\ k # None => IsKey(k) /\ k.query = q

\* The types that the first invariant does not have.
Serving ==
  /\ service \in {"up", "down"} /\ writer \in Writers
  /\ pc \in [Readers -> Places]
  /\ \A p \in Readers : KeyFits(pc[p], query[p], key[p])
  /\ \A p \in Readers : reply[p] # None => IsView(reply[p])
  /\ Len(entries) <= MaxEntries
  /\ \A k \in inflight : IsKey(k)

\* What a thread has loaded for a chart is current between refreshes, or it was
\* under way when the last one ended.
Pending(p) == pc[p] = "store" /\ how[p] = "chart" =>
                value[p] = View(query[p]) \/ query[p] \in overtaken

\* The charts; nothing is repaired while the service is up, and nothing is read
\* or cached while it is down.
Charting ==
  /\ charts \in [Queries -> {None} \cup UNION {Values(q) : q \in Queries}]
  /\ \A q \in Queries : charts[q] # None => charts[q] \in Values(q)
  /\ writer = "repair" => service = "down"
  /\ service = "down" =>
       (\A p \in Readers : pc[p] = "idle") /\ (\A q \in Queries : charts[q] = None)
  /\ writer = "idle" => ChartsCurrent /\ \A p \in Readers : Pending(p)

\* Taking an entry out, or making room for one, keeps the cache within bounds.
LEMMA EntriesBound ==
  /\ \A es \in Seq(Pairs) : \A n \in DOMAIN es : Len(RemoveAt(es, n)) = Len(es) - 1
  /\ \A es \in Seq(Pairs), e \in Pairs :
       Len(es) <= MaxEntries => Len(Bounded(Append(es, e))) <= MaxEntries
<1>1. ASSUME NEW es \in Seq(Pairs), NEW n \in DOMAIN es
      PROVE  Len(RemoveAt(es, n)) = Len(es) - 1
  <2>1. Len(es) \in Nat /\ n \in 1..Len(es)
    BY LenProperties
  <2> DEFINE a == SubSeq(es, 1, n - 1)
             b == SubSeq(es, n + 1, Len(es))
  <2>2. a \in Seq(Pairs) /\ Len(a) = n - 1
    BY <2>1, SubSeqProperties
  <2>3. b \in Seq(Pairs) /\ Len(b) = Len(es) - n
    <3>1. n + 1 \in 1..Len(es) + 1 /\ Len(es) \in n + 1 - 1..Len(es)
      BY <2>1
    <3> QED
      BY <2>1, <3>1, SubSeqProperties
  <2>4. RemoveAt(es, n) = a \o b
    BY DEF RemoveAt
  <2> HIDE DEF a, b
  <2>5. Len(a \o b) = Len(a) + Len(b)
    BY <2>2, <2>3, ConcatProperties
  <2> QED
    BY <2>1, <2>2, <2>3, <2>4, <2>5
<1>2. ASSUME NEW es \in Seq(Pairs), NEW e \in Pairs, Len(es) <= MaxEntries
      PROVE  Len(Bounded(Append(es, e))) <= MaxEntries
  <2> DEFINE fs == Append(es, e)
  <2>1. fs \in Seq(Pairs) /\ Len(fs) = Len(es) + 1 /\ fs # <<>> /\ Len(es) \in Nat
    BY AppendProperties, LenProperties
  <2> HIDE DEF fs
  <2>2. Len(Tail(fs)) = Len(fs) - 1
    BY <2>1, HeadTailProperties
  <2> QED
    BY <1>2, <2>1, <2>2, ReadPathAssumption DEF Bounded, fs
<1> QED
  BY <1>1, <1>2

\* Who has an answer is idle again and has no signature; an answer that is
\* given to a request that is not a chart is a view.
LEMMA AnswerTypes ==
  ASSUME Threads, Serving, NEW A, NEW v, Answer(A, v),
         ASSUME NEW a \in A \cap Readers, how[a] # "chart", v # None PROVE IsView(v)
  PROVE  /\ pc' \in [Readers -> Places]
         /\ \A p \in Readers : KeyFits(pc[p], query[p], key[p])'
         /\ \A p \in Readers : reply'[p] # None => IsView(reply'[p])
         /\ \A p \in Readers : pc'[p] \in {"idle", pc[p]}
         /\ \A p \in Readers : pc'[p] # "idle" =>
              how'[p] = how[p] /\ query'[p] = query[p] /\ value'[p] = value[p]
<1>1. ASSUME NEW p \in Readers
      PROVE  /\ pc'[p] \in {"idle", pc[p]}
             /\ KeyFits(pc'[p], query'[p], key'[p])
             /\ reply'[p] # None => IsView(reply'[p])
             /\ pc'[p] # "idle" =>
                  how'[p] = how[p] /\ query'[p] = query[p] /\ value'[p] = value[p]
  <2>1. CASE p \in A
    BY <2>1 DEF Answer, KeyFits
  <2>2. CASE p \notin A
    BY <2>2 DEF Answer, Serving
  <2> QED
    BY <2>1, <2>2
<1>2. pc' \in [Readers -> Places]
  BY <1>1 DEF Answer, Serving, Places
<1> QED
  BY <1>1, <1>2 DEF KeyFits

\* The value of a thread in a request is a view.
LEMMA ValueIsView ==
  ASSUME IInv, NEW p \in Readers, value[p] # None, pc[p] # "idle"
  PROVE  value[p] \in Values(query[p]) /\ query[p] \in Queries /\ IsView(value[p])
<1>1. Known(pc[p], how[p], query[p], key[p], value[p], since[p], index)
  BY DEF IInv, ReaderInv
<1> QED
  BY <1>1 DEF Known, Placed, Valued, IsView, Values

\* The signature of a thread that looks it up is one.
LEMMA KeyIsKey ==
  ASSUME IInv, NEW p \in Readers, pc[p] \in {"lookup", "check"}
  PROVE  IsKey(key[p])
<1>1. Known(pc[p], how[p], query[p], key[p], value[p], since[p], index)
  BY DEF IInv, ReaderInv
<1>2. query[p] \in Queries /\ key[p] = [query |-> query[p], content |-> key[p].content]
      /\ key[p].content \in Values(query[p])
  BY <1>1 DEF Known, Placed, Sealed
<1> QED
  BY <1>2 DEF IsKey, Values

\* The entries of the cache are typed.
LEMMA PairTypes == ASSUME NEW e \in Pairs PROVE IsKey(e.key) /\ IsView(e.value)
<1>0. PICK q \in Queries : \E v \in Values(q) : e = Pair(v)
  BY DEF Pairs
<1>1. PICK v \in Values(q) : e = Pair(v)
  BY <1>0
<1>2. e.key = [query |-> q, content |-> v] /\ e.value = v
  BY <1>1 DEF Pair, Values
<1>3. e.key.query = q /\ e.key.content = v
  BY <1>2
<1> QED
  BY <1>2, <1>3 DEF IsKey, IsView, Values

\* A step of a thread that leaves the answers alone keeps the types.
LEMMA QuietServes ==
  ASSUME IInv, Serving, NEW p \in Readers,
         Sign(p) \/ Join(p) \/ Lead(p) \/ Load(p) \/ LoadRaises(p) \/ Check(p) \/ Store(p)
  PROVE  Serving'
<1>1. UNCHANGED <<service, writer, query, reply>>
  BY DEF Sign, Join, Lead, Load, LoadRaises, Check, Store, storeVars
<1>2. pc' \in [Readers -> Places] /\ pc[p] # "idle" /\ pc'[p] # "idle"
      /\ \A x \in Readers \ {p} : pc'[x] = pc[x]
  <2>1. \E c \in Places \ {"idle"} : pc' = [pc EXCEPT ![p] = c] /\ pc[p] # "idle"
    <3>1. how[p] \in {"signed", "plain", "chart"}
      BY DEF IInv, ReaderInv, Known, Placed
    <3> QED
      BY <3>1 DEF Sign, Join, Lead, Load, LoadRaises, Check, Store, Goto, Loaded, Places
  <2> QED
    BY <2>1 DEF Serving
<1>3. \A x \in Readers : KeyFits(pc[x], query[x], key[x])'
  <2>1. CASE Sign(p)
    <3>1. query[p] \in Queries
      BY <2>1 DEF Sign, IInv, ReaderInv, Known, Placed
    <3>2. IsKey([query |-> query[p], content |-> View(query[p])])
      <4> DEFINE k == [query |-> query[p], content |-> View(query[p])]
      <4>1. k.query = query[p] /\ k.content \in Values(query[p])
        BY <3>1, Views DEF IInv
      <4> HIDE DEF k
      <4> QED
        BY <3>1, <4>1 DEF IsKey, Values, k
    <3>3. key' = [key EXCEPT ![p] = [query |-> query[p], content |-> View(query[p])]]
      BY <2>1 DEF Sign, Signature
    <3>4. key'[p] = [query |-> query[p], content |-> View(query[p])]
          /\ \A x \in Readers \ {p} : key'[x] = key[x]
      BY <3>3 DEF IInv, Threads
    <3> QED
      BY <1>1, <1>2, <3>2, <3>4 DEF KeyFits, Serving
  <2>2. CASE ~Sign(p)
    <3>1. UNCHANGED key
      BY <2>2 DEF Join, Lead, Load, LoadRaises, Check, Store
    <3> QED
      BY <1>1, <1>2, <3>1 DEF KeyFits, Serving
  <2> QED
    BY <2>1, <2>2
<1>4. \A k \in inflight' : IsKey(k)
  <2>1. CASE Lead(p)
    BY <2>1, KeyIsKey DEF Lead, Serving
  <2>2. CASE ~Lead(p)
    BY <2>2 DEF Sign, Join, Load, LoadRaises, Check, Store, cacheVars, Serving
  <2> QED
    BY <2>1, <2>2
<1>5. Len(entries') <= MaxEntries
  <2>1. CASE Store(p)
    <3> DEFINE e == [key |-> key[p], value |-> value[p]]
    <3>1. /\ pc[p] = "store" /\ how[p] = "signed"
          /\ entries' = Bounded(Append(Without(key[p]), e))
      BY <2>1 DEF Store
    <3>2. e \in Pairs
      <4>1. Known("store", "signed", query[p], key[p], value[p], since[p], index)
        BY <3>1 DEF IInv, ReaderInv
      <4>2. /\ query[p] \in Queries /\ value[p] \in Values(query[p])
            /\ key[p] = [query |-> query[p], content |-> value[p]]
        BY <4>1 DEF Known, Placed, Sealed, Valued
      <4> QED
        BY <4>2, ShowsPair
    <3> HIDE DEF e
    <3>3. Without(key[p]) \in Seq(Pairs) /\ Len(Without(key[p])) <= MaxEntries
      <4>1. entries \in Seq(Pairs) /\ Len(entries) <= MaxEntries /\ Len(entries) \in Nat
        BY LenProperties DEF IInv, Serving
      <4>2. ASSUME NEW n \in DOMAIN entries
            PROVE  RemoveAt(entries, n) \in Seq(Pairs) /\ Len(RemoveAt(entries, n)) <= MaxEntries
        BY <4>1, EntriesKeep, EntriesBound, ReadPathAssumption
      <4> QED
        BY <4>1, <4>2 DEF Without, Cached
    <3> QED
      BY <3>1, <3>2, <3>3, EntriesBound
  <2>2. CASE ~Store(p)
    BY <2>2 DEF Sign, Join, Lead, Load, LoadRaises, Check, cacheVars, Serving
  <2> QED
    BY <2>1, <2>2
<1> QED
  BY <1>1, <1>2, <1>3, <1>4, <1>5 DEF Serving

\* So does a step that answers.
LEMMA AnswerServes ==
  ASSUME IInv, Serving, Charting, NEW p \in Readers,
         Hit(p) \/ ChartLookup(p) \/ ChartStore(p) \/ End(p) \/ EndAlone(p)
  PROVE  Serving'
<1>1. UNCHANGED <<service, writer>>
  BY DEF Hit, ChartLookup, ChartStore, End, EndAlone, storeVars
<1>2. Len(entries') <= MaxEntries /\ inflight' \subseteq inflight
  <2>1. CASE Hit(p)
    <3>1. PICK n \in Cached(key[p]) :
            entries' = Append(RemoveAt(entries, n), entries[n])
      BY <2>1 DEF Hit
    <3>2. n \in DOMAIN entries /\ entries[n] \in Pairs /\ Len(entries) \in Nat
          /\ Len(entries) <= MaxEntries
      BY ElementOfSeq, LenProperties DEF Cached, IInv, Serving
    <3>3. RemoveAt(entries, n) \in Seq(Pairs) /\ Len(RemoveAt(entries, n)) = Len(entries) - 1
      BY <3>2, EntriesKeep, EntriesBound DEF IInv
    <3>4. Len(entries') = Len(entries)
      BY <3>1, <3>2, <3>3, AppendProperties
    <3> QED
      BY <2>1, <3>2, <3>4 DEF Hit
  <2>2. CASE ~Hit(p)
    BY <2>2 DEF ChartLookup, ChartStore, End, EndAlone, cacheVars, Serving
  <2> QED
    BY <2>1, <2>2
<1>3. /\ pc' \in [Readers -> Places]
      /\ \A x \in Readers : KeyFits(pc[x], query[x], key[x])'
      /\ \A x \in Readers : reply'[x] # None => IsView(reply'[x])
  <2>1. CASE Hit(p)
    <3>1. PICK n \in Cached(key[p]) : Answer({p}, entries[n].value)
      BY <2>1 DEF Hit
    <3>2. entries[n] \in Pairs
      BY ElementOfSeq DEF Cached, IInv
    <3>3. IsView(entries[n].value)
      BY <3>2, PairTypes
    <3> QED
      BY <3>1, <3>3, AnswerTypes DEF IInv
  <2>2. CASE ChartLookup(p) /\ charts[query[p]] # None
    <3>1. Threads /\ how[p] = "chart" /\ Answer({p}, charts[query[p]])
      BY <2>2 DEF ChartLookup, IInv
    <3>2. \A a \in {p} \cap Readers : how[a] = "chart"
      BY <3>1
    <3> QED
      BY <3>1, <3>2, AnswerTypes
  <2>3. CASE ChartLookup(p) /\ charts[query[p]] = None
    <3>1. pc[p] = "begin" /\ pc' = [pc EXCEPT ![p] = "load"] /\ UNCHANGED <<query, key, reply>>
      BY <2>3 DEF ChartLookup, Goto
    <3> QED
      BY <3>1 DEF Serving, KeyFits, Places
  <2>4. CASE ChartStore(p)
    <3>1. Threads /\ how[p] = "chart" /\ Answer({p}, value[p])
      BY <2>4 DEF ChartStore, IInv
    <3>2. \A a \in {p} \cap Readers : how[a] = "chart"
      BY <3>1
    <3> QED
      BY <3>1, <3>2, AnswerTypes
  <2>5. CASE End(p) \/ EndAlone(p)
    <3>1. pc[p] = "end" /\ (value[p] # None => IsView(value[p]))
      BY <2>5, ValueIsView DEF End, EndAlone
    <3>2. PICK A : Answer(A, value[p])
      BY <2>5 DEF End, EndAlone
    <3> QED
      BY <3>1, <3>2, AnswerTypes DEF IInv
  <2> QED
    BY <2>1, <2>2, <2>3, <2>4, <2>5
<1> QED
  BY <1>1, <1>2, <1>3 DEF Serving

\* A step of a thread keeps what is known of the charts.
LEMMA ReaderCharts ==
  ASSUME IInv, Serving, Charting, NEW p \in Readers, ReaderStep(p)
  PROVE  Charting'
<1>1. UNCHANGED <<index, writer, service, overtaken>> /\ pc[p] # "idle"
  BY DEF ReaderStep, Sign, Hit, Join, Lead, ChartLookup, Load, LoadRaises, Check, Store,
         ChartStore, End, EndAlone, storeVars
<1>2. service = "up"
  BY <1>1 DEF Charting, Serving
<1>3. /\ charts' \in [Queries -> {None} \cup UNION {Values(q) : q \in Queries}]
      /\ \A q \in Queries : charts'[q] # None => charts'[q] \in Values(q)
      /\ writer = "idle" => \A q \in Queries : charts'[q] # None =>
                             charts'[q] = View(q) \/ q \in overtaken
  <2>1. CASE ChartStore(p)
    <3> DEFINE r == query[p]
    <3>1. charts' = [charts EXCEPT ![r] = value[p]] /\ pc[p] = "store" /\ how[p] = "chart"
      BY <2>1 DEF ChartStore
    <3>2. Known("store", "chart", r, key[p], value[p], since[p], index)
      BY <3>1 DEF IInv, ReaderInv
    <3>3. r \in Queries /\ value[p] \in Values(r)
      BY <3>2 DEF Known, Placed, Valued
    <3>4. writer = "idle" => value[p] = View(r) \/ r \in overtaken
      BY <3>1 DEF Charting, Pending
    <3> HIDE DEF r
    <3> QED
      BY <3>1, <3>3, <3>4 DEF Charting, ChartsCurrent
  <2>2. CASE ~ChartStore(p)
    <3>1. UNCHANGED charts
      BY <2>2 DEF ReaderStep, Sign, Hit, Join, Lead, ChartLookup, Load, LoadRaises, Check,
                  Store, End, EndAlone, cacheVars
    <3> QED
      BY <3>1 DEF Charting, ChartsCurrent
  <2> QED
    BY <2>1, <2>2
<1>4. \A x \in Readers : Pending(x) => Pending(x)'
  <2>1. CASE Sign(p) \/ Join(p) \/ Lead(p) \/ LoadRaises(p) \/ Check(p) \/ Store(p)
    <3>1. /\ UNCHANGED <<how, query, value>>
          /\ \A x \in Readers \ {p} : pc'[x] = pc[x]
          /\ pc'[p] = "store" => how[p] = "signed"
      <4>1. pc[p] = "check" => how[p] = "signed"
        BY DEF IInv, ReaderInv, Known, Placed
      <4> QED
        BY <2>1, <4>1 DEF Sign, Join, Lead, LoadRaises, Check, Store, Goto, Serving
    <3> QED
      BY <1>1, <3>1 DEF Pending, View
  <2>2. CASE Load(p)
    <3>1. /\ UNCHANGED <<how, query>> /\ value'[p] = View(query[p])
          /\ \A x \in Readers \ {p} : pc'[x] = pc[x] /\ value'[x] = value[x]
      BY <2>2 DEF Load, Goto, Serving, IInv, Threads
    <3> QED
      BY <1>1, <3>1 DEF Pending, View
  <2>3. ASSUME NEW A, NEW v, Answer(A, v)
        PROVE  \A x \in Readers : Pending(x) => Pending(x)'
    <3>1. \A x \in Readers : pc'[x] = "store" => pc[x] = "store" /\ how'[x] = how[x]
                                           /\ query'[x] = query[x] /\ value'[x] = value[x]
      BY <2>3 DEF Answer
    <3> QED
      BY <1>1, <3>1 DEF Pending, View
  <2>4. CASE Hit(p) \/ ChartStore(p) \/ End(p) \/ EndAlone(p)
    BY <2>3, <2>4 DEF Hit, ChartStore, End, EndAlone
  <2>5. CASE ChartLookup(p)
    <3>1. CASE Goto(p, "load") /\ UNCHANGED <<how, query, key, value, since, reply>>
      BY <1>1, <3>1 DEF Goto, Serving, Pending, View
    <3> QED
      BY <2>3, <2>5, <3>1 DEF ChartLookup
  <2> QED
    BY <2>1, <2>2, <2>4, <2>5 DEF ReaderStep
<1> QED
  BY <1>1, <1>2, <1>3, <1>4 DEF Charting, ChartsCurrent, View

\* The steps of the store move on without the threads; while the service is up
\* the rows change only before the end of a refresh.
LEMMA StoreServes ==
  ASSUME IInv, Serving, Charting,
         \/ Writes
         \/ StoreUp \/ RepairStep,
         UNCHANGED <<callVars, cacheVars, overtaken>>
  PROVE  Serving' /\ Charting'
<1>1. /\ service' \in {"up", "down"} /\ writer' \in Writers
      /\ writer' = "repair" => service' = "down"
      /\ service' = "down" => service = "down"
      /\ writer' = "idle" => service = "down" \/ (writer = "idle" /\ UNCHANGED index)
  <2>1. CASE StoreStep
    <3>1. CASE TakeChunk
      BY <3>1 DEF TakeChunk, Drop, Serving, Writers, Charting
    <3> QED
      BY <2>1, <3>1 DEF StoreStep, Reuse, Conflict, WriteBlob, CommitChunk, SaveFails, Drop,
                  Serving, Writers, Charting
  <2>2. CASE \E b \in Batches : SaveBegins(b)
    BY <2>2 DEF SaveBegins, Serving, Writers, Charting
  <2>3. CASE StoreUp
    BY <2>3 DEF StoreUp, Serving, Writers, Charting
  <2>4. CASE RepairStep
    BY <2>4 DEF RepairStep, RepairFile, RepairRow, RepairFails, Drop, Serving, Writers, Charting
  <2> QED
    BY <2>1, <2>2, <2>3, <2>4 DEF Writes
<1>2. Serving'
  BY <1>1 DEF callVars, cacheVars, Serving
<1>3. Charting'
  <2>1. UNCHANGED <<pc, how, query, value, charts, overtaken>>
    BY DEF callVars, cacheVars
  <2>2. CASE service = "down"
    BY <1>1, <2>1, <2>2 DEF Charting, ChartsCurrent, Pending
  <2>3. CASE service # "down"
    BY <1>1, <2>1, <2>3 DEF Charting, ChartsCurrent, Pending, View
  <2> QED
    BY <2>2, <2>3
<1> QED
  BY <1>2, <1>3

\* A request is asked, of a service that is up.
LEMMA RequestServes ==
  ASSUME IInv, Serving, Charting, NEW r \in Requests, Request(r[1], r[2], r[3])
  PROVE  Serving' /\ Charting'
<1> DEFINE p == r[1]
           q == r[2]
           h == r[3]
<1>1. p \in Readers /\ q \in Queries
  BY ReadPathAssumption
<1>2. Request(p, q, h)
  OBVIOUS
<1> HIDE DEF p, q, h
<1>3. /\ service = "up" /\ pc[p] = "idle" /\ pc'[p] \in {"load", "begin"}
      /\ pc' \in [Readers -> Places]
      /\ \A x \in Readers \ {p} : pc'[x] = pc[x] /\ query'[x] = query[x] /\ how'[x] = how[x]
      /\ UNCHANGED <<service, writer, index, key, value, reply, entries, inflight, charts,
                     overtaken>>
  BY <1>1, <1>2 DEF Request, Goto, Serving, Places, IInv, Threads, storeVars, cacheVars
<1>4. Serving'
  BY <1>1, <1>3 DEF Serving, KeyFits
<1>5. Charting'
  BY <1>3 DEF Charting, ChartsCurrent, Pending, View
<1> QED
  BY <1>4, <1>5

\* The end of a refresh drops the charts and knows which are under way.
LEMMA ClearServes ==
  ASSUME IInv, Serving, Charting, Clear
  PROVE  Serving' /\ Charting'
<1>1. /\ UNCHANGED <<service, index, pc, how, query, key, value, reply, inflight>>
      /\ writer' = "idle" /\ charts' = [q \in Queries |-> None] /\ entries' = <<>>
      /\ overtaken' = {q \in Queries : \E p \in Readers :
                         how[p] = "chart" /\ query[p] = q /\ pc[p] = "store"}
  BY DEF Clear, Drop, callVars
<1>2. \A p \in Readers : Pending(p)'
  <2>1. \A p \in Readers : pc[p] = "store" => query[p] \in Queries
    BY DEF IInv, ReaderInv, Known, Placed
  <2> QED
    BY <1>1, <2>1 DEF Pending
<1>3. Len(entries') <= MaxEntries
  BY <1>1, ReadPathAssumption
<1> QED
  BY <1>1, <1>2, <1>3 DEF Serving, Writers, Charting, ChartsCurrent

\* With the process its threads, charts and entries are gone.
LEMMA EndServes ==
  ASSUME IInv, Serving, Charting, ProcessEnds
  PROVE  Serving' /\ Charting'
<1>1. Len(entries') <= MaxEntries
  BY ReadPathAssumption DEF ProcessEnds
<1> QED
  BY <1>1 DEF ProcessEnds, StoreDown, Drop, Serving, KeyFits, Places, Writers, Charting,
              ChartsCurrent, Pending

-----------------------------------------------------------------------------
(* The theorems of types and charts *)

\* The second invariant of the read path.
LEMMA ServingInvariance == Spec => [](Serving /\ Charting)
<1>1. Init => Serving /\ Charting
  <2> SUFFICES ASSUME Init PROVE Serving /\ Charting
    OBVIOUS
  <2>1. Len(entries) <= MaxEntries
    BY ReadPathAssumption DEF Init, InitReads
  <2> QED
    BY <2>1 DEF Init, InitStore, InitReads, Serving, KeyFits, Places, Writers, Charting,
                ChartsCurrent, Pending
<1>2. IInv /\ Serving /\ Charting /\ [Next]_vars => (Serving /\ Charting)'
  <2> SUFFICES ASSUME IInv, Serving, Charting, [Next]_vars PROVE Serving' /\ Charting'
    OBVIOUS
  <2>1. ASSUME NEW p \in Readers, ReaderStep(p) PROVE Serving' /\ Charting'
    BY <2>1, QuietServes, AnswerServes, ReaderCharts DEF ReaderStep
  <2>2. CASE \E r \in Requests : Request(r[1], r[2], r[3])
    BY <2>2, RequestServes
  <2>3. CASE Writes /\ UNCHANGED <<callVars, cacheVars, overtaken>>
    BY <2>3, StoreServes
  <2>4. CASE Clear
    BY <2>4, ClearServes
  <2>5. CASE Repairs
    BY <2>5, StoreServes DEF Repairs
  <2>6. CASE ProcessEnds
    BY <2>6, EndServes
  <2>7. CASE UNCHANGED vars
    <3>1. UNCHANGED <<service, writer, index, pc, how, query, key, value, reply, entries,
                     inflight, charts, overtaken>>
      BY <2>7 DEF vars, storeVars, callVars, cacheVars
    <3>2. Serving'
      BY <3>1 DEF Serving
    <3>3. Charting'
      BY <3>1 DEF Charting, ChartsCurrent, Pending, View
    <3> QED
      BY <3>2, <3>3
  <2> QED
    BY <2>1, <2>2, <2>3, <2>4, <2>5, <2>6, <2>7 DEF Next
<1> QED
  BY <1>1, <1>2, Invariance, PTL DEF Spec

\* The types: signatures, values and snapshots are of the query they are for,
\* and the signature cache never outgrows _max_entries.
THEOREM TypeCorrect == Spec => []TypeOK
<1>1. IInv /\ Serving /\ Charting => TypeOK
  <2> SUFFICES ASSUME IInv, Serving, Charting PROVE TypeOK
    OBVIOUS
  <2>1. /\ index \in [Records -> 0..2] /\ blobs \subseteq Items /\ rows \subseteq Items
        /\ list \in Seq(Items) /\ chunk \in Seq(Items)
    BY DEF IInv, StoreInv
  <2>2. how \in [Readers -> {"signed", "plain", "chart"}]
    BY DEF IInv, Threads, ReaderInv, Known, Placed
  <2>3. \A p \in Readers : value[p] # None => value[p] \in [query[p] -> 0..2]
    BY DEF IInv, ReaderInv, Known, Valued, Values
  <2>4. \A n \in DOMAIN entries : IsKey(entries[n].key) /\ IsView(entries[n].value)
    BY ElementOfSeq, PairTypes DEF IInv
  <2> QED
    BY <2>1, <2>2, <2>3, <2>4 DEF TypeOK, Serving, KeyFits, Writers, Places, Charting, Values
<1> QED
  BY <1>1, Invariance, ServingInvariance, PTL

\* Between refreshes every cached chart shows the records as they are, but for
\* those that were under way when a refresh dropped the caches, for any threads,
\* queries, batches, repairs, kills and failures.
THEOREM Charts == Spec => []ChartsCurrent
<1>1. Charting => ChartsCurrent
  BY DEF Charting, ChartsCurrent
<1> QED
  BY <1>1, ServingInvariance, PTL

=============================================================================
