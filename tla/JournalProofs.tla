---------------------------- MODULE JournalProofs ----------------------------
(***************************************************************************)
(* What holds of the journal whatever faults are allowed: its types, and   *)
(* that it fails closed.  The inductive invariant of the second follows    *)
(* the records the manifest names by its digests, not those the files      *)
(* hold: a window may leave a file missing or replaced, and then a read    *)
(* does not verify.                                                        *)
(***************************************************************************)
EXTENDS Journal, WellFoundedInduction, SequenceTheorems, TLAPS

-----------------------------------------------------------------------------
(* Latest versions *)

\* Among numbers up to Last there is a greatest.
LEMMA Greatest ==
  ASSUME NEW T \in SUBSET (0..Last), T # {}
  PROVE  \E v \in T : \A w \in T : w <= v
<1> DEFINE U == {u \in 0..Last : Last - u \in T}
<1>1. Last \in Nat
  BY JournalAssumption
<1>2. U \subseteq Nat
  OBVIOUS
<1>3. ASSUME NEW v \in T PROVE Last - v \in U
  <2>1. v \in Nat /\ v <= Last
    BY <1>1
  <2>2. Last - v \in 0..Last /\ Last - (Last - v) = v
    BY <1>1, <2>1
  <2> QED
    BY <2>2
<1>4. U # {}
  BY <1>3
<1>5. PICK x \in U : \A y \in U : ~ (<<y, x>> \in OpToRel(<, Nat))
  <2> HIDE DEF U
  <2> QED
    BY <1>2, <1>4, NatLessThanWellFounded, WFMin, Zenon
<1>6. x \in Nat /\ Last - x \in T
  BY <1>2
<1>7. ASSUME NEW y \in U PROVE ~(y < x)
  <2>1. y \in Nat
    BY <1>2
  <2>2. <<y, x>> \notin OpToRel(<, Nat)
    BY <1>5, Zenon
  <2> QED
    BY <1>6, <2>1, <2>2, Zenon DEF OpToRel
<1>8. ASSUME NEW w \in T PROVE w <= Last - x
  <2>1. ~(Last - w < x)
    BY <1>3, <1>7
  <2> QED
    BY <1>1, <1>6, <2>1
<1> QED
  BY <1>6, <1>8

\* v is the greatest version of k among these records, or 0 and there is none.
Tops(v, R, k) ==
  /\ v \in 0..Last
  /\ v = 0 \/ <<k, v>> \in R
  /\ \A w \in 1..Last : <<k, w>> \in R => w <= v

\* Latest is what its name says.
LEMMA LatestIs ==
  ASSUME NEW R, NEW k \in Items
  PROVE  Tops(Latest(R)[k], R, k)
<1> DEFINE T == {w \in 0..Last : w = 0 \/ <<k, w>> \in R}
           P(v) == (v = 0 \/ <<k, v>> \in R) /\ \A w \in 1..Last : <<k, w>> \in R => w <= v
<1>1. Last \in Nat
  BY JournalAssumption
<1>2. 0 \in T
  BY <1>1
<1>3. \E v \in T : \A w \in T : w <= v
  BY <1>2, Greatest
<1>4. \E v \in 0..Last : P(v)
  BY <1>1, <1>3
<1>5. Latest(R)[k] = CHOOSE v \in 0..Last : P(v)
  BY DEF Latest
<1> HIDE DEF P
<1>6. Latest(R)[k] \in 0..Last /\ P(Latest(R)[k])
  BY <1>4, <1>5
<1> QED
  BY <1>6 DEF P, Tops

\* There is only one such version.
LEMMA LatestUnique ==
  ASSUME NEW R, NEW k \in Items, NEW v, Tops(v, R, k)
  PROVE  Latest(R)[k] = v
<1> DEFINE u == Latest(R)[k]
<1>1. Last \in Nat
  BY JournalAssumption
<1>2. Tops(u, R, k)
  BY LatestIs
<1> HIDE DEF u
<1>3. u <= v /\ v <= u /\ u \in Nat /\ v \in Nat
  BY <1>1, <1>2 DEF Tops
<1> QED
  BY <1>3 DEF u

\* More records, no earlier versions.
LEMMA LatestGrows ==
  ASSUME NEW R, NEW S, NEW k \in Items,
         \A w \in 1..Last : <<k, w>> \in R => <<k, w>> \in S
  PROVE  Latest(R)[k] <= Latest(S)[k]
<1> DEFINE u == Latest(R)[k]
           v == Latest(S)[k]
<1>1. Last \in Nat
  BY JournalAssumption
<1>2. Tops(u, R, k) /\ Tops(v, S, k)
  BY LatestIs
<1> HIDE DEF u, v
<1>3. u <= v
  BY <1>1, <1>2 DEF Tops
<1> QED
  BY <1>3 DEF u, v

\* Latest is a version for each item.
LEMMA LatestType == ASSUME NEW R PROVE Latest(R) \in [Items -> 0..Last]
<1>1. ASSUME NEW k \in Items PROVE Latest(R)[k] \in 0..Last
  BY LatestIs DEF Tops
<1> DEFINE f(k) == CHOOSE v \in 0..Last :
                     /\ v = 0 \/ <<k, v>> \in R
                     /\ \A w \in 1..Last : <<k, w>> \in R => w <= v
<1>2. Latest(R) = [k \in Items |-> f(k)]
  BY DEF Latest
<1> HIDE DEF f
<1> QED
  BY <1>1, <1>2

\* The reducer keeps the latest version of every item.
LEMMA ReducedLatest ==
  ASSUME NEW R \in SUBSET Records, NEW X
  PROVE  /\ Reduced(R) \subseteq R
         /\ Latest(Reduced(R) \cup X) = Latest(R \cup X)
<1> DEFINE A == Reduced(R) \cup X
           B == R \cup X
<1>1. Last \in Nat
  BY JournalAssumption
<1>2. Reduced(R) \subseteq R
  BY DEF Reduced
<1>3. ASSUME NEW k \in Items PROVE Latest(A)[k] = Latest(B)[k]
  <2> DEFINE v == Latest(B)[k]
             t == Latest(R)[k]
  <2>1. Tops(v, B, k) /\ Tops(t, R, k)
    BY LatestIs
  <2>2. t # 0 => <<k, t>> \in Reduced(R)
    <3>1. t # 0 => <<k, t>> \in R
      BY <2>1 DEF Tops
    <3>2. <<k, t>>[1] = k /\ <<k, t>>[2] = t
      OBVIOUS
    <3> QED
      BY <3>1, <3>2 DEF Reduced
  <2> HIDE DEF v, t
  <2>3. Tops(v, A, k)
    <3>1. v = 0 \/ <<k, v>> \in A
      <4>1. CASE v = 0 \/ <<k, v>> \in X
        BY <4>1
      <4>2. CASE v # 0 /\ <<k, v>> \in R
        <5>1. v = t
          <6>1. v \in 1..Last /\ v <= t
            BY <1>1, <2>1, <4>2 DEF Tops
          <6>2. t \in 1..Last /\ <<k, t>> \in B
            BY <1>1, <2>1, <6>1 DEF Tops
          <6>3. t <= v
            BY <2>1, <6>2 DEF Tops
          <6> QED
            BY <1>1, <6>1, <6>2, <6>3
        <5> QED
          BY <2>2, <4>2, <5>1
      <4> QED
        BY <2>1, <4>1, <4>2 DEF Tops
    <3> QED
      BY <1>2, <2>1, <3>1 DEF Tops
  <2> QED
    BY <2>3, LatestUnique DEF v
<1>4. Latest(A) \in [Items -> 0..Last] /\ Latest(B) \in [Items -> 0..Last]
  BY LatestType
<1> HIDE DEF A, B
<1>5. Latest(A) = Latest(B)
  BY <1>3, <1>4
<1> QED
  BY <1>2, <1>5 DEF A, B

\* A record beyond the latest of its item becomes the latest, and only that.
LEMMA LatestAppended ==
  ASSUME NEW R, NEW k \in Items, NEW v \in 1..Last, v > Latest(R)[k]
  PROVE  Latest(R \cup {<<k, v>>}) = [Latest(R) EXCEPT ![k] = v]
<1> DEFINE A == R \cup {<<k, v>>}
<1>1. Last \in Nat
  BY JournalAssumption
<1>2. Latest(A)[k] = v
  <2>1. Tops(Latest(R)[k], R, k)
    BY LatestIs
  <2> DEFINE u == Latest(R)[k]
  <2>2. v > u
    OBVIOUS
  <2> HIDE DEF u
  <2>3. Tops(v, A, k)
    BY <1>1, <2>1, <2>2 DEF Tops, u
  <2> QED
    BY <2>3, LatestUnique
<1>3. ASSUME NEW i \in Items, i # k PROVE Latest(A)[i] = Latest(R)[i]
  <2>1. Tops(Latest(R)[i], R, i)
    BY LatestIs
  <2>2. Tops(Latest(R)[i], A, i)
    BY <1>3, <2>1 DEF Tops
  <2> QED
    BY <2>2, LatestUnique
<1>4. Latest(A) \in [Items -> 0..Last] /\ Latest(R) \in [Items -> 0..Last]
  BY LatestType
<1> HIDE DEF A
<1>5. Latest(A) = [Latest(R) EXCEPT ![k] = v]
  BY <1>2, <1>3, <1>4
<1> QED
  BY <1>5 DEF A

-----------------------------------------------------------------------------
(* Types *)

Closings == UNION {[S -> File] : S \in SUBSET Segments}
Manifests == [open : 0..MaxSegments, closed : Closings,
              snap : (SUBSET Records) \cup {None}, folded : BOOLEAN]

Filed == {"line", "close", "fold", "unlink", "save"}
Appending == {"legacy", "legacySave", "stub", "manifest"} \cup Filed

\* The types of the files, of the memory, and what a step knows of its segment
\* and its record: there is room for one more until the rotation has taken it.
Disk ==
  /\ manifest \in Manifests
  /\ \A s \in DOMAIN manifest.closed : s < manifest.open
  /\ snapshot \in (SUBSET Records) \cup {None}
  /\ manifest.snap # None => snapshot # None
  /\ seg \in [Segments -> File \cup {None}]
  /\ legacyFile \in (SUBSET Records) \cup {None}

Memory ==
  /\ rec \in Records \cup {None}
  /\ saved \in Seq(Records)
  /\ known \in [Items -> 0..Last]
  /\ loaded \in BOOLEAN

Bounds == crashes \in Nat /\ faults \in Nat
History == acked \in [Items -> 0..Last] /\ sealed \in [Items -> 0..Last]

Room ==
  /\ step \in Steps
  /\ step \in Appending => rec \in Records
  /\ step \in Filed \cup {"truncated"} => manifest.open \in Segments
  /\ step \in Appending \ {"fold", "unlink", "save"} => manifest.open < MaxSegments
  /\ step = "manifest" => manifest.open = 0
  /\ step = "legacy" => legacyFile # None
  /\ step = "stub" => legacyFile = None

Shape == Disk /\ Memory /\ Bounds /\ History /\ Room

\* The parts of a manifest.
LEMMA ManifestParts ==
  ASSUME NEW m \in Manifests
  PROVE  /\ m = [open |-> m.open, closed |-> m.closed, snap |-> m.snap, folded |-> m.folded]
         /\ m.open \in 0..MaxSegments /\ m.closed \in Closings
         /\ m.snap \in (SUBSET Records) \cup {None} /\ m.folded \in BOOLEAN
         /\ DOMAIN m.closed \subseteq Segments
         /\ \A s \in DOMAIN m.closed : m.closed[s] \in File
<1>1. /\ m = [open |-> m.open, closed |-> m.closed, snap |-> m.snap, folded |-> m.folded]
      /\ m.open \in 0..MaxSegments /\ m.closed \in Closings
      /\ m.snap \in (SUBSET Records) \cup {None} /\ m.folded \in BOOLEAN
  BY DEF Manifests
<1>2. PICK S \in SUBSET Segments : m.closed \in [S -> File]
  BY <1>1 DEF Closings
<1> QED
  BY <1>1, <1>2

\* What the steps that change the manifest make of it.
LEMMA ManifestChanges ==
  ASSUME NEW m \in Manifests, NEW o, NEW c, NEW n
  PROVE  /\ [m EXCEPT !.snap = n, !.folded = TRUE, !.open = o]
              = [open |-> o, closed |-> m.closed, snap |-> n, folded |-> TRUE]
         /\ [m EXCEPT !.folded = TRUE, !.open = o]
              = [open |-> o, closed |-> m.closed, snap |-> m.snap, folded |-> TRUE]
         /\ [m EXCEPT !.open = o]
              = [open |-> o, closed |-> m.closed, snap |-> m.snap, folded |-> m.folded]
         /\ [m EXCEPT !.open = o, !.closed = c]
              = [open |-> o, closed |-> c, snap |-> m.snap, folded |-> m.folded]
         /\ [m EXCEPT !.snap = n, !.closed = c]
              = [open |-> m.open, closed |-> c, snap |-> n, folded |-> m.folded]
<1>1. m = [open |-> m.open, closed |-> m.closed, snap |-> m.snap, folded |-> m.folded]
  BY ManifestParts
<1> DEFINE a == m.open
           b == m.closed
           d == m.snap
           e == m.folded
<1> HIDE DEF a, b, d, e
<1>2. m = [open |-> a, closed |-> b, snap |-> d, folded |-> e]
  BY <1>1, Zenon DEF a, b, d, e
<1>3. ASSUME NEW f
      PROVE  /\ [m EXCEPT !.snap = n, !.folded = f, !.open = o]
                  = [open |-> o, closed |-> b, snap |-> n, folded |-> f]
             /\ [m EXCEPT !.folded = f, !.open = o]
                  = [open |-> o, closed |-> b, snap |-> d, folded |-> f]
             /\ [m EXCEPT !.open = o]
                  = [open |-> o, closed |-> b, snap |-> d, folded |-> e]
             /\ [m EXCEPT !.open = o, !.closed = c]
                  = [open |-> o, closed |-> c, snap |-> d, folded |-> e]
             /\ [m EXCEPT !.snap = n, !.closed = c]
                  = [open |-> a, closed |-> c, snap |-> n, folded |-> e]
  <2> DEFINE u == [m EXCEPT !.snap = n]
             v == [m EXCEPT !.folded = f]
             w == [m EXCEPT !.open = o]
             x == [u EXCEPT !.folded = f]
  <2>1. u = [open |-> a, closed |-> b, snap |-> n, folded |-> e]
    BY <1>2
  <2>2. v = [open |-> a, closed |-> b, snap |-> d, folded |-> f]
    BY <1>2
  <2>3. w = [open |-> o, closed |-> b, snap |-> d, folded |-> e]
    BY <1>2
  <2> HIDE DEF u, v, w
  <2>4. [v EXCEPT !.open = o] = [open |-> o, closed |-> b, snap |-> d, folded |-> f]
    BY <2>2
  <2>5. [w EXCEPT !.closed = c] = [open |-> o, closed |-> c, snap |-> d, folded |-> e]
    BY <2>3
  <2>6. [u EXCEPT !.closed = c] = [open |-> a, closed |-> c, snap |-> n, folded |-> e]
    BY <2>1
  <2>7. x = [open |-> a, closed |-> b, snap |-> n, folded |-> f]
    BY <2>1
  <2> HIDE DEF x
  <2>8. [x EXCEPT !.open = o] = [open |-> o, closed |-> b, snap |-> n, folded |-> f]
    BY <2>7
  <2> QED
    BY <2>3, <2>4, <2>5, <2>6, <2>8, Zenon DEF u, v, w, x
<1> QED
  BY <1>3, Zenon DEF a, b, d, e

\* A manifest of such parts is one.
LEMMA ManifestType ==
  ASSUME NEW o \in 0..MaxSegments, NEW c \in Closings,
         NEW n \in (SUBSET Records) \cup {None}, NEW f \in BOOLEAN
  PROVE  [open |-> o, closed |-> c, snap |-> n, folded |-> f] \in Manifests
BY DEF Manifests

\* No segment is closed; one more is closed.
LEMMA ClosingsChange ==
  /\ <<>> \in Closings /\ DOMAIN <<>> = {}
  /\ \A c \in Closings : \A s \in Segments, g \in File :
       [t \in DOMAIN c \cup {s} |-> IF t = s THEN g ELSE c[t]] \in Closings
<1>1. <<>> \in Closings /\ DOMAIN <<>> = {}
  <2>1. <<>> \in [{} -> File]
    OBVIOUS
  <2> QED
    BY <2>1 DEF Closings
<1>2. ASSUME NEW c \in Closings, NEW s \in Segments, NEW g \in File
      PROVE  [t \in DOMAIN c \cup {s} |-> IF t = s THEN g ELSE c[t]] \in Closings
  <2>1. PICK S \in SUBSET Segments : c \in [S -> File]
    BY DEF Closings
  <2>2. [t \in DOMAIN c \cup {s} |-> IF t = s THEN g ELSE c[t]] \in [S \cup {s} -> File]
    BY <2>1
  <2>3. S \cup {s} \in SUBSET Segments
    OBVIOUS
  <2> QED
    BY <2>2, <2>3 DEF Closings
<1> QED
  BY <1>1, <1>2

\* A file is its lines and its tail.
LEMMA FileParts ==
  ASSUME NEW q \in Seq(Lines), NEW t \in Lines \cup {None}
  PROVE  [lines |-> q, tail |-> t] \in File
BY DEF File

\* The fields of a file.
LEMMA FileFields ==
  ASSUME NEW c \in File
  PROVE  /\ c.lines \in Seq(Lines) /\ Len(c.lines) \in Nat /\ c.tail \in Lines \cup {None}
         /\ c = [lines |-> c.lines, tail |-> c.tail]
BY DEF File

\* An empty file is one.
LEMMA FileEmpty == Empty \in File /\ Empty.lines = <<>> /\ Empty.tail = None
<1>1. <<>> \in Seq(Lines)
  OBVIOUS
<1> QED
  BY <1>1, FileParts DEF Empty

\* What a line makes of a file.
LEMMA FileChanges ==
  ASSUME NEW c \in File, NEW r \in Records
  PROVE  /\ Extended(c, r) \in File /\ Partial(c) \in File /\ Unended(c, r) \in File
         /\ Partial(c).lines = c.lines /\ Partial(c).tail = Garbage
         /\ Unended(c, r).lines = c.lines
<1>1. PICK q \in Seq(Lines), t \in Lines \cup {None} : c = [lines |-> q, tail |-> t]
  BY DEF File
<1>2. c.lines = q /\ c.tail = t
  BY <1>1
<1>3. Garbage \in Lines /\ r \in Lines
  BY DEF Lines
<1>4. Partial(c) = [lines |-> q, tail |-> Garbage]
  BY <1>1 DEF Partial
<1>5. Unended(c, r) \in File /\ Unended(c, r).lines = q
  <2> DEFINE u == IF t = None THEN r ELSE Garbage
  <2>1. u \in Lines
    BY <1>3
  <2>2. Unended(c, r) = [c EXCEPT !.tail = u]
    BY <1>2 DEF Unended
  <2> HIDE DEF u
  <2>3. Unended(c, r) = [lines |-> q, tail |-> u]
    BY <1>1, <2>2
  <2> QED
    BY <2>1, <2>3, FileParts
<1>6. Extended(c, r) \in File
  <2> DEFINE u == IF c.tail = None THEN r ELSE Garbage
  <2>1. u \in Lines
    BY <1>3
  <2>2. Append(c.lines, u) \in Seq(Lines)
    BY <1>2, <2>1
  <2>3. Extended(c, r) = [lines |-> Append(c.lines, u), tail |-> None]
    BY DEF Extended
  <2> HIDE DEF u
  <2> QED
    BY <2>2, <2>3, FileParts
<1>7. Partial(c) \in File
  BY <1>3, <1>4, FileParts
<1> QED
  BY <1>2, <1>4, <1>5, <1>6, <1>7

\* A segment reads as a file, and so does the open one.
LEMMA ContentType ==
  ASSUME Disk
  PROVE  /\ \A s : Content(s) \in File
         /\ Open \in File /\ Open.lines \in Seq(Lines)
         /\ Len(Open.lines) \in Nat /\ Open.tail \in Lines \cup {None}
<1>1. ASSUME NEW s PROVE Content(s) \in File
  BY FileEmpty DEF Content, Disk
<1>2. Open \in File
  BY <1>1 DEF Open
<1> QED
  BY <1>1, <1>2, FileFields

\* A line written leaves the other segments as they are.
LEMMA WriteChanges ==
  ASSUME Disk, NEW c \in File, manifest.open \in Segments, Write(c)
  PROVE  /\ seg' \in [Segments -> File \cup {None}]
         /\ seg'[manifest.open] = c
         /\ \A s \in Segments : s # manifest.open => seg'[s] = seg[s]
BY DEF Disk, Write

\* What an operation does to memory when it goes on, raises and returns.
LEMMA MemoryChanges ==
  ASSUME Memory, History
  PROVE  /\ \A s : GoOn(s) => Memory'
         /\ Raise => Memory'
         /\ Return /\ rec \in Records => Memory' /\ acked' \in [Items -> 0..Last]
<1>1. ASSUME NEW s, GoOn(s) PROVE Memory'
  BY <1>1 DEF GoOn, Memory
<1>2. ASSUME Raise PROVE Memory'
  BY <1>2 DEF Raise, Memory
<1>3. ASSUME Return, rec \in Records PROVE Memory' /\ acked' \in [Items -> 0..Last]
  <2>1. rec[1] \in Items /\ rec[2] \in 0..Last
    <3>1. rec[2] \in 1..Last
      BY <1>3 DEF Records
    <3> QED
      BY <1>3, <3>1, JournalAssumption DEF Records
  <2> QED
    BY <1>3, <2>1 DEF Return, Memory, History
<1> QED
  BY <1>1, <1>2, <1>3

\* A whole line, a part of one and what follows a truncation go to the open
\* segment only.
LEMMA OpenWrites ==
  ASSUME Shape,
         \/ step = "line" /\ (Torn \/ Write(Extended(Open, rec)))
         \/ step = "truncated" /\ (RewritePrefix \/ Write([lines |-> saved, tail |-> None]))
         \/ step = "idle" /\ manifest.open \in Segments /\ Write(Empty)
  PROVE  /\ seg' \in [Segments -> File \cup {None}]
         /\ \A s \in Segments : s # manifest.open => seg'[s] = seg[s]
<1> DEFINE Goal == /\ seg' \in [Segments -> File \cup {None}]
                   /\ \A s \in Segments : s # manifest.open => seg'[s] = seg[s]
<1>1. Disk /\ Memory /\ Open \in File
  BY ContentType DEF Shape
<1>2. ASSUME NEW c \in File, manifest.open \in Segments, Write(c) PROVE Goal
  BY <1>1, <1>2, WriteChanges
<1>3. CASE step = "line" /\ (Torn \/ Write(Extended(Open, rec)))
  <2>1. rec \in Records /\ manifest.open \in Segments
    BY <1>3 DEF Shape, Room, Appending, Filed
  <2>2. Extended(Open, rec) \in File /\ Partial(Open) \in File /\ Unended(Open, rec) \in File
    BY <1>1, <2>1, FileChanges
  <2>3. CASE UNCHANGED seg
    BY <1>1, <2>3 DEF Disk
  <2> QED
    BY <1>2, <1>3, <2>1, <2>2, <2>3 DEF Torn
<1>4. CASE step = "truncated" /\ (RewritePrefix \/ Write([lines |-> saved, tail |-> None]))
  <2>1. manifest.open \in Segments
    BY <1>4 DEF Shape, Room
  <2>2. saved \in Seq(Lines)
    BY <1>1 DEF Memory, Lines
  <2>3. ASSUME NEW q \in Seq(Lines) PROVE [lines |-> q, tail |-> None] \in File
    BY FileParts
  <2>4. CASE RewritePrefix
    <3>1. PICK n \in 0..Len(saved) : Write([lines |-> SubSeq(saved, 1, n), tail |-> None])
      BY <2>4 DEF RewritePrefix
    <3>2. SubSeq(saved, 1, n) \in Seq(Lines)
      BY <2>2
    <3> QED
      BY <1>2, <2>1, <2>3, <3>1, <3>2
  <2> QED
    BY <1>2, <1>4, <2>1, <2>2, <2>3, <2>4
<1>5. CASE step = "idle" /\ manifest.open \in Segments /\ Write(Empty)
  BY <1>2, <1>5, FileEmpty
<1> QED
  BY <1>3, <1>4, <1>5

\* The segment a partial line is in exists; its whole lines are records.
LEMMA PartialLine ==
  ASSUME Disk, Open.tail = Garbage
  PROVE  manifest.open \in Segments /\ (OpenReadable => Open.lines \in Seq(Records))
<1>1. Open # Empty
  BY FileEmpty, JournalAssumption
<1>2. manifest.open \in Segments
  BY <1>1 DEF Open, Content
<1>3. ASSUME OpenReadable PROVE Open.lines \in Seq(Records)
  <2> DEFINE q == Open.lines
  <2>1. q \in Seq(Lines) /\ Garbage \notin SeqRange(q)
    BY <1>3, ContentType DEF OpenReadable
  <2> HIDE DEF q
  <2>2. \A n \in 1..Len(q) : q[n] \in Records
    BY <2>1 DEF SeqRange, Lines
  <2>3. q \in Seq(Records)
    BY <2>1, <2>2
  <2> QED
    BY <2>3 DEF q
<1> QED
  BY <1>2, <1>3

\* What is kept keeps its type.
LEMMA Kept ==
  /\ Disk /\ UNCHANGED disk => Disk'
  /\ Disk /\ UNCHANGED <<manifest, snapshot, legacyFile>>
       /\ seg' \in [Segments -> File \cup {None}] => Disk'
  /\ Memory /\ UNCHANGED memory => Memory'
  /\ Bounds /\ UNCHANGED bounds => Bounds'
  /\ History /\ UNCHANGED <<acked, sealed>> => History'
BY DEF Disk, disk, Memory, memory, Bounds, bounds, History

\* A step that goes on keeps its record and its segment.
LEMMA RoomGoesOn ==
  ASSUME Room, NEW t \in Filed, step \in Appending, GoOn(t),
         manifest'.open \in Segments,
         t \in {"line", "close"} => manifest'.open < MaxSegments
  PROVE  Room'
BY DEF Room, GoOn, Appending, Filed, Steps

\* Between operations there is nothing to know.
LEMMA RoomIdle == step' = "idle" => Room'
BY DEF Room, Appending, Filed, Steps

\* Reading, and the start of an append.
LEMMA ShapeRead ==
  ASSUME Shape, Read \/ \E k \in Items : StartAppend(k)
  PROVE  Shape'
<1>1. Disk /\ Memory /\ Bounds /\ History /\ Room
  BY DEF Shape
<1>2. CASE Load
  <2>1. known' \in [Items -> 0..Last]
    BY <1>2, LatestType DEF Load, Stored
  <2>2. Memory'
    BY <1>1, <1>2, <2>1 DEF Load, Memory
  <2>3. Room'
    BY <1>2, RoomIdle DEF Load
  <2> QED
    BY <1>1, <1>2, <2>2, <2>3, Kept DEF Load, Shape
<1>3. CASE Truncate
  <2>1. manifest.open \in Segments /\ Open.lines \in Seq(Records)
    BY <1>1, <1>3, PartialLine DEF Truncate
  <2>2. seg' \in [Segments -> File \cup {None}]
    BY <1>3, <2>1, OpenWrites DEF Truncate, Write
  <2>3. Disk' /\ Bounds' /\ History'
    BY <1>1, <1>3, <2>2, Kept DEF Truncate
  <2>4. Memory'
    BY <1>1, <1>3, <2>1 DEF Truncate, Memory
  <2>5. Room'
    BY <1>1, <1>3, <2>1 DEF Truncate, Room, Appending, Filed, Steps
  <2> QED
    BY <2>3, <2>4, <2>5 DEF Shape
<1>4. CASE Rewrite
  <2>1. seg' \in [Segments -> File \cup {None}]
    BY <1>4, OpenWrites DEF Rewrite, Write
  <2>2. Disk' /\ Bounds' /\ History'
    BY <1>1, <1>4, <2>1, Kept DEF Rewrite
  <2>3. Memory'
    BY <1>1, <1>4 DEF Rewrite, Memory
  <2> QED
    BY <1>4, <2>2, <2>3, RoomIdle DEF Rewrite, Shape
<1>5. ASSUME NEW k \in Items, StartAppend(k) PROVE Shape'
  <2>1. Disk' /\ Bounds' /\ History'
    BY <1>1, <1>5, Kept DEF StartAppend
  <2>2. known[k] + 1 \in 1..Last
    BY <1>1, <1>5, JournalAssumption DEF StartAppend, Memory
  <2>3. rec' \in Records
    BY <1>5, <2>2 DEF StartAppend, Records
  <2>4. Memory'
    BY <1>1, <1>5, <2>3 DEF StartAppend, Memory
  <2>5. Room'
    <3>1. step' \in {"stub", "legacy", "manifest", "line"}
      BY <1>5 DEF StartAppend
    <3>2. manifest.open \in 0..MaxSegments /\ manifest' = manifest /\ manifest.open < MaxSegments
      BY <1>1, <1>5, ManifestParts DEF StartAppend, disk, Disk
    <3>3. /\ step' = "line" => manifest.open # 0
          /\ step' = "manifest" => manifest.open = 0
          /\ step' = "legacy" => legacyFile' # None
          /\ step' = "stub" => legacyFile' = None
      BY <1>5 DEF StartAppend, disk
    <3>4. step' = "line" => manifest.open \in Segments
      BY <3>2, <3>3, JournalAssumption DEF Segments
    <3> QED
      BY <2>3, <3>1, <3>2, <3>3, <3>4 DEF Room, Appending, Filed, Steps
  <2> QED
    BY <2>1, <2>4, <2>5 DEF Shape
<1> QED
  BY <1>2, <1>3, <1>4, <1>5 DEF Read

\* What is in a snapshot, in segments and in the v1 file are records.
LEMMA RecordSets ==
  ASSUME Disk
  PROVE  /\ InSnapshot \subseteq Records /\ InLegacy \subseteq Records
         /\ InClosed \subseteq Records
         /\ \A c : InSegment(c) \subseteq Records
<1>1. \A c : InSegment(c) \subseteq Records
  BY DEF InSegment
<1>2. InClosed \subseteq Records
  <2>1. ASSUME NEW r \in InClosed PROVE r \in Records
    <3>1. PICK s \in DOMAIN manifest.closed : r \in InSegment(Content(s))
      BY DEF InClosed
    <3> QED
      BY <1>1, <3>1
  <2> QED
    BY <2>1
<1>3. manifest.snap # None => snapshot \in SUBSET Records \/ snapshot = None
  BY DEF Disk
<1> QED
  BY <1>1, <1>2, <1>3 DEF InSnapshot, InLegacy, Disk

\* The manifest that a step writes.
LEMMA ManifestWrites ==
  ASSUME Shape
  PROVE  /\ SaveLegacy => /\ manifest' = [open |-> OpenName, closed |-> manifest.closed,
                                          snap |-> snapshot, folded |-> TRUE]
                          /\ manifest'.open < MaxSegments
         /\ MarkLegacy => /\ manifest' = [open |-> OpenName, closed |-> manifest.closed,
                                          snap |-> manifest.snap, folded |-> TRUE]
                          /\ manifest'.open < MaxSegments
         /\ OpenName \in Segments /\ manifest.open <= OpenName
<1>1. manifest \in Manifests /\ manifest.open \in 0..MaxSegments
  BY ManifestParts DEF Shape, Disk
<1>2. step \in {"legacy", "legacySave"} => OpenName < MaxSegments
  BY JournalAssumption DEF Shape, Room, Appending, OpenName
<1>3. OpenName \in Segments /\ manifest.open <= OpenName
  BY <1>1, JournalAssumption DEF OpenName, Segments
<1>4. ASSUME SaveLegacy
      PROVE  manifest' = [open |-> OpenName, closed |-> manifest.closed,
                          snap |-> snapshot, folded |-> TRUE]
  <2>1. manifest' = [manifest EXCEPT !.snap = snapshot, !.folded = TRUE, !.open = OpenName]
    BY <1>4 DEF SaveLegacy
  <2> QED
    BY ZenonT(60), <1>1, <2>1, ManifestChanges
<1>5. ASSUME MarkLegacy
      PROVE  manifest' = [open |-> OpenName, closed |-> manifest.closed,
                          snap |-> manifest.snap, folded |-> TRUE]
  <2>1. manifest' = [manifest EXCEPT !.folded = TRUE, !.open = OpenName]
    BY <1>5 DEF MarkLegacy
  <2> QED
    BY <1>1, <2>1, ManifestChanges
<1> QED
  BY <1>2, <1>3, <1>4, <1>5 DEF SaveLegacy, MarkLegacy

\* A manifest of these parts, with its closed segments before the open one.
LEMMA DiskManifest ==
  ASSUME Disk, NEW o \in 0..MaxSegments, NEW c \in Closings,
         NEW n \in (SUBSET Records) \cup {None}, NEW f \in BOOLEAN,
         \A s \in DOMAIN c : s < o, n # None => snapshot # None,
         manifest' = [open |-> o, closed |-> c, snap |-> n, folded |-> f],
         UNCHANGED <<snapshot, seg, legacyFile>>
  PROVE  Disk' /\ manifest'.open = o /\ manifest'.closed = c /\ manifest'.snap = n
<1>1. manifest' \in Manifests
  BY ManifestType
<1>2. manifest'.open = o /\ manifest'.closed = c /\ manifest'.snap = n
  OBVIOUS
<1> QED
  BY <1>1, <1>2 DEF Disk

\* The folding of the v1 records and the creation of the manifest.
LEMMA ShapeOpening ==
  ASSUME Shape, FoldLegacy \/ SaveLegacy \/ MarkLegacy \/ WriteStub \/ CreateManifest
  PROVE  Shape'
<1>1. /\ Disk /\ Memory /\ Bounds /\ History /\ Room
      /\ manifest \in Manifests
      /\ manifest.open \in 0..MaxSegments /\ manifest.closed \in Closings
      /\ manifest.snap \in (SUBSET Records) \cup {None} /\ manifest.folded \in BOOLEAN
      /\ DOMAIN manifest.closed \subseteq Segments
      /\ \A s \in DOMAIN manifest.closed : s < manifest.open
  BY ManifestParts DEF Shape, Disk
<1>2. CASE FoldLegacy
  <2>1. snapshot' \in SUBSET Records /\ snapshot' # None
    BY <1>1, <1>2 DEF FoldLegacy, Disk, Room
  <2>5. Disk'
    BY <1>1, <1>2, <2>1 DEF FoldLegacy, Disk
  <2>2. Room'
    BY <1>1, <1>2 DEF FoldLegacy, GoOn, Room, Appending, Filed, Steps
  <2>3. Memory' /\ Bounds' /\ History'
    BY <1>1, <1>2, MemoryChanges, Kept DEF FoldLegacy
  <2> QED
    BY <2>2, <2>3, <2>5 DEF Shape
<1>3. CASE SaveLegacy \/ MarkLegacy
  <2>1. PICK n \in (SUBSET Records) \cup {None} :
          /\ manifest' = [open |-> OpenName, closed |-> manifest.closed, snap |-> n, folded |-> TRUE]
          /\ n # None => snapshot # None
    BY <1>1, <1>3, ManifestWrites DEF Disk
  <2>2. OpenName \in Segments /\ manifest.open <= OpenName
    BY ManifestWrites
  <2>3. \A s \in DOMAIN manifest.closed : s < OpenName
    BY <1>1, <2>2 DEF Segments
  <2>4. OpenName \in 0..MaxSegments /\ UNCHANGED <<snapshot, seg, legacyFile>>
    BY <1>3, <2>2, JournalAssumption DEF SaveLegacy, MarkLegacy, Segments
  <2>5. Disk' /\ manifest'.open = OpenName
    BY <1>1, <2>1, <2>3, <2>4, DiskManifest
  <2>6. GoOn("line") /\ step \in Appending /\ manifest'.open < MaxSegments
    BY <1>3, ManifestWrites DEF SaveLegacy, MarkLegacy, Appending
  <2>7. Room'
    BY <1>1, <2>2, <2>5, <2>6, RoomGoesOn DEF Filed
  <2>8. Memory' /\ Bounds' /\ History'
    BY <1>1, <1>3, <2>6, MemoryChanges, Kept DEF SaveLegacy, MarkLegacy
  <2> QED
    BY <2>5, <2>7, <2>8 DEF Shape
<1>4. CASE WriteStub
  <2>1. Disk'
    BY <1>1, <1>4 DEF WriteStub, Disk
  <2>2. Room'
    <3>1. manifest.open # 0 => manifest.open \in Segments
      BY <1>1, JournalAssumption DEF Segments
    <3> QED
      BY <1>1, <1>4, <3>1 DEF WriteStub, GoOn, Room, Appending, Filed, Steps
  <2>3. Memory' /\ Bounds' /\ History'
    BY <1>1, <1>4, MemoryChanges, Kept DEF WriteStub
  <2> QED
    BY <2>1, <2>2, <2>3 DEF Shape
<1>5. CASE CreateManifest
  <2>1. manifest' = [open |-> 1, closed |-> manifest.closed,
                     snap |-> manifest.snap, folded |-> manifest.folded]
    <3>1. manifest' = [manifest EXCEPT !.open = 1]
      BY <1>5 DEF CreateManifest
    <3> QED
      BY <1>1, <3>1, ManifestChanges
  <2>2. 1 \in Segments /\ 1 \in 0..MaxSegments /\ 1 < MaxSegments
    BY JournalAssumption DEF Segments
  <2>3. \A s \in DOMAIN manifest.closed : s < 1
    <3>1. step = "manifest"
      BY <1>5 DEF CreateManifest
    <3>2. manifest.open = 0
      BY <1>1, <3>1 DEF Room
    <3> QED
      BY <1>1, <3>2 DEF Segments
  <2>4. Disk' /\ manifest'.open = 1
    <3>1. UNCHANGED <<snapshot, seg, legacyFile>> /\ (manifest.snap # None => snapshot # None)
      BY <1>1, <1>5 DEF CreateManifest, Disk
    <3> QED
      BY <1>1, <2>1, <2>2, <2>3, <3>1, DiskManifest
  <2>5. Room'
    BY <1>1, <1>5, <2>2, <2>4, RoomGoesOn DEF CreateManifest, Appending, Filed
  <2>6. Memory' /\ Bounds' /\ History'
    BY <1>1, <1>5, MemoryChanges, Kept DEF CreateManifest
  <2> QED
    BY <2>4, <2>5, <2>6 DEF Shape
<1> QED
  BY <1>2, <1>3, <1>4, <1>5

\* The closed segments with the open one among them.
Closing == [s \in DOMAIN manifest.closed \cup {manifest.open} |->
              IF s = manifest.open THEN Open ELSE manifest.closed[s]]

\* The manifests of a rotation and of a fold.
LEMMA RotationWrites ==
  ASSUME Shape
  PROVE  /\ Close => /\ Disk'
                     /\ manifest'.open = manifest.open + 1 /\ manifest'.open \in Segments
                     /\ manifest'.closed = Closing /\ manifest'.snap = manifest.snap
                     /\ manifest'.folded = manifest.folded
         /\ SaveFold => /\ Disk'
                        /\ manifest'.open = manifest.open
                        /\ manifest'.closed = <<>> /\ manifest'.snap = snapshot
                        /\ manifest'.folded = manifest.folded
<1>1. /\ Disk /\ Room /\ manifest \in Manifests
      /\ manifest.open \in 0..MaxSegments /\ manifest.closed \in Closings
      /\ manifest.snap \in (SUBSET Records) \cup {None} /\ manifest.folded \in BOOLEAN
      /\ \A s \in DOMAIN manifest.closed : s \in Segments /\ s < manifest.open
  BY ManifestParts DEF Shape, Disk
<1>2. ASSUME Close
      PROVE  /\ Disk'
             /\ manifest'.open = manifest.open + 1 /\ manifest'.open \in Segments
             /\ manifest'.closed = Closing /\ manifest'.snap = manifest.snap
             /\ manifest'.folded = manifest.folded
  <2>1. manifest' = [open |-> manifest.open + 1, closed |-> Closing,
                     snap |-> manifest.snap, folded |-> manifest.folded]
    <3>1. manifest' = [manifest EXCEPT !.open = manifest.open + 1, !.closed = Closing]
      BY <1>2 DEF Close, Closing
    <3> QED
      BY ZenonT(60), <1>1, <3>1, ManifestChanges
  <2>2. manifest.open \in Segments /\ manifest.open < MaxSegments
    BY <1>1, <1>2 DEF Close, Room, Appending, Filed
  <2>3. manifest.open + 1 \in Segments /\ manifest.open + 1 \in 0..MaxSegments
    BY <2>2, JournalAssumption DEF Segments
  <2>4. Closing \in Closings
    BY <1>1, <2>2, ContentType, ClosingsChange DEF Closing
  <2>5. \A s \in DOMAIN Closing : s < manifest.open + 1
    BY <1>1, <2>2 DEF Closing, Segments
  <2>6. UNCHANGED <<snapshot, seg, legacyFile>> /\ (manifest.snap # None => snapshot # None)
    BY <1>1, <1>2 DEF Close, Disk
  <2>7. Disk'
    BY <1>1, <2>1, <2>3, <2>4, <2>5, <2>6, DiskManifest
  <2> QED
    BY <2>1, <2>3, <2>7
<1>3. ASSUME SaveFold
      PROVE  /\ Disk'
             /\ manifest'.open = manifest.open
             /\ manifest'.closed = <<>> /\ manifest'.snap = snapshot
             /\ manifest'.folded = manifest.folded
  <2>1. manifest' = [open |-> manifest.open, closed |-> <<>>,
                     snap |-> snapshot, folded |-> manifest.folded]
    <3>1. manifest' = [manifest EXCEPT !.snap = snapshot, !.closed = <<>>]
      BY <1>3 DEF SaveFold
    <3> QED
      BY <1>1, <3>1, ManifestChanges
  <2>2. snapshot \in (SUBSET Records) \cup {None} /\ UNCHANGED <<snapshot, seg, legacyFile>>
    BY <1>1, <1>3 DEF SaveFold, Disk
  <2>3. Disk'
    BY <1>1, <2>1, <2>2, ClosingsChange, DiskManifest
  <2> QED
    BY <2>1, <2>3
<1> QED
  BY <1>2, <1>3

\* The line, the rotation and the fold.
LEMMA ShapeFiling ==
  ASSUME Shape,
         \/ WriteLine \/ FillSegment \/ Close \/ Fold \/ Unlink \/ UnlinkDone
         \/ SaveFold \/ Refuse
  PROVE  Shape'
<1>1. /\ Disk /\ Memory /\ Bounds /\ History /\ Room
      /\ manifest.open \in 0..MaxSegments
      /\ \A s \in DOMAIN manifest.closed : s \in Segments
  BY ManifestParts DEF Shape, Disk
<1>2. CASE WriteLine
  <2>1. seg' \in [Segments -> File \cup {None}]
    BY <1>2, OpenWrites DEF WriteLine
  <2>2. rec \in Records
    BY <1>1, <1>2 DEF WriteLine, Room, Appending, Filed
  <2>3. Disk' /\ Bounds'
    BY <1>1, <1>2, <2>1, Kept DEF WriteLine
  <2>4. Memory' /\ History'
    BY <1>1, <1>2, <2>2, MemoryChanges DEF WriteLine, History
  <2>5. Room'
    BY <1>2, RoomIdle DEF WriteLine, Return
  <2> QED
    BY <2>3, <2>4, <2>5 DEF Shape
<1>3. CASE FillSegment
  <2>1. seg' \in [Segments -> File \cup {None}]
    BY <1>3, OpenWrites DEF FillSegment
  <2>2. Disk' /\ Bounds' /\ Memory' /\ History'
    BY <1>1, <1>3, <2>1, Kept, MemoryChanges DEF FillSegment
  <2>3. Room'
    BY <1>1, <1>3, RoomGoesOn DEF FillSegment, Room, Appending, Filed
  <2> QED
    BY <2>2, <2>3 DEF Shape
<1>4. CASE Close
  <2>1. Disk' /\ manifest'.open \in Segments
    BY <1>4, RotationWrites
  <2>2. Memory' /\ Bounds'
    BY <1>1, <1>4, Kept, MemoryChanges DEF Close
  <2>3. History'
    BY <1>1, <1>4, LatestType DEF Close, History
  <2>4. Room'
    BY <1>1, <1>4, <2>1, RoomGoesOn DEF Close, Appending, Filed
  <2> QED
    BY <2>1, <2>2, <2>3, <2>4 DEF Shape
<1>5. CASE Fold
  <2>1. snapshot' \in SUBSET Records
    BY <1>1, <1>5, RecordSets DEF Fold, Reduced
  <2>2. Disk'
    <3>1. snapshot' # None
      BY <2>1, JournalAssumption
    <3> QED
      BY <1>1, <1>5, <2>1, <3>1 DEF Fold, Disk
  <2>3. Memory' /\ Bounds' /\ History'
    BY <1>1, <1>5, Kept, MemoryChanges DEF Fold
  <2>4. Room'
    BY <1>1, <1>5, RoomGoesOn DEF Fold, Room, Appending, Filed
  <2> QED
    BY <2>2, <2>3, <2>4 DEF Shape
<1>6. CASE Unlink
  <2>1. seg' \in [Segments -> File \cup {None}]
    BY <1>1, <1>6 DEF Unlink, Disk
  <2>2. Disk' /\ Memory' /\ Bounds' /\ History'
    BY <1>1, <1>6, <2>1, Kept, MemoryChanges DEF Unlink
  <2>3. Room'
    BY <1>1, <1>6, RoomGoesOn DEF Unlink, Room, Appending, Filed
  <2> QED
    BY <2>2, <2>3 DEF Shape
<1>7. CASE UnlinkDone
  <2>1. Disk' /\ Memory' /\ Bounds' /\ History'
    BY <1>1, <1>7, Kept, MemoryChanges DEF UnlinkDone
  <2>2. Room'
    BY <1>1, <1>7, RoomGoesOn DEF UnlinkDone, disk, Room, Appending, Filed
  <2> QED
    BY <2>1, <2>2 DEF Shape
<1>8. CASE SaveFold
  <2>1. rec \in Records
    BY <1>1, <1>8 DEF SaveFold, Room, Appending, Filed
  <2>2. Memory' /\ History' /\ Bounds'
    BY <1>1, <1>8, <2>1, Kept, MemoryChanges DEF SaveFold, History
  <2>3. Room'
    BY <1>8, RoomIdle DEF SaveFold, Return
  <2> QED
    BY <1>8, <2>2, <2>3, RotationWrites DEF Shape
<1>9. CASE Refuse
  <2>1. Disk' /\ Memory' /\ Bounds' /\ History'
    BY <1>1, <1>9, Kept, MemoryChanges DEF Refuse
  <2>2. Room'
    BY <1>9, RoomIdle DEF Refuse, Raise
  <2> QED
    BY <2>1, <2>2 DEF Shape
<1> QED
  BY <1>2, <1>3, <1>4, <1>5, <1>6, <1>7, <1>8, <1>9

\* Faults and kills.
LEMMA ShapeFault ==
  ASSUME Shape, Fault \/ Crash
  PROVE  Shape'
<1>1. Disk /\ Memory /\ Bounds /\ History /\ Room
  BY DEF Shape
<1>2. CASE ReplaceFault
  <2>1. Disk' /\ Memory' /\ History'
    BY <1>1, <1>2, Kept, MemoryChanges DEF ReplaceFault
  <2>2. Bounds' /\ Room'
    BY <1>1, <1>2, RoomIdle DEF ReplaceFault, WriteFails, Raise, Bounds
  <2> QED
    BY <2>1, <2>2 DEF Shape
<1>3. CASE LineFault
  <2>1. seg' \in [Segments -> File \cup {None}]
    BY <1>3, OpenWrites DEF LineFault
  <2>2. Disk' /\ Memory' /\ History'
    BY <1>1, <1>3, <2>1, Kept, MemoryChanges DEF LineFault
  <2>3. Bounds' /\ Room'
    BY <1>1, <1>3, RoomIdle DEF LineFault, WriteFails, Raise, Bounds
  <2> QED
    BY <2>2, <2>3 DEF Shape
<1>4. CASE UnlinkFault
  <2>1. rec \in Records
    BY <1>1, <1>4 DEF UnlinkFault, Room, Appending, Filed
  <2>2. Disk' /\ Memory' /\ History'
    BY <1>1, <1>4, <2>1, Kept, MemoryChanges DEF UnlinkFault, History
  <2>3. Bounds' /\ Room'
    BY <1>1, <1>4, RoomIdle DEF UnlinkFault, WriteFails, Return, Bounds
  <2> QED
    BY <2>2, <2>3 DEF Shape
<1>5. CASE RewriteFault
  <2>1. seg' \in [Segments -> File \cup {None}]
    BY <1>5, OpenWrites DEF RewriteFault
  <2>2. Disk' /\ Memory' /\ History'
    BY <1>1, <1>5, <2>1, Kept, MemoryChanges DEF RewriteFault
  <2>3. Bounds' /\ Room'
    BY <1>1, <1>5, RoomIdle DEF RewriteFault, WriteFails, Raise, Bounds
  <2> QED
    BY <2>2, <2>3 DEF Shape
<1>6. CASE Crash
  <2>1. \/ step = "line" /\ Torn
        \/ step = "truncated" /\ RewritePrefix
        \/ UNCHANGED seg
    BY <1>6 DEF Crash
  <2>2. seg' \in [Segments -> File \cup {None}]
    BY <1>1, <2>1, OpenWrites DEF Disk
  <2>3. Disk' /\ History'
    BY <1>1, <1>6, <2>2, Kept DEF Crash
  <2>4. Memory'
    <3>1. known' \in [Items -> 0..Last] /\ saved' \in Seq(Records)
      BY <1>6, JournalAssumption DEF Crash
    <3> QED
      BY <1>6, <3>1 DEF Crash, Memory
  <2>5. Bounds' /\ Room'
    BY <1>1, <1>6, RoomIdle DEF Crash, Bounds
  <2> QED
    BY <2>3, <2>4, <2>5 DEF Shape
<1> QED
  BY <1>2, <1>3, <1>4, <1>5, <1>6 DEF Fault

\* The shape of a state, from the first and across every step.
LEMMA ShapeInvariant == Spec => []Shape
<1>1. Init => Shape
  <2> SUFFICES ASSUME Init PROVE Shape
    OBVIOUS
  <2>1. Disk
    <3>1. manifest \in Manifests
      BY ClosingsChange, JournalAssumption DEF Init, NoManifest, Manifests
    <3>2. manifest.closed = <<>> /\ manifest.snap = None
      BY DEF Init, NoManifest
    <3> QED
      BY <3>1, <3>2, JournalAssumption, ClosingsChange DEF Init, Disk
  <2>2. Bounds /\ Room
    BY DEF Init, Bounds, Room, Appending, Filed, Steps
  <2>3. known \in [Items -> 0..Last] /\ saved \in Seq(Records)
    BY JournalAssumption DEF Init
  <2>4. Memory /\ History
    BY <2>3, LatestType DEF Init, Memory, History
  <2> QED
    BY <2>1, <2>2, <2>4 DEF Shape
<1>2. Shape /\ [Next]_vars => Shape'
  <2>1. ASSUME Shape, UNCHANGED vars PROVE Shape'
    BY <2>1 DEF vars, Shape, Disk, Memory, Bounds, History, Room
  <2>2. ASSUME Shape, Next PROVE Shape'
    BY <2>2, ShapeRead, ShapeOpening, ShapeFiling, ShapeFault DEF Next, AppendStep
  <2> QED
    BY <2>1, <2>2
<1> QED
  BY <1>1, <1>2, PTL DEF Spec

\* The type invariant of the journal: every file and every variable of the
\* store keeps its type, closed segments come before the open one.
THEOREM TypeCorrect == Spec => []TypeOK
<1>1. Shape => TypeOK
  <2> SUFFICES ASSUME Shape PROVE TypeOK
    OBVIOUS
  <2>1. /\ Disk /\ Memory /\ History /\ Room
        /\ manifest.open \in 0..MaxSegments
        /\ manifest.snap \in (SUBSET Records) \cup {None} /\ manifest.folded \in BOOLEAN
        /\ \A s \in DOMAIN manifest.closed : manifest.closed[s] \in File
    BY ManifestParts DEF Shape, Disk
  <2> QED
    BY <2>1 DEF TypeOK, Disk, Memory, History, Room
<1> QED
  BY <1>1, ShapeInvariant, PTL

-----------------------------------------------------------------------------
(* Failing closed *)

\* What the manifest refers to by its digests, whatever the files hold.
NamedSnapshot == IF manifest.snap = None THEN {} ELSE manifest.snap
NamedClosed == UNION {InSegment(manifest.closed[s]) : s \in DOMAIN manifest.closed}
Named == NamedSnapshot \cup NamedClosed

\* Nothing is appended before the v1 records are folded, if there are any.
LegacyFirst ==
  /\ \/ manifest.folded
     \/ legacyFile = {}
     \/ manifest.snap = None /\ manifest.closed = <<>> /\ manifest.open = 0
  /\ step \in Filed \cup {"manifest"} => manifest.folded \/ legacyFile = {}
  /\ step \in {"legacy", "legacySave"} => ~manifest.folded
  /\ step = "legacySave" => legacyFile # {}

\* What was sealed is named by the manifest; a file a fold replaces or removes
\* holds what the manifest names, or nothing; the new snapshot has all of it.
Sealing ==
  /\ \A k \in Items : sealed[k] <= Latest(Named)[k]
  /\ manifest.snap # None => snapshot \subseteq Named
  /\ \A s \in DOMAIN manifest.closed : seg[s] \in {None, manifest.closed[s]}
  /\ step \in {"unlink", "save"} =>
       snapshot # None /\ snapshot \subseteq Named /\ Latest(snapshot) = Latest(Named)

\* A step that leaves the manifest, the v1 file and the phase of the append.
LEMMA LegacyQuiet ==
  ASSUME LegacyFirst, UNCHANGED <<manifest, legacyFile>>,
         \/ step' \in {step, "idle", "truncated"}
         \/ step \in Filed /\ step' \in Filed
  PROVE  LegacyFirst'
BY DEF LegacyFirst, Filed

\* The v1 records come first at every step.
LEMMA LegacyFirstNext ==
  ASSUME Shape, LegacyFirst, [Next]_vars
  PROVE  LegacyFirst'
<1>1. CASE UNCHANGED vars
  BY <1>1, LegacyQuiet DEF vars
<1>2. CASE Read
  BY <1>2, LegacyQuiet DEF Read, Load, Truncate, Rewrite, disk
<1>3. ASSUME NEW k \in Items, StartAppend(k) PROVE LegacyFirst'
  <2>1. UNCHANGED <<manifest, legacyFile>>
    BY <1>3 DEF StartAppend, disk
  <2>2. \/ step' = "stub"
        \/ step' = "legacy" /\ ~manifest.folded
        \/ step' \in {"manifest", "line"} /\ manifest.folded
    BY <1>3 DEF StartAppend
  <2> QED
    BY <2>1, <2>2 DEF LegacyFirst, Filed
<1>4. CASE FoldLegacy
  BY <1>4 DEF FoldLegacy, GoOn, LegacyFirst, Filed
<1>5. CASE SaveLegacy \/ MarkLegacy
  <2>1. manifest'.folded = TRUE
    BY <1>5, ManifestWrites
  <2>2. step' = "line"
    BY <1>5 DEF SaveLegacy, MarkLegacy, GoOn
  <2> QED
    BY <2>1, <2>2 DEF LegacyFirst, Filed
<1>6. CASE WriteStub
  <2>1. legacyFile' = {} /\ manifest' = manifest /\ step' \in {"manifest", "line"}
    BY <1>6 DEF WriteStub, GoOn
  <2> QED
    BY <2>1 DEF LegacyFirst
<1>7. CASE CreateManifest
  <2>1. manifest' = [manifest EXCEPT !.open = 1] /\ legacyFile' = legacyFile /\ step' = "line"
    BY <1>7 DEF CreateManifest, GoOn
  <2>2. manifest'.folded = manifest.folded
    <3>1. manifest' = [open |-> 1, closed |-> manifest.closed,
                       snap |-> manifest.snap, folded |-> manifest.folded]
      BY <2>1, ManifestChanges DEF Shape, Disk
    <3> QED
      BY <3>1
  <2>3. manifest.folded \/ legacyFile = {}
    BY <1>7 DEF CreateManifest, LegacyFirst, Filed
  <2> QED
    BY <2>1, <2>2, <2>3 DEF LegacyFirst, Filed
<1>8. CASE WriteLine \/ FillSegment \/ Fold \/ Unlink \/ UnlinkDone \/ Refuse
  <2>1. UNCHANGED <<manifest, legacyFile>>
    BY <1>8 DEF WriteLine, FillSegment, Fold, Unlink, UnlinkDone, Refuse, disk
  <2>2. CASE WriteLine \/ Refuse
    BY <2>1, <2>2, LegacyQuiet DEF WriteLine, Refuse, Return, Raise
  <2>3. step \in Filed
    BY <1>8 DEF WriteLine, FillSegment, Fold, Unlink, UnlinkDone, Refuse, Filed
  <2>4. CASE FillSegment \/ Fold \/ Unlink \/ UnlinkDone
    <3>1. step' \in {"close", "unlink", "save"}
      BY <2>4 DEF FillSegment, Fold, Unlink, UnlinkDone, GoOn
    <3> QED
      BY <2>1, <2>3, <3>1, LegacyQuiet DEF Filed
  <2> QED
    BY <1>8, <2>2, <2>4
<1>9. CASE Close \/ SaveFold
  <2>1. manifest'.folded = manifest.folded /\ legacyFile' = legacyFile
    BY <1>9, RotationWrites DEF Close, SaveFold
  <2>2. manifest.folded \/ legacyFile = {}
    BY <1>9 DEF Close, SaveFold, LegacyFirst, Filed
  <2>3. step' \in {"fold", "idle"}
    BY <1>9 DEF Close, SaveFold, GoOn, Return
  <2> QED
    BY <2>1, <2>2, <2>3 DEF LegacyFirst, Filed
<1>10. CASE Fault \/ Crash
  BY <1>10, LegacyQuiet
  DEF Fault, ReplaceFault, LineFault, UnlinkFault, RewriteFault, Crash, Raise, Return, disk
<1> QED
  BY <1>1, <1>2, <1>3, <1>4, <1>5, <1>6, <1>7, <1>8, <1>9, <1>10 DEF Next, AppendStep

\* What files hold is named by the manifest; a read that verifies finds all of it.
LEMMA NamedFiles ==
  ASSUME Disk, Sealing
  PROVE  /\ InSnapshot \subseteq Named /\ InClosed \subseteq NamedClosed
         /\ Verified => InSnapshot = NamedSnapshot /\ InClosed = NamedClosed
<1>1. \A s \in DOMAIN manifest.closed : s \in Segments /\ manifest.closed[s] \in File
  BY ManifestParts DEF Disk
<1>2. InSegment(Empty) = {}
  BY FileEmpty, JournalAssumption DEF InSegment, SeqRange
<1>3. ASSUME NEW s \in DOMAIN manifest.closed
      PROVE  InSegment(Content(s)) \subseteq InSegment(manifest.closed[s])
  BY <1>1, <1>2 DEF Content, Sealing
<1>4. ASSUME Verified, NEW s \in DOMAIN manifest.closed
      PROVE  Content(s) = manifest.closed[s]
  BY <1>1, <1>4, JournalAssumption DEF Content, Verified
<1>5. InClosed \subseteq NamedClosed
  <2>1. ASSUME NEW r \in InClosed PROVE r \in NamedClosed
    <3>1. PICK s \in DOMAIN manifest.closed : r \in InSegment(Content(s))
      BY DEF InClosed
    <3>2. r \in InSegment(manifest.closed[s])
      BY <1>3, <3>1
    <3> QED
      BY <3>2 DEF NamedClosed
  <2> QED
    BY <2>1
<1>6. ASSUME Verified PROVE NamedClosed \subseteq InClosed
  <2>1. ASSUME NEW r \in NamedClosed PROVE r \in InClosed
    <3>1. PICK s \in DOMAIN manifest.closed : r \in InSegment(manifest.closed[s])
      BY DEF NamedClosed
    <3>2. r \in InSegment(Content(s))
      BY <1>4, <1>6, <3>1
    <3> QED
      BY <3>2 DEF InClosed
  <2> QED
    BY <2>1
<1>7. InSnapshot \subseteq Named
  BY DEF InSnapshot, Sealing
<1>8. Verified => InSnapshot = NamedSnapshot
  BY DEF Verified, InSnapshot, NamedSnapshot
<1> QED
  BY <1>5, <1>6, <1>7, <1>8

\* A step that leaves the manifest, the snapshot and what was sealed, and of
\* the closed segments removes some.
LEMMA SealingQuiet ==
  ASSUME Sealing, UNCHANGED <<manifest, snapshot, sealed>>,
         \A s \in DOMAIN manifest.closed : seg'[s] = seg[s] \/ seg'[s] = None,
         step' \in {"unlink", "save"} => step \in {"unlink", "save"}
  PROVE  Sealing'
BY DEF Sealing, Named, NamedSnapshot, NamedClosed

\* The manifest that closes the open segment names its records too.
LEMMA CloseNames ==
  ASSUME Shape, Close
  PROVE  Named' = Named \cup InSegment(Open)
<1>1. /\ manifest'.closed = Closing /\ manifest'.snap = manifest.snap
      /\ \A s \in DOMAIN manifest.closed : s # manifest.open
  BY RotationWrites, ManifestParts DEF Shape, Disk, Segments
<1>2. NamedSnapshot' = NamedSnapshot
  BY <1>1 DEF NamedSnapshot
<1>3. NamedClosed' = UNION {InSegment(Closing[s]) : s \in DOMAIN Closing}
  BY <1>1 DEF NamedClosed, InSegment, SeqRange
<1>4. DOMAIN Closing = DOMAIN manifest.closed \cup {manifest.open}
  BY DEF Closing
<1>5. /\ Closing[manifest.open] = Open
      /\ \A s \in DOMAIN manifest.closed : Closing[s] = manifest.closed[s]
  BY <1>1 DEF Closing
<1> HIDE DEF Closing
<1>6. ASSUME NEW r \in NamedClosed' PROVE r \in NamedClosed \cup InSegment(Open)
  <2>1. PICK s \in DOMAIN Closing : r \in InSegment(Closing[s])
    BY <1>3
  <2> QED
    BY <1>4, <1>5, <2>1 DEF NamedClosed
<1>7. ASSUME NEW r \in NamedClosed \cup InSegment(Open) PROVE r \in NamedClosed'
  <2>1. CASE r \in InSegment(Open)
    BY <1>3, <1>4, <1>5, <2>1
  <2>2. CASE r \in NamedClosed
    <3>1. PICK s \in DOMAIN manifest.closed : r \in InSegment(manifest.closed[s])
      BY <2>2 DEF NamedClosed
    <3> QED
      BY <1>3, <1>4, <1>5, <3>1
  <2> QED
    BY <2>1, <2>2
<1> QED
  BY <1>2, <1>6, <1>7 DEF Named

\* A manifest with the snapshot and the closed segments of the last.
LEMMA SealingSameNames ==
  ASSUME Sealing, manifest'.snap = manifest.snap, manifest'.closed = manifest.closed,
         UNCHANGED <<snapshot, seg, sealed>>, step' \notin {"unlink", "save"}
  PROVE  Sealing'
<1>1. Named' = Named
  BY DEF Named, NamedSnapshot, NamedClosed, InSegment, SeqRange
<1> QED
  BY <1>1 DEF Sealing

\* Versions sealed stay sealed when the manifest names more.
LEMMA SealingGrows ==
  ASSUME History, Sealing, NEW S, Named \subseteq S, NEW k \in Items
  PROVE  sealed[k] <= Latest(S)[k]
<1>1. Latest(Named)[k] <= Latest(S)[k]
  BY LatestGrows
<1>2. Latest(Named) \in [Items -> 0..Last] /\ Latest(S) \in [Items -> 0..Last]
  BY LatestType
<1>3. Latest(Named)[k] \in 0..Last /\ Latest(S)[k] \in 0..Last /\ sealed[k] \in 0..Last
  BY <1>2 DEF History
<1>4. sealed[k] <= Latest(Named)[k]
  BY DEF Sealing
<1> QED
  BY <1>1, <1>3, <1>4, JournalAssumption

\* The manifest keeps naming what was sealed at every step.
LEMMA SealingNext ==
  ASSUME Shape, LegacyFirst, Sealing, [Next]_vars
  PROVE  Sealing'
<1>1. /\ Disk /\ History /\ Room
      /\ \A s \in DOMAIN manifest.closed : s \in Segments /\ s # manifest.open
  BY ManifestParts DEF Shape, Disk, Segments
<1>2. CASE UNCHANGED vars
  BY <1>2, SealingQuiet DEF vars
<1>3. CASE Read \/ WriteLine \/ FillSegment \/ Unlink \/ UnlinkDone \/ Refuse \/ Fault \/ Crash
  <2>1. UNCHANGED <<manifest, snapshot, sealed>>
    BY <1>3
    DEF Read, Load, Truncate, Rewrite, WriteLine, FillSegment, Unlink, UnlinkDone, Refuse,
        Fault, ReplaceFault, LineFault, UnlinkFault, RewriteFault, Crash, disk
  <2>2. CASE Unlink
    <3>1. \A s \in DOMAIN manifest.closed : seg'[s] = seg[s] \/ seg'[s] = None
      BY <1>1, <2>2 DEF Unlink, Disk
    <3>2. step = "unlink"
      BY <2>2 DEF Unlink
    <3> QED
      BY <2>1, <3>1, <3>2, SealingQuiet
  <2>3. CASE UnlinkDone \/ Refuse \/ Load \/ ReplaceFault \/ UnlinkFault
    <3>1. UNCHANGED seg
      BY <2>3 DEF UnlinkDone, Refuse, Load, ReplaceFault, UnlinkFault, disk
    <3>2. step \in {"unlink", "save"} \/ step' \notin {"unlink", "save"}
      BY <2>3 DEF UnlinkDone, Refuse, Load, ReplaceFault, UnlinkFault, Raise
    <3> QED
      BY <2>1, <3>1, <3>2, SealingQuiet
  <2>4. CASE Truncate \/ Rewrite \/ WriteLine \/ FillSegment \/ LineFault \/ RewriteFault \/ Crash
    <3>1. \A s \in Segments : s # manifest.open => seg'[s] = seg[s]
      <4>1. CASE Truncate
        <5>1. manifest.open \in Segments
          BY <1>1, <4>1, PartialLine DEF Truncate
        <5> QED
          BY <4>1, <5>1, OpenWrites DEF Truncate, Write
      <4>2. CASE Rewrite
        BY <4>2, OpenWrites DEF Rewrite, Write
      <4>3. CASE WriteLine \/ FillSegment
        BY <4>3, OpenWrites DEF WriteLine, FillSegment
      <4>4. CASE LineFault \/ RewriteFault
        BY <4>4, OpenWrites DEF LineFault, RewriteFault
      <4>5. CASE Crash
        <5>1. \/ step = "line" /\ Torn
              \/ step = "truncated" /\ RewritePrefix
              \/ UNCHANGED seg
          BY <4>5 DEF Crash
        <5> QED
          BY <5>1, OpenWrites
      <4> QED
        BY <2>4, <4>1, <4>2, <4>3, <4>4, <4>5
    <3>2. step' \notin {"unlink", "save"}
      BY <2>4
      DEF Truncate, Rewrite, WriteLine, FillSegment, LineFault, RewriteFault, Crash,
          Return, Raise, GoOn
    <3> QED
      BY <1>1, <2>1, <3>1, <3>2, SealingQuiet
  <2> QED
    BY <1>3, <2>2, <2>3, <2>4 DEF Read, Fault
<1>4. ASSUME NEW k \in Items, StartAppend(k) PROVE Sealing'
  <2>1. UNCHANGED <<manifest, snapshot, sealed, seg>> /\ step' \notin {"unlink", "save"}
    BY <1>4 DEF StartAppend, disk
  <2> QED
    BY <2>1, SealingQuiet
<1>5. CASE FoldLegacy
  <2>1. manifest.snap = None
    BY <1>5 DEF FoldLegacy, LegacyFirst
  <2>2. UNCHANGED <<manifest, seg, sealed>> /\ step' = "legacySave"
    BY <1>5 DEF FoldLegacy, GoOn
  <2>3. Named' = Named
    BY <2>2 DEF Named, NamedSnapshot, NamedClosed
  <2> QED
    BY <2>1, <2>2, <2>3 DEF Sealing
<1>6. CASE SaveLegacy
  <2>1. manifest.snap = None /\ manifest.closed = <<>>
    BY <1>6 DEF SaveLegacy, LegacyFirst
  <2>2. manifest'.snap = snapshot /\ manifest'.closed = <<>>
    BY <1>6, <2>1, ManifestWrites
  <2>3. UNCHANGED <<snapshot, seg, sealed>> /\ step' = "line"
    BY <1>6 DEF SaveLegacy, GoOn
  <2>4. NamedSnapshot' = (IF snapshot = None THEN {} ELSE snapshot)
    BY <2>2 DEF NamedSnapshot
  <2>5. Named = {}
    BY <2>1, ClosingsChange DEF Named, NamedSnapshot, NamedClosed
  <2>6. \A k \in Items : sealed'[k] <= Latest(Named')[k]
    BY <1>1, <2>3, <2>5, SealingGrows
  <2>7. manifest'.snap # None => snapshot' \subseteq Named'
    BY <2>2, <2>3, <2>4 DEF Named
  <2> QED
    BY <2>2, <2>3, <2>6, <2>7, ClosingsChange DEF Sealing
<1>7. CASE MarkLegacy
  BY <1>7, ManifestWrites, SealingSameNames DEF MarkLegacy, GoOn
<1>8. CASE WriteStub
  BY <1>8, SealingSameNames DEF WriteStub, GoOn
<1>9. CASE CreateManifest
  <2>1. manifest' = [manifest EXCEPT !.open = 1]
    BY <1>9 DEF CreateManifest
  <2>2. manifest'.snap = manifest.snap /\ manifest'.closed = manifest.closed
    <3>1. manifest' = [open |-> 1, closed |-> manifest.closed,
                       snap |-> manifest.snap, folded |-> manifest.folded]
      BY <1>1, <2>1, ManifestChanges DEF Disk
    <3> QED
      BY <3>1
  <2> QED
    BY <1>9, <2>2, SealingSameNames DEF CreateManifest, GoOn
<1>10. CASE Close
  <2>1. Named' = Named \cup InSegment(Open)
    BY <1>10, CloseNames
  <2>2. manifest'.closed = Closing /\ manifest'.snap = manifest.snap
    BY <1>10, RotationWrites
  <2>3. /\ UNCHANGED <<snapshot, seg>> /\ step' = "fold"
        /\ sealed' = Latest(InSnapshot \cup InClosed \cup InSegment(Open))
    BY <1>10 DEF Close, GoOn
  <2>4. \A k \in Items : sealed'[k] <= Latest(Named')[k]
    <3>1. InSnapshot \cup InClosed \cup InSegment(Open) \subseteq Named'
      BY <1>1, <2>1, NamedFiles DEF Named
    <3> QED
      BY <2>3, <3>1, LatestGrows
  <2>5. \A s \in DOMAIN Closing : seg[s] \in {None, Closing[s]}
    <3>1. manifest.open \in Segments
      BY <1>1, <1>10 DEF Close, Room, Filed
    <3>2. seg[manifest.open] \in {None, Open}
      BY <3>1 DEF Open, Content
    <3> QED
      BY <1>1, <3>2 DEF Closing, Sealing
  <2> HIDE DEF Closing
  <2> QED
    BY <2>1, <2>2, <2>3, <2>4, <2>5 DEF Sealing
<1>11. CASE Fold
  <2>1. snapshot' = Reduced(Named) /\ Named \subseteq Records
    BY <1>1, <1>11, NamedFiles, RecordSets DEF Fold, Named
  <2>2. UNCHANGED <<manifest, seg, sealed>>
    BY <1>11 DEF Fold
  <2>3. Named' = Named
    BY <2>2 DEF Named, NamedSnapshot, NamedClosed
  <2>4. Reduced(Named) \subseteq Named /\ Latest(Reduced(Named) \cup {}) = Latest(Named \cup {})
    BY <2>1, ReducedLatest
  <2>5. snapshot' \subseteq Named' /\ Latest(snapshot') = Latest(Named')
    BY <2>1, <2>3, <2>4
  <2>6. snapshot' # None
    <3>1. snapshot' \in SUBSET Records
      BY <2>1, <2>4
    <3> QED
      BY <3>1, JournalAssumption
  <2> QED
    BY <2>2, <2>3, <2>5, <2>6 DEF Sealing
<1>12. CASE SaveFold
  <2>1. manifest'.closed = <<>> /\ manifest'.snap = snapshot
    BY <1>12, RotationWrites
  <2>2. UNCHANGED <<snapshot, seg, sealed>> /\ step' = "idle" /\ step = "save"
    BY <1>12 DEF SaveFold, Return
  <2>3. snapshot # None /\ snapshot \subseteq Named /\ Latest(snapshot) = Latest(Named)
    BY <2>2 DEF Sealing
  <2>4. Named' = snapshot
    <3>1. NamedClosed' = {}
      BY <2>1, ClosingsChange DEF NamedClosed
    <3> QED
      BY <2>1, <2>3, <3>1 DEF Named, NamedSnapshot
  <2> QED
    BY <2>1, <2>2, <2>3, <2>4, ClosingsChange DEF Sealing
<1> QED
  BY <1>2, <1>3, <1>4, <1>5, <1>6, <1>7, <1>8, <1>9, <1>10, <1>11, <1>12 DEF Next, AppendStep

\* What the manifest names has everything that was sealed.
LEMMA SealingInvariant == Spec => [](Shape /\ LegacyFirst /\ Sealing)
<1>1. Init => LegacyFirst /\ Sealing
  <2> SUFFICES ASSUME Init PROVE LegacyFirst /\ Sealing
    OBVIOUS
  <2>1. /\ manifest.snap = None /\ manifest.closed = <<>> /\ manifest.open = 0
        /\ step = "idle" /\ sealed = Latest({})
    BY DEF Init, NoManifest
  <2>2. Named = {}
    BY <2>1, ClosingsChange DEF Named, NamedSnapshot, NamedClosed
  <2>3. \A k \in Items : sealed[k] <= Latest(Named)[k]
    BY <2>1, <2>2, LatestGrows
  <2> QED
    BY <2>1, <2>3, ClosingsChange DEF LegacyFirst, Sealing, Filed
<1>2. Shape /\ LegacyFirst /\ Sealing /\ [Next]_vars => LegacyFirst' /\ Sealing'
  BY LegacyFirstNext, SealingNext
<1> QED
  BY <1>1, <1>2, ShapeInvariant, PTL DEF Spec

\* The journal fails closed, whatever windows, kills and failed writes hit it: a
\* read that passes the digests of _load_snapshot and _read_closed_segment and
\* the checks of the lines has every version that rotate once closed a segment on.
THEOREM JournalFailsClosed == Spec => []FailsClosed
<1>1. Shape /\ Sealing => FailsClosed
  <2> SUFFICES ASSUME Shape, Sealing, Loads, NEW k \in Items
               PROVE  sealed[k] <= Stored[k]
    BY DEF FailsClosed
  <2>1. Disk /\ History /\ Verified
    BY DEF Shape, Loads
  <2>2. Named = InSnapshot \cup InClosed
    BY <2>1, NamedFiles DEF Named
  <2>3. Named \subseteq InLegacy \cup InSnapshot \cup InClosed \cup InSegment(Open)
    BY <2>2
  <2> QED
    BY <2>1, <2>3, SealingGrows DEF Stored
<1> QED
  BY <1>1, SealingInvariant, PTL
=============================================================================
