------------------------ MODULE JournalDurableProofs ------------------------
(***************************************************************************)
(* What holds of the journal outside its windows, when a store reads again *)
(* after an append that failed: it can always be read, its open segment    *)
(* stays within its limit, and it implements DurableLog.  Theorems name    *)
(* that assumption, Disciplined; Journal.tla has the runs that show what   *)
(* each window does.                                                       *)
(***************************************************************************)
EXTENDS JournalProofs

-----------------------------------------------------------------------------
(* Outside the windows *)

\* A store that reads again after a failed append, and none of the three windows.
Disciplined == Reloads /\ Windows = {}

\* What files hold between and during operations then: digests agree but while
\* a fold replaces what the manifest names; an append starts on whole lines; the
\* segment after the open one does not exist yet.
Files ==
  /\ step \in Appending => loaded
  /\ loaded => Open.tail = None /\ step # "truncated"
  /\ Open.tail \notin Records
  /\ \A s \in Segments : s > manifest.open => seg[s] = None
  /\ step \in {"fold", "unlink", "save", "truncated"} => Open = Empty
  /\ step = "close" => seg[manifest.open] # None
  /\ step \notin {"unlink", "save"} => Verified
  /\ step = "legacySave" => snapshot = legacyFile
  /\ OpenReadable

\* A segment that does not exist is empty; one that does is its content.
LEMMA OpenIs ==
  ASSUME Disk
  PROVE  /\ manifest.open = 0 => Open = Empty
         /\ manifest.open \in Segments /\ seg[manifest.open] = None => Open = Empty
         /\ manifest.open \in Segments /\ seg[manifest.open] # None => Open = seg[manifest.open]
BY JournalAssumption DEF Open, Content, Segments

\* What is written to the open segment is what it holds; digests still agree.
LEMMA WrittenOpen ==
  ASSUME Disk, NEW c \in File, manifest.open \in Segments, Write(c),
         UNCHANGED <<manifest, snapshot>>
  PROVE  /\ Open' = c /\ seg'[manifest.open] # None
         /\ \A s \in DOMAIN manifest.closed : seg'[s] = seg[s] /\ Content(s)' = Content(s)
         /\ \A s \in Segments : s > manifest.open => seg'[s] = seg[s]
         /\ Verified => Verified'
<1>1. /\ seg'[manifest.open] = c
      /\ \A s \in Segments : s # manifest.open => seg'[s] = seg[s]
  BY WriteChanges
<1>2. \A s \in DOMAIN manifest.closed : s \in Segments /\ s # manifest.open
  BY ManifestParts DEF Disk, Segments
<1>3. c # None
  BY JournalAssumption
<1>4. Open' = c
  BY <1>1, <1>3 DEF Open, Content
<1>5. \A s \in DOMAIN manifest.closed : seg'[s] = seg[s] /\ Content(s)' = Content(s)
  BY <1>1, <1>2 DEF Content
<1>6. \A s \in Segments : s > manifest.open => seg'[s] = seg[s]
  BY <1>1, <1>2 DEF Segments
<1>7. Verified => Verified'
  BY <1>5 DEF Verified
<1> QED
  BY <1>1, <1>3, <1>4, <1>5, <1>6, <1>7

\* The lines of an extended and of an empty file.
LEMMA LinesRead ==
  /\ SeqRange(Empty.lines) = {}
  /\ \A c \in File, r \in Records :
       c.tail = None =>
         /\ Extended(c, r).lines = Append(c.lines, r) /\ Extended(c, r).tail = None
         /\ SeqRange(Extended(c, r).lines) = SeqRange(c.lines) \cup {r}
<1>1. SeqRange(Empty.lines) = {}
  BY FileEmpty DEF SeqRange
<1>2. ASSUME NEW c \in File, NEW r \in Records, c.tail = None
      PROVE  /\ Extended(c, r).lines = Append(c.lines, r) /\ Extended(c, r).tail = None
             /\ SeqRange(Extended(c, r).lines) = SeqRange(c.lines) \cup {r}
  <2>1. Extended(c, r).lines = Append(c.lines, r) /\ Extended(c, r).tail = None
    BY <1>2 DEF Extended
  <2> DEFINE q == c.lines
  <2>2. q \in Seq(Lines) /\ r \in Lines
    BY FileFields DEF Lines
  <2> HIDE DEF q
  <2>3. SeqRange(Append(q, r)) = SeqRange(q) \cup {r}
    <3>1. ASSUME NEW n \in DOMAIN Append(q, r) PROVE Append(q, r)[n] \in SeqRange(q) \cup {r}
      BY <2>2 DEF SeqRange
    <3>2. ASSUME NEW n \in DOMAIN q PROVE q[n] \in SeqRange(Append(q, r))
      <4>1. n \in DOMAIN Append(q, r) /\ Append(q, r)[n] = q[n]
        BY <2>2
      <4> QED
        BY <4>1 DEF SeqRange
    <3>3. r \in SeqRange(Append(q, r))
      <4>1. Len(q) + 1 \in DOMAIN Append(q, r) /\ Append(q, r)[Len(q) + 1] = r
        BY <2>2
      <4> QED
        BY <4>1 DEF SeqRange
    <3> QED
      BY <3>1, <3>2, <3>3 DEF SeqRange
  <2> QED
    BY <2>1, <2>3 DEF q
<1> QED
  BY <1>1, <1>2

\* The lines of the open segment, those a recovery has yet to write back included.
OpenLines == IF step = "truncated" THEN saved ELSE Open.lines
LinesOf(s) == IF s = manifest.open THEN OpenLines ELSE Content(s).lines
Listed == DOMAIN manifest.closed \cup {manifest.open}

\* A later record of the same item has a later version.
Rises(r, t) == r \in Records /\ t \in Records /\ r[1] = t[1] => r[2] < t[2]

\* Versions rise along the snapshot, the closed segments and the open one.
Rising ==
  step \notin {"unlink", "save"} =>
    /\ \A s \in Listed, t \in Listed :
         \A m \in DOMAIN LinesOf(s), n \in DOMAIN LinesOf(t) :
           s < t \/ (s = t /\ m < n) => Rises(LinesOf(s)[m], LinesOf(t)[n])
    /\ \A r \in InSnapshot, t \in Listed :
         \A n \in DOMAIN LinesOf(t) : Rises(r, LinesOf(t)[n])

\* The record of the append under way is on the disk.
Written == step \in {"close", "fold", "unlink", "save"}

\* The store knows what a reader finds; the record being appended is next.
Knowing ==
  /\ Written => Visible = [known EXCEPT ![rec[1]] = rec[2]]
  /\ loaded /\ ~Written => Visible = known
  /\ step \in Appending /\ ~Written => rec[2] = known[rec[1]] + 1

\* The open segment has room but between its last line and its rotation.
Bounded ==
  \/ Len(OpenLines) < SegmentLimit + crashes + faults
  \/ step = "close" /\ Len(OpenLines) <= SegmentLimit + crashes + faults

\* Where the disk is as it was, a reader finds what it did.
LEMMA DiskQuiet ==
  ASSUME UNCHANGED disk
  PROVE  /\ manifest' = manifest /\ seg' = seg /\ snapshot' = snapshot
         /\ legacyFile' = legacyFile
         /\ Open' = Open /\ (Verified => Verified') /\ (OpenReadable => OpenReadable')
         /\ InSnapshot' = InSnapshot /\ InClosed' = InClosed /\ InLegacy' = InLegacy
         /\ \A s : Content(s)' = Content(s)
BY DEF disk, Open, Content, Verified, OpenReadable, InSnapshot, InClosed, InLegacy,
       InSegment, SeqRange

\* Steps that change memory only.
LEMMA FilesQuiet ==
  ASSUME Files, UNCHANGED disk,
         step' \in Appending => loaded',
         loaded' => Open.tail = None /\ step' # "truncated",
         step' \in {"fold", "unlink", "save", "truncated"} => Open = Empty,
         step' \notin {"close", "legacySave"},
         step' \notin {"unlink", "save"} => step \notin {"unlink", "save"}
  PROVE  Files'
BY DiskQuiet DEF Files

\* Reading, and the start of an append.
LEMMA FilesRead ==
  ASSUME Shape, Files, Disciplined, Read \/ \E k \in Items : StartAppend(k)
  PROVE  Files'
<1>1. Disk /\ Memory /\ Open \in File
  BY ContentType DEF Shape
<1>2. CASE Load
  <2>1. Open.tail = None
    BY <1>2, ContentType, <1>1 DEF Load, Files, Lines
  <2> QED
    BY <1>2, <2>1, FilesQuiet DEF Load, Appending, Filed
<1>3. CASE Truncate
  <2>1. manifest.open \in Segments /\ Write(Empty)
    BY <1>1, <1>3, PartialLine DEF Truncate, Write
  <2>2. UNCHANGED <<manifest, snapshot, legacyFile, loaded>> /\ step' = "truncated" /\ step = "idle"
    BY <1>3 DEF Truncate
  <2>3. /\ Open' = Empty
        /\ \A s \in Segments : s > manifest.open => seg'[s] = seg[s]
        /\ Verified => Verified'
    BY <1>1, <2>1, <2>2, FileEmpty, WrittenOpen
  <2>4. ~loaded
    BY <1>3, JournalAssumption DEF Truncate, Files
  <2>5. OpenReadable'
    BY <2>3, LinesRead DEF OpenReadable, SeqRange
  <2> QED
    BY <2>2, <2>3, <2>4, <2>5, FileEmpty, JournalAssumption DEF Files, Appending, Filed
<1>4. CASE Rewrite
  <2> DEFINE c == [lines |-> saved, tail |-> None]
  <2>1. saved \in Seq(Lines)
    BY <1>1 DEF Memory, Lines
  <2>2. c \in File /\ c.lines = saved /\ c.tail = None
    BY <2>1, FileParts
  <2> HIDE DEF c
  <2>3. manifest.open \in Segments /\ Write(c)
    BY <1>4 DEF Rewrite, Shape, Room, Write, c
  <2>4. UNCHANGED <<manifest, snapshot, legacyFile, loaded>> /\ step' = "idle" /\ step = "truncated"
    BY <1>4 DEF Rewrite
  <2>5. /\ Open' = c
        /\ \A s \in Segments : s > manifest.open => seg'[s] = seg[s]
        /\ Verified => Verified'
    BY <1>1, <2>2, <2>3, <2>4, WrittenOpen
  <2>6. Garbage \notin SeqRange(saved)
    BY <1>1, JournalAssumption DEF Memory, SeqRange
  <2>7. OpenReadable'
    BY <2>2, <2>5, <2>6 DEF OpenReadable, SeqRange
  <2> QED
    BY <2>2, <2>4, <2>5, <2>7, JournalAssumption DEF Files, Appending, Filed
<1>5. ASSUME NEW k \in Items, StartAppend(k) PROVE Files'
  <2>1. step' \in {"stub", "legacy", "manifest", "line"} /\ step = "idle"
    BY <1>5 DEF StartAppend
  <2>2. UNCHANGED <<disk, loaded>> /\ loaded
    BY <1>5 DEF StartAppend
  <2> QED
    BY <2>1, <2>2, FilesQuiet DEF Files
<1> QED
  BY <1>2, <1>3, <1>4, <1>5 DEF Read

\* While the manifest has no segment, no segment file exists.
LEMMA FirstSegment ==
  ASSUME Disk, Files
  PROVE  /\ manifest.open = 0 => seg[1] = None /\ Open = Empty
         /\ Content(OpenName) = Open
<1>1. manifest.open = 0 => seg[1] = None /\ Open = Empty
  BY OpenIs, JournalAssumption DEF Files, Segments
<1>2. Content(OpenName) = Open
  BY <1>1 DEF OpenName, Open, Content
<1> QED
  BY <1>1, <1>2

\* Where the manifest and the segments are as they were, the open one is.
LEMMA OpenQuiet ==
  UNCHANGED <<manifest, seg>> =>
    /\ Open' = Open /\ (OpenReadable => OpenReadable')
    /\ InClosed' = InClosed /\ \A s : Content(s)' = Content(s)
BY DEF Open, Content, OpenReadable, InClosed, InSegment, SeqRange

\* The folding of the v1 records and the creation of the manifest.
LEMMA FilesOpening ==
  ASSUME Shape, LegacyFirst, Files,
         FoldLegacy \/ SaveLegacy \/ MarkLegacy \/ WriteStub \/ CreateManifest
  PROVE  Files'
<1>1. /\ Disk /\ Shape' /\ loaded /\ Open.tail = None /\ Verified
      /\ \A s \in DOMAIN manifest.closed : s \in Segments
  BY ShapeOpening, ManifestParts
  DEF Shape, Disk, FoldLegacy, SaveLegacy, MarkLegacy, WriteStub, CreateManifest, Files, Appending, Filed
<1>2. loaded' = loaded /\ seg' = seg
  BY DEF FoldLegacy, SaveLegacy, MarkLegacy, WriteStub, CreateManifest, GoOn
<1>3. CASE FoldLegacy
  <2>1. manifest.snap = None /\ manifest.closed = <<>>
    BY <1>3 DEF FoldLegacy, LegacyFirst
  <2>2. /\ UNCHANGED <<manifest, legacyFile>> /\ snapshot' = legacyFile
        /\ step' = "legacySave"
    BY <1>3 DEF FoldLegacy, GoOn
  <2>3. Verified'
    BY <2>1, <2>2, ClosingsChange DEF Verified
  <2> QED
    BY <1>1, <1>2, <2>2, <2>3, OpenQuiet DEF Files
<1>4. CASE WriteStub
  <2>1. UNCHANGED <<manifest, snapshot>> /\ step' \in {"manifest", "line"}
    BY <1>4 DEF WriteStub, GoOn
  <2>2. Verified'
    BY <1>1, <1>2, <2>1 DEF Verified
  <2> QED
    BY <1>1, <1>2, <2>1, <2>2, OpenQuiet DEF Files
<1>5. CASE SaveLegacy \/ MarkLegacy \/ CreateManifest
  <2>1. snapshot' = snapshot /\ step' = "line"
    BY <1>5 DEF SaveLegacy, MarkLegacy, CreateManifest, GoOn
  <2>2. /\ manifest'.open = OpenName /\ manifest'.closed = manifest.closed
        /\ manifest'.snap # None => snapshot = manifest'.snap
    <3>1. CASE SaveLegacy \/ MarkLegacy
      BY <1>1, <3>1, ManifestWrites DEF Verified
    <3>2. CASE CreateManifest
      <4>1. manifest' = [open |-> 1, closed |-> manifest.closed,
                         snap |-> manifest.snap, folded |-> manifest.folded]
        BY <1>1, <3>2, ManifestChanges DEF CreateManifest, Disk
      <4>2. OpenName = 1
        BY <3>2 DEF CreateManifest, Shape, Room, OpenName
      <4> QED
        BY <1>1, <4>1, <4>2 DEF Verified
    <3> QED
      BY <1>5, <3>1, <3>2
  <2>3. Verified'
    BY <1>1, <1>2, <2>1, <2>2 DEF Verified
  <2>4. Open' = Open
    <3>1. Open' = Content(OpenName)
      BY <1>2, <2>2 DEF Open, Content
    <3> QED
      BY <1>1, <3>1, FirstSegment
  <2>5. manifest.open \in 0..MaxSegments /\ manifest.open <= OpenName
    BY <1>1, ManifestParts, ManifestWrites DEF Disk
  <2>6. OpenName \in Segments
    BY ManifestWrites
  <2>7. \A s \in Segments : s > OpenName => seg[s] = None
    BY <2>5, <2>6 DEF Files, Segments
  <2>8. OpenReadable'
    BY <2>4 DEF Files, OpenReadable, SeqRange
  <2> QED
    BY <1>1, <1>2, <2>1, <2>2, <2>3, <2>4, <2>7, <2>8 DEF Files
<1> QED
  BY <1>3, <1>4, <1>5

\* The line, the rotation and the fold.
LEMMA FilesFiling ==
  ASSUME Shape, Files, Disciplined,
         \/ WriteLine \/ FillSegment \/ Close \/ Fold \/ Unlink \/ UnlinkDone
         \/ SaveFold \/ Refuse
  PROVE  Files'
<1>1. /\ Disk /\ Room /\ Open \in File /\ OpenReadable
      /\ manifest.open \in 0..MaxSegments
      /\ \A s \in DOMAIN manifest.closed : s \in Segments /\ s # manifest.open
  BY ContentType, ManifestParts DEF Shape, Disk, Files, Segments
<1>2. loaded /\ Open.tail = None
  BY DEF WriteLine, FillSegment, Close, Fold, Unlink, UnlinkDone, SaveFold, Refuse,
         Files, Appending, Filed
<1>3. CASE WriteLine \/ FillSegment
  <2>1. rec \in Records /\ manifest.open \in Segments
    BY <1>1, <1>3 DEF WriteLine, FillSegment, Room, Appending, Filed
  <2>2. Extended(Open, rec) \in File /\ Extended(Open, rec).tail = None
        /\ SeqRange(Extended(Open, rec).lines) = SeqRange(Open.lines) \cup {rec}
    BY <1>1, <1>2, <2>1, FileChanges, LinesRead
  <2>3. /\ UNCHANGED <<manifest, snapshot, legacyFile, loaded>> /\ Write(Extended(Open, rec))
        /\ step' \in {"idle", "close"} /\ step = "line"
    BY <1>3 DEF WriteLine, FillSegment, Return, GoOn
  <2> DEFINE c == Extended(Open, rec)
  <2> HIDE DEF c
  <2>4. /\ Open' = c /\ seg'[manifest.open] # None
        /\ \A s \in Segments : s > manifest.open => seg'[s] = seg[s]
        /\ Verified => Verified'
    BY <1>1, <2>1, <2>2, <2>3, WrittenOpen DEF c
  <2>5. OpenReadable'
    <3>1. Garbage \notin SeqRange(c.lines)
      BY <1>1, <2>1, <2>2, JournalAssumption DEF c, OpenReadable
    <3> QED
      BY <2>4, <3>1 DEF OpenReadable, SeqRange
  <2>6. Open'.tail = None
    BY <2>2, <2>4 DEF c
  <2> QED
    BY <1>2, <2>3, <2>4, <2>5, <2>6, JournalAssumption DEF Files
<1>4. CASE Close
  <2>1. /\ manifest'.open = manifest.open + 1 /\ manifest'.open \in Segments
        /\ manifest'.closed = Closing /\ manifest'.snap = manifest.snap
    BY <1>4, RotationWrites
  <2>2. UNCHANGED <<snapshot, seg, loaded>> /\ step' = "fold" /\ step = "close"
    BY <1>4 DEF Close, GoOn
  <2>3. manifest.open \in Segments
    BY <1>1, <2>2 DEF Room, Filed
  <2>4. Open' = Empty
    <3>1. seg[manifest.open + 1] = None
      BY <2>1, <2>3 DEF Files, Segments
    <3> QED
      BY <2>1, <2>2, <3>1 DEF Open, Content
  <2>5. Verified'
    <3>1. seg[manifest.open] = Open
      BY <1>1, <2>2, <2>3, OpenIs DEF Files
    <3>2. Verified
      BY <2>2 DEF Files
    <3>3. \A s \in DOMAIN Closing : seg[s] = Closing[s]
      BY <3>1, <3>2 DEF Closing, Verified
    <3> HIDE DEF Closing
    <3> QED
      BY <2>1, <2>2, <3>2, <3>3 DEF Verified
  <2>6. \A s \in Segments : s > manifest.open + 1 => seg[s] = None
    BY <1>1 DEF Files, Segments
  <2>7. OpenReadable'
    BY <2>4, LinesRead DEF OpenReadable, SeqRange
  <2> QED
    BY <1>2, <2>1, <2>2, <2>4, <2>5, <2>6, <2>7, FileEmpty, JournalAssumption DEF Files
<1>5. CASE Fold
  <2>1. UNCHANGED <<manifest, seg, loaded>> /\ step' = "unlink" /\ step = "fold"
    BY <1>5 DEF Fold, GoOn
  <2> QED
    BY <1>2, <2>1, OpenQuiet DEF Files
<1>6. CASE Unlink
  <2>1. UNCHANGED <<manifest, loaded>> /\ step' = "unlink" /\ step = "unlink"
    BY <1>6 DEF Unlink, GoOn
  <2>2. PICK s \in DOMAIN manifest.closed : seg' = [seg EXCEPT ![s] = None]
    BY <1>6 DEF Unlink
  <2>3. Open' = Open
    BY <1>1, <2>1, <2>2 DEF Open, Content, Disk
  <2>4. \A t \in Segments : t > manifest.open => seg'[t] = None
    BY <1>1, <2>2 DEF Files, Disk
  <2>5. OpenReadable'
    BY <1>1, <2>3 DEF OpenReadable, SeqRange
  <2> QED
    BY <1>2, <2>1, <2>3, <2>4, <2>5 DEF Files
<1>7. CASE UnlinkDone
  <2>1. UNCHANGED <<disk, loaded>> /\ step' = "save" /\ step = "unlink"
    BY <1>7 DEF UnlinkDone, GoOn
  <2> QED
    BY <1>2, <2>1, FilesQuiet DEF Files
<1>8. CASE SaveFold
  <2>1. manifest'.open = manifest.open /\ manifest'.closed = <<>> /\ manifest'.snap = snapshot
    BY <1>8, RotationWrites
  <2>2. UNCHANGED <<snapshot, seg, loaded>> /\ step' = "idle" /\ step = "save"
    BY <1>8 DEF SaveFold, Return
  <2>3. Open' = Open
    BY <2>1, <2>2 DEF Open, Content
  <2>4. Verified'
    BY <2>1, <2>2, ClosingsChange DEF Verified
  <2>5. OpenReadable'
    BY <1>1, <2>3 DEF OpenReadable, SeqRange
  <2> QED
    BY <1>2, <2>1, <2>2, <2>3, <2>4, <2>5 DEF Files
<1>9. ~Refuse
  BY <1>1 DEF Refuse, Files
<1> QED
  BY <1>3, <1>4, <1>5, <1>6, <1>7, <1>8, <1>9

\* A failed write or a kill leaves no operation under way, an empty memory and,
\* of the line it cut short, nothing, a part or all.
LEMMA Interrupted ==
  ASSUME Shape, Files, Disciplined, Fault \/ Crash
  PROVE  /\ step \notin {"unlink", "save", "truncated"}
         /\ UNCHANGED <<manifest, snapshot, legacyFile, acked>>
         /\ step' = "idle" /\ loaded' = FALSE
         /\ crashes' + faults' = crashes + faults + 1
         /\ \/ UNCHANGED seg
            \/ step = "line" /\ (Write(Partial(Open)) \/ Write(Extended(Open, rec)))
<1>1. crashes \in Nat /\ faults \in Nat /\ loaded \in BOOLEAN
  BY DEF Shape, Bounds, Memory
<1>2. Raise => step' = "idle" /\ loaded' = FALSE
  BY <1>1 DEF Raise, Disciplined
<1>3. Torn => UNCHANGED seg \/ Write(Partial(Open)) \/ Write(Extended(Open, rec))
  BY DEF Torn, Disciplined
<1>4. CASE ReplaceFault
  BY <1>1, <1>2, <1>4 DEF ReplaceFault, WriteFails, Disciplined, disk
<1>5. CASE LineFault
  BY <1>1, <1>2, <1>3, <1>5 DEF LineFault, WriteFails
<1>6. ~UnlinkFault /\ ~RewriteFault
  BY DEF UnlinkFault, RewriteFault, Disciplined
<1>7. CASE Crash
  <2>1. step \notin {"unlink", "save", "truncated"}
    BY <1>7 DEF Crash, Disciplined
  <2>2. UNCHANGED seg \/ (step = "line" /\ Torn)
    BY <1>7, <2>1 DEF Crash
  <2> QED
    BY <1>1, <1>3, <1>7, <2>1, <2>2 DEF Crash
<1> QED
  BY <1>4, <1>5, <1>6, <1>7 DEF Fault

\* What a line cut short makes of the open segment.
LEMMA TornOpen ==
  ASSUME Shape, Files, step = "line", UNCHANGED <<manifest, snapshot>>,
         Write(Partial(Open)) \/ Write(Extended(Open, rec))
  PROVE  /\ rec \in Records /\ manifest.open \in Segments
         /\ Open \in File /\ Open.tail = None
         /\ \/ Open'.lines = Open.lines /\ Open'.tail = Garbage
            \/ Open' = Extended(Open, rec)
         /\ \A s \in Segments : s > manifest.open => seg'[s] = seg[s]
         /\ \A s \in DOMAIN manifest.closed : Content(s)' = Content(s)
         /\ Verified => Verified'
<1>1. Disk /\ Open \in File /\ rec \in Records /\ manifest.open \in Segments
  BY ContentType DEF Shape, Room, Appending, Filed
<1>2. Open.tail = None
  BY DEF Files, Appending, Filed
<1>3. Partial(Open) \in File /\ Extended(Open, rec) \in File
      /\ Partial(Open).lines = Open.lines /\ Partial(Open).tail = Garbage
  BY <1>1, FileChanges
<1>4. CASE Write(Partial(Open))
  <2> DEFINE c == Partial(Open)
  <2>1. c \in File /\ Write(c) /\ c.lines = Open.lines /\ c.tail = Garbage
    BY <1>3, <1>4
  <2> HIDE DEF c
  <2>2. /\ Open' = c
        /\ \A s \in DOMAIN manifest.closed : Content(s)' = Content(s)
        /\ \A s \in Segments : s > manifest.open => seg'[s] = seg[s]
        /\ Verified => Verified'
    BY <1>1, <2>1, WrittenOpen
  <2> QED
    BY <1>1, <1>2, <2>1, <2>2
<1>5. CASE Write(Extended(Open, rec))
  <2> DEFINE c == Extended(Open, rec)
  <2>1. c \in File /\ Write(c)
    BY <1>3, <1>5
  <2> HIDE DEF c
  <2>2. /\ Open' = c
        /\ \A s \in DOMAIN manifest.closed : Content(s)' = Content(s)
        /\ \A s \in Segments : s > manifest.open => seg'[s] = seg[s]
        /\ Verified => Verified'
    BY <1>1, <2>1, WrittenOpen
  <2> QED
    BY <1>1, <1>2, <2>2 DEF c
<1> QED
  BY <1>4, <1>5

\* Faults and kills.
LEMMA FilesFault ==
  ASSUME Shape, Files, Disciplined, Fault \/ Crash
  PROVE  Files'
<1>1. /\ step \notin {"unlink", "save", "truncated"}
      /\ UNCHANGED <<manifest, snapshot, legacyFile, acked>>
      /\ step' = "idle" /\ loaded' = FALSE
      /\ \/ UNCHANGED seg
         \/ step = "line" /\ (Write(Partial(Open)) \/ Write(Extended(Open, rec)))
  BY Interrupted
<1>2. CASE UNCHANGED seg
  <2>1. UNCHANGED disk
    BY <1>1, <1>2 DEF disk
  <2> QED
    BY <1>1, <2>1, FilesQuiet DEF Appending, Filed
<1>3. CASE step = "line" /\ (Write(Partial(Open)) \/ Write(Extended(Open, rec)))
  <2>1. /\ rec \in Records /\ manifest.open \in Segments
        /\ Open \in File /\ Open.tail = None
        /\ \/ Open'.lines = Open.lines /\ Open'.tail = Garbage
           \/ Open' = Extended(Open, rec)
        /\ \A s \in Segments : s > manifest.open => seg'[s] = seg[s]
        /\ Verified => Verified'
    BY <1>1, <1>3, TornOpen
  <2>2. /\ Extended(Open, rec).tail = None
        /\ SeqRange(Extended(Open, rec).lines) = SeqRange(Open.lines) \cup {rec}
    BY <2>1, LinesRead
  <2>3. Open'.tail \notin Records
    BY <2>1, <2>2, JournalAssumption
  <2>4. OpenReadable'
    <3>1. Garbage \notin SeqRange(Open'.lines)
      BY <2>1, <2>2, JournalAssumption DEF Files, OpenReadable
    <3> QED
      BY <3>1 DEF OpenReadable, SeqRange
  <2>5. Verified'
    BY <1>3, <2>1 DEF Files
  <2>6. \A s \in Segments : s > manifest'.open => seg'[s] = None
    BY <1>1, <2>1 DEF Files
  <2>7. /\ step' \notin Appending
        /\ step' \notin {"fold", "unlink", "save", "truncated", "close", "legacySave"}
    BY <1>1 DEF Appending, Filed
  <2> QED
    BY <1>1, <2>3, <2>4, <2>5, <2>6, <2>7 DEF Files
<1> QED
  BY <1>1, <1>2, <1>3

\* All a reader finds while every file is what the manifest names.
Whole == InLegacy \cup InSnapshot \cup InClosed \cup InSegment(Open)

\* What a reader finds, by the step under way.
LEMMA Seen ==
  /\ step \notin {"unlink", "save", "truncated"} => Visible = Latest(Whole)
  /\ step \in {"unlink", "save"} => Visible = Latest(snapshot \cup InSegment(Open))
  /\ step = "truncated" =>
       Visible = Latest(InLegacy \cup InSnapshot \cup InClosed \cup SeqRange(saved))
BY DEF Visible, Stored, Whole

\* ... and after the next step.
LEMMA SeenNext ==
  /\ step' \notin {"unlink", "save", "truncated"} => Visible' = Latest(Whole')
  /\ step' \in {"unlink", "save"} => Visible' = Latest(snapshot' \cup InSegment(Open)')
  /\ step' = "truncated" =>
       Visible' = Latest(InLegacy' \cup InSnapshot' \cup InClosed' \cup SeqRange(saved'))
<1>1. \A R : Latest(R)' = Latest(R)
  BY DEF Latest
<1> QED
  BY DEF Visible, Stored, Whole, Latest, SeqRange

\* The records of a file without a record at its end.
LEMMA SegmentRecords ==
  /\ InSegment(Empty) = {}
  /\ \A c : c.tail \notin Records => InSegment(c) = SeqRange(c.lines) \cap Records
  /\ \A c \in File, r \in Records :
       c.tail = None => InSegment(Extended(c, r)) = InSegment(c) \cup {r}
<1>1. \A c : c.tail \notin Records => InSegment(c) = SeqRange(c.lines) \cap Records
  BY DEF InSegment
<1>2. InSegment(Empty) = {}
  BY <1>1, LinesRead, FileEmpty, JournalAssumption
<1>3. ASSUME NEW c \in File, NEW r \in Records, c.tail = None
      PROVE  InSegment(Extended(c, r)) = InSegment(c) \cup {r}
  <2>1. /\ Extended(c, r).tail = None
        /\ SeqRange(Extended(c, r).lines) = SeqRange(c.lines) \cup {r}
    BY <1>3, LinesRead
  <2>2. InSegment(Extended(c, r)) = SeqRange(Extended(c, r).lines) \cap Records
    BY <1>1, <2>1, JournalAssumption
  <2>3. InSegment(c) = SeqRange(c.lines) \cap Records
    BY <1>1, <1>3, JournalAssumption
  <2> QED
    BY <2>1, <2>2, <2>3
<1> QED
  BY <1>1, <1>2, <1>3

\* Closed segments that are as they were hold what they did.
LEMMA ClosedKept ==
  ASSUME manifest'.closed = manifest.closed,
         \A s \in DOMAIN manifest.closed : Content(s)' = Content(s)
  PROVE  InClosed' = InClosed
<1>1. \A s \in DOMAIN manifest.closed : InSegment(Content(s))' = InSegment(Content(s))
  BY DEF InSegment, SeqRange
<1> QED
  BY <1>1 DEF InClosed

\* A step on the open segment leaves the rest of what a reader finds.
LEMMA OpenStep ==
  ASSUME UNCHANGED <<manifest, snapshot, legacyFile>>,
         \A s \in DOMAIN manifest.closed : Content(s)' = Content(s)
  PROVE  /\ InLegacy' = InLegacy /\ InSnapshot' = InSnapshot /\ InClosed' = InClosed
         /\ InSegment(Open)' = InSegment(Open')
         /\ Whole' = InLegacy \cup InSnapshot \cup InClosed \cup InSegment(Open')
<1>1. InClosed' = InClosed
  BY ClosedKept
<1>2. InLegacy' = InLegacy /\ InSnapshot' = InSnapshot
  BY DEF InLegacy, InSnapshot
<1>3. InSegment(Open)' = InSegment(Open')
  BY DEF InSegment, SeqRange
<1> QED
  BY <1>1, <1>2, <1>3 DEF Whole

\* Reading, and the start of an append, change nothing that a reader finds.
LEMMA SeenRead ==
  ASSUME Shape, Files, Read \/ \E k \in Items : StartAppend(k)
  PROVE  Visible' = Visible
<1>1. Disk /\ Memory
  BY DEF Shape
<1>2. CASE Load \/ \E k \in Items : StartAppend(k)
  <2>1. UNCHANGED disk /\ step = "idle" /\ step' \in {"idle", "stub", "legacy", "manifest", "line"}
    BY <1>2 DEF Load, StartAppend
  <2>2. Whole' = Whole
    BY <2>1, DiskQuiet DEF Whole, InSegment, SeqRange
  <2> QED
    BY <2>1, <2>2, Seen, SeenNext
<1>3. CASE Truncate
  <2>1. manifest.open \in Segments /\ Write(Empty) /\ saved' \in Seq(Records)
    BY <1>1, <1>3, PartialLine DEF Truncate, Write
  <2>2. UNCHANGED <<manifest, snapshot, legacyFile>> /\ step' = "truncated" /\ step = "idle"
        /\ saved' = Open.lines
    BY <1>3 DEF Truncate
  <2>3. \A s \in DOMAIN manifest.closed : Content(s)' = Content(s)
    BY <1>1, <2>1, <2>2, FileEmpty, WrittenOpen
  <2>4. InSegment(Open) = SeqRange(saved')
    <3>1. SeqRange(saved') \subseteq Records
      BY <2>1 DEF SeqRange
    <3>2. InSegment(Open) = SeqRange(Open.lines) \cap Records
      BY SegmentRecords DEF Files
    <3> QED
      BY <2>2, <3>1, <3>2
  <2>5. InLegacy' = InLegacy /\ InSnapshot' = InSnapshot /\ InClosed' = InClosed
    BY <2>2, <2>3, OpenStep
  <2> QED
    BY <2>2, <2>4, <2>5, Seen, SeenNext DEF Whole
<1>4. CASE Rewrite
  <2> DEFINE c == [lines |-> saved, tail |-> None]
  <2>1. saved \in Seq(Lines)
    BY <1>1 DEF Memory, Lines
  <2>2. c \in File /\ c.lines = saved /\ c.tail = None
    BY <2>1, FileParts
  <2> HIDE DEF c
  <2>3. manifest.open \in Segments /\ Write(c)
    BY <1>4 DEF Rewrite, Shape, Room, Write, c
  <2>4. UNCHANGED <<manifest, snapshot, legacyFile>> /\ step' = "idle" /\ step = "truncated"
    BY <1>4 DEF Rewrite
  <2>5. Open' = c /\ \A s \in DOMAIN manifest.closed : Content(s)' = Content(s)
    BY <1>1, <2>2, <2>3, <2>4, WrittenOpen
  <2>6. InSegment(c) = SeqRange(saved)
    <3>1. SeqRange(saved) \subseteq Records
      BY <1>1 DEF Memory, SeqRange
    <3>2. InSegment(c) = SeqRange(c.lines) \cap Records
      BY <2>2, SegmentRecords, JournalAssumption
    <3> QED
      BY <2>2, <3>1, <3>2
  <2>7. Whole' = InLegacy \cup InSnapshot \cup InClosed \cup SeqRange(saved)
    BY <2>4, <2>5, <2>6, OpenStep
  <2> QED
    BY <2>4, <2>7, Seen, SeenNext
<1> QED
  BY <1>2, <1>3, <1>4 DEF Read

\* ... and so do the steps that come before the line.
LEMMA SeenOpening ==
  ASSUME Shape, LegacyFirst, Files,
         FoldLegacy \/ SaveLegacy \/ MarkLegacy \/ WriteStub \/ CreateManifest
  PROVE  Visible' = Visible
<1>1. Disk /\ seg' = seg
  BY DEF Shape, FoldLegacy, SaveLegacy, MarkLegacy, WriteStub, CreateManifest
<1>2. /\ step \notin {"unlink", "save", "truncated"}
      /\ step' \notin {"unlink", "save", "truncated"}
  BY DEF FoldLegacy, SaveLegacy, MarkLegacy, WriteStub, CreateManifest, GoOn
<1>3. \A s : Content(s)' = Content(s)
  BY <1>1 DEF Content
<1>4. /\ manifest'.open \in {manifest.open, OpenName} /\ manifest'.closed = manifest.closed
      /\ InLegacy' \cup InSnapshot' = InLegacy \cup InSnapshot
  <2>1. CASE FoldLegacy
    <3>1. manifest.snap = None /\ UNCHANGED <<manifest, legacyFile>>
      BY <2>1 DEF FoldLegacy, LegacyFirst
    <3> QED
      BY <3>1 DEF InLegacy, InSnapshot
  <2>2. CASE SaveLegacy
    <3>1. manifest.snap = None /\ ~manifest.folded /\ legacyFile = snapshot
          /\ UNCHANGED <<legacyFile, snapshot>>
      BY <2>2 DEF SaveLegacy, LegacyFirst, Files
    <3>2. /\ manifest'.open = OpenName /\ manifest'.closed = manifest.closed
          /\ manifest'.snap = snapshot /\ manifest'.folded = TRUE
      BY <2>2, ManifestWrites
    <3> QED
      BY <3>1, <3>2 DEF InLegacy, InSnapshot
  <2>3. CASE MarkLegacy
    <3>1. legacyFile = {} /\ UNCHANGED <<legacyFile, snapshot>>
      BY <2>3 DEF MarkLegacy
    <3>2. /\ manifest'.open = OpenName /\ manifest'.closed = manifest.closed
          /\ manifest'.snap = manifest.snap
      BY <2>3, ManifestWrites
    <3> QED
      BY <3>1, <3>2 DEF InLegacy, InSnapshot
  <2>4. CASE WriteStub
    <3>1. legacyFile' = {} /\ UNCHANGED <<manifest, snapshot>>
      BY <2>4 DEF WriteStub
    <3>2. legacyFile = None
      BY <2>4 DEF WriteStub, Room, Shape
    <3> QED
      BY <3>1, <3>2 DEF InLegacy, InSnapshot
  <2>5. CASE CreateManifest
    <3>1. manifest' = [open |-> 1, closed |-> manifest.closed,
                       snap |-> manifest.snap, folded |-> manifest.folded]
      BY <1>1, <2>5, ManifestChanges DEF CreateManifest, Disk
    <3>2. OpenName = 1 /\ UNCHANGED <<legacyFile, snapshot>>
      BY <2>5 DEF CreateManifest, Shape, Room, OpenName
    <3> QED
      BY <3>1, <3>2 DEF InLegacy, InSnapshot
  <2> QED
    BY <2>1, <2>2, <2>3, <2>4, <2>5
<1>5. Open' = Open
  <2>1. Content(manifest'.open) = Open
    BY <1>1, <1>4, FirstSegment DEF Open
  <2> QED
    BY <1>1, <2>1 DEF Open, Content
<1>6. InClosed' = InClosed
  BY <1>3, <1>4, ClosedKept
<1>7. Whole' = Whole
  BY <1>4, <1>5, <1>6 DEF Whole, InSegment, SeqRange
<1> QED
  BY <1>2, <1>7, Seen, SeenNext

\* A whole line moves one item to its next version, and nothing else.
LEMMA SeenLine ==
  ASSUME Shape, Files, Knowing, step = "line",
         UNCHANGED <<manifest, snapshot, legacyFile>>,
         \A s \in DOMAIN manifest.closed : Content(s)' = Content(s),
         Open' = Extended(Open, rec), step' \in {"idle", "close"}
  PROVE  /\ Visible = known /\ rec[1] \in Items /\ rec[2] = Visible[rec[1]] + 1
         /\ Visible[rec[1]] \in 0..Last /\ Visible[rec[1]] < Last
         /\ Visible' = [Visible EXCEPT ![rec[1]] = rec[2]]
<1>1. /\ Open \in File /\ rec \in Records /\ loaded /\ Open.tail = None
      /\ rec[1] \in Items /\ rec[2] \in 1..Last /\ rec = <<rec[1], rec[2]>>
      /\ known \in [Items -> 0..Last]
  BY ContentType DEF Shape, Room, Appending, Filed, Files, Records, Memory
<1>2. Visible = known /\ rec[2] = known[rec[1]] + 1
  BY <1>1 DEF Knowing, Written, Appending, Filed
<1>3. known[rec[1]] \in 0..Last /\ known[rec[1]] < rec[2] /\ known[rec[1]] < Last
  BY <1>1, <1>2, JournalAssumption
<1>4. Visible = Latest(Whole)
  BY Seen
<1>5. Whole' = Whole \cup {rec}
  <2>1. InSegment(Open') = InSegment(Open) \cup {rec}
    BY <1>1, SegmentRecords
  <2> QED
    BY <2>1, OpenStep DEF Whole
<1>6. Visible' = Latest(Whole \cup {rec})
  BY <1>5, SeenNext
<1>7. Latest(Whole \cup {<<rec[1], rec[2]>>}) = [Latest(Whole) EXCEPT ![rec[1]] = rec[2]]
  <2> DEFINE R == Whole
             k == rec[1]
             v == rec[2]
  <2>1. k \in Items /\ v \in 1..Last /\ v > Latest(R)[k]
    BY <1>1, <1>2, <1>3, <1>4
  <2> HIDE DEF R, k, v
  <2>2. Latest(R \cup {<<k, v>>}) = [Latest(R) EXCEPT ![k] = v]
    BY <2>1, LatestAppended
  <2> QED
    BY <2>2 DEF R, k, v
<1> QED
  BY <1>1, <1>2, <1>3, <1>4, <1>6, <1>7

\* The rotation and the fold change nothing that a reader finds.
LEMMA SeenFiling ==
  ASSUME Shape, LegacyFirst, Sealing, Files,
         Close \/ Fold \/ Unlink \/ UnlinkDone \/ SaveFold
  PROVE  Visible' = Visible
<1>1. /\ Disk /\ InLegacy = {} /\ InSnapshot \subseteq Records /\ InClosed \subseteq Records
      /\ \A s \in DOMAIN manifest.closed : s \in Segments /\ s # manifest.open
  <2>1. step \in Filed
    BY DEF Close, Fold, Unlink, UnlinkDone, SaveFold, Filed
  <2> QED
    BY <2>1, RecordSets, ManifestParts DEF Shape, Disk, Segments, LegacyFirst, InLegacy
<1>2. CASE Close
  <2>1. /\ Disk' /\ manifest'.open = manifest.open + 1 /\ manifest'.open \in Segments
        /\ manifest'.closed = Closing /\ manifest'.snap = manifest.snap
        /\ manifest'.folded = manifest.folded
    BY <1>2, RotationWrites
  <2>2. UNCHANGED <<snapshot, seg, legacyFile>> /\ step = "close" /\ step' = "fold"
    BY <1>2 DEF Close, GoOn
  <2>3. \A s : Content(s)' = Content(s)
    BY <2>2 DEF Content
  <2>4. Content(manifest'.open) = Empty
    <3>1. manifest.open \in Nat
      BY <1>1, ManifestParts DEF Disk
    <3>2. seg[manifest'.open] = None
      BY <2>1, <3>1 DEF Files
    <3> QED
      BY <3>2 DEF Content
  <2>5. Open' = Empty
    BY <2>2, <2>4 DEF Open, Content
  <2>6. InSegment(Open)' = {}
    BY <2>5, SegmentRecords DEF InSegment, SeqRange
  <2>7. InClosed' = InClosed \cup InSegment(Open)
    <3>1. InClosed' = UNION {InSegment(Content(s)) : s \in DOMAIN Closing}
      <4>1. \A s : InSegment(Content(s))' = InSegment(Content(s))
        BY <2>3 DEF InSegment, SeqRange
      <4> HIDE DEF Closing
      <4> QED
        BY <2>1, <4>1 DEF InClosed
    <3>2. DOMAIN Closing = DOMAIN manifest.closed \cup {manifest.open}
      BY DEF Closing
    <3> HIDE DEF Closing
    <3>3. ASSUME NEW r \in InClosed' PROVE r \in InClosed \cup InSegment(Open)
      <4>1. PICK s \in DOMAIN Closing : r \in InSegment(Content(s))
        BY <3>1, <3>3
      <4> QED
        BY <3>2, <4>1 DEF InClosed, Open
    <3>4. ASSUME NEW r \in InClosed \cup InSegment(Open) PROVE r \in InClosed'
      <4>1. CASE r \in InClosed
        <5>1. PICK s \in DOMAIN manifest.closed : r \in InSegment(Content(s))
          BY <4>1 DEF InClosed
        <5> QED
          BY <3>1, <3>2, <5>1
      <4>2. CASE r \in InSegment(Open)
        BY <3>1, <3>2, <4>2 DEF Open
      <4> QED
        BY <4>1, <4>2
    <3> QED
      BY <3>3, <3>4
  <2>8. InSnapshot' = InSnapshot /\ InLegacy' = InLegacy
    BY <2>1, <2>2 DEF InSnapshot, InLegacy
  <2>9. Whole' = Whole
    BY <2>6, <2>7, <2>8 DEF Whole
  <2> QED
    BY <2>2, <2>9, Seen, SeenNext
<1>3. CASE Fold
  <2>1. /\ UNCHANGED <<manifest, seg>> /\ step = "fold" /\ step' = "unlink"
        /\ snapshot' = Reduced(InSnapshot \cup InClosed)
    BY <1>3 DEF Fold, GoOn
  <2> DEFINE R == InSnapshot \cup InClosed
             X == InSegment(Open)
  <2>2. R \subseteq Records /\ Whole = R \cup X /\ snapshot' = Reduced(R)
    BY <1>1, <2>1 DEF Whole
  <2>3. InSegment(Open)' = X
    BY <2>1, OpenQuiet DEF InSegment, SeqRange
  <2> HIDE DEF R, X
  <2>4. Latest(Reduced(R) \cup X) = Latest(R \cup X)
    BY <2>2, ReducedLatest
  <2> QED
    BY <2>1, <2>2, <2>3, <2>4, Seen, SeenNext
<1>4. CASE Unlink
  <2>1. /\ UNCHANGED <<manifest, snapshot>> /\ step = "unlink" /\ step' = "unlink"
    BY <1>4 DEF Unlink, GoOn
  <2>2. PICK s \in DOMAIN manifest.closed : seg' = [seg EXCEPT ![s] = None]
    BY <1>4 DEF Unlink
  <2>3. Open' = Open
    BY <1>1, <2>1, <2>2 DEF Open, Content, Disk
  <2>4. InSegment(Open)' = InSegment(Open)
    BY <2>3 DEF InSegment, SeqRange
  <2> QED
    BY <2>1, <2>4, Seen, SeenNext
<1>5. CASE UnlinkDone
  <2>1. UNCHANGED disk /\ step = "unlink" /\ step' = "save"
    BY <1>5 DEF UnlinkDone, GoOn
  <2>2. InSegment(Open)' = InSegment(Open) /\ snapshot' = snapshot
    BY <2>1, DiskQuiet DEF InSegment, SeqRange
  <2> QED
    BY <2>1, <2>2, Seen, SeenNext
<1>6. CASE SaveFold
  <2>1. manifest'.open = manifest.open /\ manifest'.closed = <<>> /\ manifest'.snap = snapshot
        /\ manifest'.folded = manifest.folded
    BY <1>6, RotationWrites
  <2>2. UNCHANGED <<snapshot, seg, legacyFile>> /\ step = "save" /\ step' = "idle"
    BY <1>6 DEF SaveFold, Return
  <2>3. Open' = Open
    BY <2>1, <2>2 DEF Open, Content
  <2>4. InSegment(Open)' = InSegment(Open)
    BY <2>3 DEF InSegment, SeqRange
  <2>5. InClosed' = {} /\ InLegacy' = {}
    BY <1>1, <2>1, <2>2, ClosingsChange DEF InClosed, InLegacy
  <2>6. InSnapshot' = snapshot
    BY <2>1, <2>2 DEF InSnapshot, Sealing
  <2>7. Whole' = snapshot \cup InSegment(Open)
    BY <2>4, <2>5, <2>6 DEF Whole
  <2> QED
    BY <2>2, <2>7, Seen, SeenNext
<1> QED
  BY <1>2, <1>3, <1>4, <1>5, <1>6

\* The record under way moves its item to the next version.
Moves == /\ rec[1] \in Items /\ rec[2] = Visible[rec[1]] + 1
         /\ Visible[rec[1]] \in 0..Last /\ Visible[rec[1]] < Last
         /\ Visible' = [Visible EXCEPT ![rec[1]] = rec[2]]

\* A write that completes or is cut short after the line moves one item; any
\* other step is invisible.
LEMMA SeenWrite ==
  ASSUME Shape, Files, Knowing, WriteLine \/ FillSegment
  PROVE  Visible = known /\ Moves
<1>1. /\ Disk /\ rec \in Records /\ manifest.open \in Segments /\ Open \in File
      /\ step = "line" /\ step' \in {"idle", "close"}
      /\ UNCHANGED <<manifest, snapshot, legacyFile>> /\ Write(Extended(Open, rec))
  BY ContentType
  DEF WriteLine, FillSegment, Return, GoOn, Shape, Room, Appending, Filed
<1> DEFINE c == Extended(Open, rec)
<1>2. c \in File
  BY <1>1, FileChanges
<1>3. Write(c)
  BY <1>1
<1> HIDE DEF c
<1>4. Open' = c /\ \A s \in DOMAIN manifest.closed : Content(s)' = Content(s)
  BY <1>1, <1>2, <1>3, WrittenOpen
<1> QED
  BY <1>1, <1>4, SeenLine DEF c, Moves

\* The same of failed writes and kills.
LEMMA SeenFault ==
  ASSUME Shape, Files, Knowing, Disciplined, Fault \/ Crash
  PROVE  Visible' = Visible \/ Moves
<1>1. /\ step \notin {"unlink", "save", "truncated"}
      /\ UNCHANGED <<manifest, snapshot, legacyFile>> /\ step' = "idle"
      /\ \/ UNCHANGED seg
         \/ step = "line" /\ (Write(Partial(Open)) \/ Write(Extended(Open, rec)))
  BY Interrupted
<1>2. CASE UNCHANGED seg
  <2>1. UNCHANGED disk
    BY <1>1, <1>2 DEF disk
  <2>2. Whole' = Whole
    BY <2>1, DiskQuiet DEF Whole, InSegment, SeqRange
  <2> QED
    BY <1>1, <2>2, Seen, SeenNext
<1>3. CASE step = "line" /\ (Write(Partial(Open)) \/ Write(Extended(Open, rec)))
  <2>1. /\ Open.tail = None
        /\ \/ Open'.lines = Open.lines /\ Open'.tail = Garbage
           \/ Open' = Extended(Open, rec)
        /\ \A s \in DOMAIN manifest.closed : Content(s)' = Content(s)
    BY <1>1, <1>3, TornOpen
  <2>2. CASE Open'.lines = Open.lines /\ Open'.tail = Garbage
    <3>1. InSegment(Open') = InSegment(Open)
      BY <2>1, <2>2, SegmentRecords, JournalAssumption
    <3>2. Whole' = Whole
      BY <1>1, <2>1, <3>1, OpenStep DEF Whole
    <3> QED
      BY <1>1, <3>2, Seen, SeenNext
  <2>3. CASE Open' = Extended(Open, rec)
    BY <1>1, <1>3, <2>1, <2>3, SeenLine DEF Moves
  <2> QED
    BY <2>1, <2>2, <2>3
<1> QED
  BY <1>1, <1>2, <1>3

\* Where nothing changes nothing a reader finds does.
LEMMA SeenStutter == UNCHANGED vars => Visible' = Visible
<1> SUFFICES ASSUME UNCHANGED vars PROVE Visible' = Visible
  OBVIOUS
<1>1. UNCHANGED disk /\ step' = step /\ saved' = saved
  BY DEF vars, disk
<1>2. Whole' = Whole /\ InSegment(Open)' = InSegment(Open) /\ InSnapshot' = InSnapshot
      /\ InClosed' = InClosed /\ InLegacy' = InLegacy /\ SeqRange(saved)' = SeqRange(saved)
      /\ snapshot' = snapshot
  BY <1>1, DiskQuiet DEF Whole, InSegment, SeqRange
<1> QED
  BY <1>1, <1>2, Seen, SeenNext

\* A step that does not refuse: what close and fold read always verifies.
LEMMA NoRefusal == Files => ~Refuse
BY DEF Files, Refuse

\* The store knows what a reader finds, at every step.
LEMMA KnowingNext ==
  ASSUME Shape, LegacyFirst, Sealing, Files, Knowing, Disciplined, [Next]_vars
  PROVE  Knowing'
<1>1. CASE UNCHANGED vars
  BY <1>1, SeenStutter DEF vars, Knowing, Written
<1>2. CASE Load
  <2>1. Visible' = Visible /\ Visible = Stored
    BY <1>2, SeenRead, Seen DEF Read, Load, Stored, Whole
  <2>2. known' = Stored /\ step' = "idle"
    BY <1>2 DEF Load
  <2> QED
    BY <2>1, <2>2 DEF Knowing, Written, Appending, Filed
<1>3. CASE Truncate \/ Rewrite
  <2>1. ~loaded
    BY <1>3, JournalAssumption DEF Truncate, Rewrite, Files
  <2>2. step' \in {"truncated", "idle"} /\ loaded' = loaded
    BY <1>3 DEF Truncate, Rewrite
  <2> QED
    BY <2>1, <2>2 DEF Knowing, Written, Appending, Filed
<1>4. ASSUME NEW k \in Items, StartAppend(k) PROVE Knowing'
  <2>1. Visible' = Visible
    BY <1>4, SeenRead
  <2>2. /\ step = "idle" /\ step' \in {"stub", "legacy", "manifest", "line"}
        /\ loaded /\ loaded' = loaded /\ known' = known /\ rec' = <<k, known[k] + 1>>
    BY <1>4 DEF StartAppend
  <2> QED
    BY <2>1, <2>2 DEF Knowing, Written, Appending, Filed
<1>5. CASE FoldLegacy \/ SaveLegacy \/ MarkLegacy \/ WriteStub \/ CreateManifest
  <2>1. Visible' = Visible
    BY <1>5, SeenOpening
  <2>2. /\ step \in Appending /\ ~Written /\ ~Written'
        /\ rec' = rec /\ known' = known /\ loaded' = loaded
    BY <1>5
    DEF FoldLegacy, SaveLegacy, MarkLegacy, WriteStub, CreateManifest, GoOn,
        Written, Appending, Filed
  <2> QED
    BY <2>1, <2>2 DEF Knowing
<1>6. CASE WriteLine
  <2>1. Visible = known /\ Moves
    BY <1>6, SeenWrite
  <2>2. known' = [known EXCEPT ![rec[1]] = rec[2]] /\ step' = "idle"
    BY <1>6 DEF WriteLine, Return
  <2> QED
    BY <2>1, <2>2 DEF Moves, Knowing, Written, Appending, Filed
<1>7. CASE FillSegment
  <2>1. Visible = known /\ Moves
    BY <1>7, SeenWrite
  <2>2. known' = known /\ rec' = rec /\ step' = "close"
    BY <1>7 DEF FillSegment, GoOn
  <2> QED
    BY <2>1, <2>2 DEF Moves, Knowing, Written
<1>8. CASE Close \/ Fold \/ Unlink \/ UnlinkDone
  <2>1. Visible' = Visible
    BY <1>8, SeenFiling
  <2>2. Written /\ Written' /\ known' = known /\ rec' = rec
    BY <1>8 DEF Close, Fold, Unlink, UnlinkDone, GoOn, Written
  <2> QED
    BY <2>1, <2>2 DEF Knowing
<1>9. CASE SaveFold
  <2>1. Visible' = Visible
    BY <1>9, SeenFiling
  <2>2. Written /\ step' = "idle" /\ known' = [known EXCEPT ![rec[1]] = rec[2]]
    BY <1>9 DEF SaveFold, Return, Written
  <2> QED
    BY <2>1, <2>2 DEF Knowing, Written, Appending, Filed
<1>10. CASE Fault \/ Crash
  <2>1. step' = "idle" /\ loaded' = FALSE
    BY <1>10, Interrupted
  <2> QED
    BY <2>1 DEF Knowing, Written, Appending, Filed
<1> QED
  BY <1>1, <1>2, <1>3, <1>4, <1>5, <1>6, <1>7, <1>8, <1>9, <1>10, NoRefusal
  DEF Next, Read, AppendStep

\* Segments that hold the lines they held, or none, rise as they did.
LEMMA RisingKept ==
  ASSUME Rising, step \notin {"unlink", "save"},
         \A t \in Listed' : \/ t \in Listed /\ LinesOf(t)' = LinesOf(t)
                            \/ DOMAIN LinesOf(t)' = {},
         InSnapshot' = InSnapshot \/ \A t \in Listed' : DOMAIN LinesOf(t)' = {}
  PROVE  Rising'
<1>1. ASSUME NEW s \in Listed', NEW t \in Listed',
             NEW m \in DOMAIN LinesOf(s)', NEW n \in DOMAIN LinesOf(t)',
             s < t \/ (s = t /\ m < n)
      PROVE  Rises(LinesOf(s)'[m], LinesOf(t)'[n])
  <2>1. /\ s \in Listed /\ LinesOf(s)' = LinesOf(s)
        /\ t \in Listed /\ LinesOf(t)' = LinesOf(t)
    BY <1>1
  <2> QED
    BY <1>1, <2>1 DEF Rising
<1>2. ASSUME NEW r \in InSnapshot', NEW t \in Listed', NEW n \in DOMAIN LinesOf(t)'
      PROVE  Rises(r, LinesOf(t)'[n])
  <2>1. t \in Listed /\ LinesOf(t)' = LinesOf(t) /\ InSnapshot' = InSnapshot
    BY <1>2
  <2> QED
    BY <1>2, <2>1 DEF Rising
<1>3. \A r, t : Rises(r, t)' = Rises(r, t)
  BY DEF Rises
<1> QED
  BY <1>1, <1>2 DEF Rising, Rises

\* Every line is what a reader finds.
LEMMA LinesFound ==
  ASSUME step # "truncated"
  PROVE  /\ \A t \in Listed : \A n \in DOMAIN LinesOf(t) :
              LinesOf(t)[n] \in Records => LinesOf(t)[n] \in Whole
         /\ InSnapshot \subseteq Whole
<1>1. ASSUME NEW t \in Listed, NEW n \in DOMAIN LinesOf(t), LinesOf(t)[n] \in Records
      PROVE  LinesOf(t)[n] \in Whole
  <2>1. CASE t = manifest.open
    <3>1. LinesOf(t) = Open.lines
      BY <2>1 DEF LinesOf, OpenLines
    <3>2. LinesOf(t)[n] \in InSegment(Open)
      BY <1>1, <3>1 DEF InSegment, SeqRange
    <3> QED
      BY <3>2 DEF Whole
  <2>2. CASE t # manifest.open
    <3>1. t \in DOMAIN manifest.closed /\ LinesOf(t) = Content(t).lines
      BY <2>2 DEF LinesOf, Listed
    <3>2. LinesOf(t)[n] \in InSegment(Content(t))
      BY <1>1, <3>1 DEF InSegment, SeqRange
    <3>3. LinesOf(t)[n] \in InClosed
      BY <3>1, <3>2 DEF InClosed
    <3> QED
      BY <3>3 DEF Whole
  <2> QED
    BY <2>1, <2>2
<1> QED
  BY <1>1 DEF Whole

\* A version after all that a reader finds of its item rises over every line.
LEMMA RisingExtended ==
  ASSUME Disk, Rising, step = "line", rec \in Records, Open \in File, Open.tail = None,
         rec[2] > Latest(Whole)[rec[1]],
         UNCHANGED <<manifest, snapshot>>, step' # "truncated",
         \A s \in DOMAIN manifest.closed : Content(s)' = Content(s),
         Open' = Extended(Open, rec)
  PROVE  Rising'
<1> DEFINE q == Open.lines
<1>0. PICK o : o = manifest.open
  OBVIOUS
<1>1. q \in Seq(Lines) /\ Open'.lines = Append(q, rec)
  BY FileFields, LinesRead
<1>2. Listed' = Listed /\ InSnapshot' = InSnapshot /\ o \in Listed
  BY <1>0 DEF Listed, InSnapshot
<1>3. LinesOf(o) = q /\ LinesOf(o)' = Append(q, rec)
  BY <1>1, <1>0 DEF LinesOf, OpenLines
<1>4. ASSUME NEW t \in Listed, t # o PROVE LinesOf(t)' = LinesOf(t) /\ t < o
  <2>1. t \in DOMAIN manifest.closed
    BY <1>4, <1>0 DEF Listed
  <2> QED
    BY <1>4, <1>0, <2>1 DEF LinesOf, Disk
<1>5. rec[1] \in Items /\ rec[2] \in 1..Last /\ Latest(Whole)[rec[1]] \in 0..Last
  BY LatestType DEF Records
<1>6. ASSUME NEW r \in Whole PROVE Rises(r, rec)
  <2> SUFFICES ASSUME r \in Records, r[1] = rec[1] PROVE r[2] < rec[2]
    BY DEF Rises
  <2>1. r[2] \in 1..Last /\ <<rec[1], r[2]>> \in Whole
    BY DEF Records
  <2>2. r[2] <= Latest(Whole)[rec[1]]
    BY <1>5, <2>1, LatestIs DEF Tops
  <2> QED
    BY <1>5, <2>1, <2>2, JournalAssumption
<1>7. ASSUME NEW t \in Listed, NEW n \in DOMAIN LinesOf(t) PROVE Rises(LinesOf(t)[n], rec)
  BY <1>6, LinesFound DEF Rises
<1> HIDE DEF q
<1>8. /\ DOMAIN Append(q, rec) = 1..Len(q) + 1 /\ DOMAIN q = 1..Len(q) /\ Len(q) \in Nat
      /\ Append(q, rec)[Len(q) + 1] = rec
      /\ \A n \in 1..Len(q) : Append(q, rec)[n] = q[n]
  BY <1>1
<1>9. \A t \in Listed : t \in Nat
  BY ManifestParts DEF Disk, Listed, Segments
<1>10. ASSUME NEW s \in Listed, NEW t \in Listed,
              NEW m \in DOMAIN LinesOf(s)', NEW n \in DOMAIN LinesOf(t)',
              s < t \/ (s = t /\ m < n)
       PROVE  Rises(LinesOf(s)'[m], LinesOf(t)'[n])
  <2>1. m \in DOMAIN LinesOf(s) /\ LinesOf(s)'[m] = LinesOf(s)[m]
    <3>1. CASE s # o
      BY <1>4, <3>1
    <3>2. CASE s = o
      <4>1. t = o /\ m < n
        BY <1>2, <1>4, <1>9, <1>10, <3>2
      <4>2. n \in 1..Len(q) + 1 /\ m \in 1..Len(q) + 1
        BY <1>3, <1>8, <3>2, <4>1
      <4>3. m \in 1..Len(q)
        BY <1>8, <4>1, <4>2
      <4> QED
        BY <1>3, <1>8, <3>2, <4>3
    <3> QED
      BY <3>1, <3>2
  <2>2. CASE t # o
    BY <1>4, <1>10, <2>1, <2>2 DEF Rising
  <2>3. CASE t = o /\ n # Len(q) + 1
    <3>1. n \in DOMAIN LinesOf(t) /\ LinesOf(t)'[n] = LinesOf(t)[n]
      BY <1>3, <1>8, <2>3
    <3> QED
      BY <1>10, <2>1, <3>1 DEF Rising
  <2>4. CASE t = o /\ n = Len(q) + 1
    <3>1. LinesOf(t)'[n] = rec
      BY <1>3, <1>8, <2>4
    <3> QED
      BY <1>7, <2>1, <3>1
  <2> QED
    BY <2>2, <2>3, <2>4
<1>11. ASSUME NEW r \in InSnapshot, NEW t \in Listed, NEW n \in DOMAIN LinesOf(t)'
       PROVE  Rises(r, LinesOf(t)'[n])
  <2>1. CASE t # o
    BY <1>4, <1>11, <2>1 DEF Rising
  <2>2. CASE t = o /\ n # Len(q) + 1
    <3>1. n \in DOMAIN LinesOf(t) /\ LinesOf(t)'[n] = LinesOf(t)[n]
      BY <1>3, <1>8, <2>2
    <3> QED
      BY <1>11, <3>1 DEF Rising
  <2>3. CASE t = o /\ n = Len(q) + 1
    <3>1. LinesOf(t)'[n] = rec /\ r \in Whole
      BY <1>3, <1>8, <2>3, LinesFound
    <3> QED
      BY <1>6, <3>1
  <2> QED
    BY <2>1, <2>2, <2>3
<1> QED
  BY <1>2, <1>10, <1>11 DEF Rising, Rises

\* A step that leaves the manifest, the snapshot and the lines.
LEMMA RisingQuiet ==
  ASSUME Rising, step \notin {"unlink", "save"}, UNCHANGED <<manifest, snapshot>>,
         \A s \in DOMAIN manifest.closed : Content(s)' = Content(s),
         OpenLines' = OpenLines
  PROVE  Rising'
<1>1. Listed' = Listed /\ InSnapshot' = InSnapshot
  BY DEF Listed, InSnapshot
<1>2. \A t \in Listed : LinesOf(t)' = LinesOf(t)
  BY DEF LinesOf, Listed
<1> QED
  BY <1>1, <1>2, RisingKept

\* Reading, and the start of an append.
LEMMA RisingRead ==
  ASSUME Shape, Files, Rising, Read \/ \E k \in Items : StartAppend(k)
  PROVE  Rising'
<1>1. Disk /\ Memory
  BY DEF Shape
<1>2. CASE Load \/ \E k \in Items : StartAppend(k)
  <2>1. UNCHANGED disk /\ step = "idle" /\ step' \in {"idle", "stub", "legacy", "manifest", "line"}
    BY <1>2 DEF Load, StartAppend
  <2>2. OpenLines' = OpenLines
    BY <2>1, DiskQuiet DEF OpenLines
  <2> QED
    BY <2>1, <2>2, DiskQuiet, RisingQuiet
<1>3. CASE Truncate
  <2>1. manifest.open \in Segments /\ Write(Empty)
    BY <1>1, <1>3, PartialLine DEF Truncate, Write
  <2>2. /\ UNCHANGED <<manifest, snapshot, legacyFile>> /\ step' = "truncated" /\ step = "idle"
        /\ saved' = Open.lines
    BY <1>3 DEF Truncate
  <2>3. \A s \in DOMAIN manifest.closed : Content(s)' = Content(s)
    BY <1>1, <2>1, <2>2, FileEmpty, WrittenOpen
  <2>4. OpenLines' = OpenLines
    BY <2>2 DEF OpenLines
  <2> QED
    BY <2>2, <2>3, <2>4, RisingQuiet
<1>4. CASE Rewrite
  <2> DEFINE c == [lines |-> saved, tail |-> None]
  <2>1. saved \in Seq(Lines)
    BY <1>1 DEF Memory, Lines
  <2>2. c \in File /\ c.lines = saved
    BY <2>1, FileParts
  <2> HIDE DEF c
  <2>3. manifest.open \in Segments /\ Write(c)
    BY <1>4 DEF Rewrite, Shape, Room, Write, c
  <2>4. UNCHANGED <<manifest, snapshot, legacyFile>> /\ step' = "idle" /\ step = "truncated"
    BY <1>4 DEF Rewrite
  <2>5. Open' = c /\ \A s \in DOMAIN manifest.closed : Content(s)' = Content(s)
    BY <1>1, <2>2, <2>3, <2>4, WrittenOpen
  <2>6. OpenLines' = OpenLines
    BY <2>2, <2>4, <2>5 DEF OpenLines
  <2> QED
    BY <2>4, <2>5, <2>6, RisingQuiet
<1> QED
  BY <1>2, <1>3, <1>4 DEF Read

\* The steps before the line: the lines stay, and the v1 records become the
\* snapshot only when there are none.
LEMMA RisingOpening ==
  ASSUME Shape, LegacyFirst, Files, Rising,
         FoldLegacy \/ SaveLegacy \/ MarkLegacy \/ WriteStub \/ CreateManifest
  PROVE  Rising'
<1>1. /\ Disk /\ seg' = seg
      /\ step \notin {"unlink", "save", "truncated"} /\ step' # "truncated"
  BY DEF Shape, FoldLegacy, SaveLegacy, MarkLegacy, WriteStub, CreateManifest, GoOn
<1>2. \A s : Content(s)' = Content(s)
  BY <1>1 DEF Content
<1>3. CASE FoldLegacy \/ WriteStub
  <2>1. UNCHANGED manifest /\ (snapshot' = snapshot \/ manifest.snap = None)
    BY <1>3 DEF FoldLegacy, WriteStub, LegacyFirst
  <2>2. Listed' = Listed /\ InSnapshot' = InSnapshot
    BY <2>1 DEF Listed, InSnapshot
  <2>3. OpenLines' = OpenLines
    BY <1>1, <2>1, OpenQuiet DEF OpenLines
  <2>4. \A t \in Listed : LinesOf(t)' = LinesOf(t)
    BY <1>2, <2>1, <2>3 DEF LinesOf
  <2> QED
    BY <1>1, <2>2, <2>4, RisingKept
<1>4. CASE SaveLegacy \/ MarkLegacy \/ CreateManifest
  <2>1. /\ manifest'.open = OpenName /\ manifest'.closed = manifest.closed
        /\ UNCHANGED snapshot
    <3>1. CASE SaveLegacy \/ MarkLegacy
      BY <3>1, ManifestWrites DEF SaveLegacy, MarkLegacy
    <3>2. CASE CreateManifest
      <4>1. manifest' = [open |-> 1, closed |-> manifest.closed,
                         snap |-> manifest.snap, folded |-> manifest.folded]
        BY <1>1, <3>2, ManifestChanges DEF CreateManifest, Disk
      <4> QED
        BY <3>2, <4>1 DEF CreateManifest, Shape, Room, OpenName
    <3> QED
      BY <1>4, <3>1, <3>2
  <2>2. Listed' = DOMAIN manifest.closed \cup {OpenName}
    BY <2>1 DEF Listed
  <2>3. Open' = Open
    <3>1. Content(manifest'.open) = Open
      BY <1>1, <2>1, FirstSegment
    <3> QED
      BY <1>1, <3>1 DEF Open, Content
  <2>4. OpenLines' = OpenLines /\ LinesOf(OpenName)' = OpenLines
    <3>1. PICK o : o = OpenName
      OBVIOUS
    <3>2. OpenLines' = OpenLines /\ o = manifest'.open
      BY <1>1, <2>1, <2>3, <3>1 DEF OpenLines
    <3>3. OpenName' = OpenName
      BY <2>1, <3>1 DEF OpenName
    <3> QED
      BY <2>1, <3>2, <3>3 DEF LinesOf
  <2>5. \A t \in DOMAIN manifest.closed : t < manifest.open /\ t \in Segments
    BY <1>1, ManifestParts DEF Disk
  <2>6. CASE manifest.open # 0
    <3>1. OpenName = manifest.open /\ Listed' = Listed
      BY <2>2, <2>6 DEF OpenName, Listed
    <3>2. \A t \in Listed : LinesOf(t)' = LinesOf(t)
      BY <1>2, <2>1, <2>4, <3>1 DEF LinesOf, Listed
    <3>3. InSnapshot' = InSnapshot
      <4>1. ~SaveLegacy
        BY <2>6 DEF SaveLegacy, LegacyFirst
      <4>2. manifest'.snap = manifest.snap
        <5>1. CASE MarkLegacy
          BY <5>1, ManifestWrites
        <5>2. CASE CreateManifest
          BY <2>6, <5>2 DEF CreateManifest, Shape, Room
        <5> QED
          BY <1>4, <4>1, <5>1, <5>2
      <4> QED
        BY <2>1, <4>2 DEF InSnapshot
    <3> QED
      BY <1>1, <3>1, <3>2, <3>3, RisingKept
  <2>7. CASE manifest.open = 0
    <3>1. DOMAIN manifest.closed = {}
      BY <2>5, <2>7 DEF Segments
    <3>2. OpenLines' = <<>>
      <4>1. Open.lines = <<>>
        BY <1>1, <2>7, FirstSegment, FileEmpty
      <4> QED
        BY <1>1, <2>3, <4>1 DEF OpenLines
    <3>3. \A t \in Listed' : DOMAIN LinesOf(t)' = {}
      BY <2>1, <3>1, <3>2, ClosingsChange DEF LinesOf, Listed
    <3> QED
      BY <1>1, <3>3, RisingKept
  <2> QED
    BY <2>6, <2>7
<1> QED
  BY <1>3, <1>4

\* A line written whole rises over all the others.
LEMMA RisingLine ==
  ASSUME Shape, Files, Knowing, Rising, step = "line",
         UNCHANGED <<manifest, snapshot>>, step' # "truncated",
         \A s \in DOMAIN manifest.closed : Content(s)' = Content(s),
         Open' = Extended(Open, rec)
  PROVE  Rising'
<1>1. /\ Disk /\ rec \in Records /\ Open \in File /\ Open.tail = None /\ loaded
      /\ known \in [Items -> 0..Last] /\ rec[1] \in Items
  BY ContentType DEF Shape, Room, Memory, Records, Files, Appending, Filed
<1>2. known = Visible /\ Visible = Latest(Whole) /\ rec[2] = known[rec[1]] + 1
  BY <1>1, Seen DEF Knowing, Written, Appending, Filed
<1>3. known[rec[1]] \in Nat
  BY <1>1, JournalAssumption
<1>4. rec[2] > Latest(Whole)[rec[1]]
  BY <1>2, <1>3
<1> QED
  BY <1>1, <1>4, RisingExtended

\* Versions rise at every step.
LEMMA RisingNext ==
  ASSUME Shape, LegacyFirst, Sealing, Files, Knowing, Rising, Disciplined, [Next]_vars
  PROVE  Rising'
<1>1. CASE step' \in {"unlink", "save"}
  BY <1>1 DEF Rising
<1>2. CASE UNCHANGED vars /\ step' \notin {"unlink", "save"}
  <2>1. UNCHANGED disk /\ step' = step /\ saved' = saved
    BY <1>2 DEF vars, disk
  <2>2. OpenLines' = OpenLines
    BY <2>1, DiskQuiet DEF OpenLines
  <2> QED
    BY <1>2, <2>1, <2>2, DiskQuiet, RisingQuiet
<1>3. CASE WriteLine \/ FillSegment
  <2>1. /\ Disk /\ rec \in Records /\ manifest.open \in Segments /\ Open \in File
        /\ step = "line" /\ step' \in {"idle", "close"}
        /\ UNCHANGED <<manifest, snapshot, legacyFile>> /\ Write(Extended(Open, rec))
    BY <1>3, ContentType
    DEF WriteLine, FillSegment, Return, GoOn, Shape, Room, Appending, Filed
  <2> DEFINE c == Extended(Open, rec)
  <2>2. c \in File /\ Write(c)
    BY <2>1, FileChanges
  <2> HIDE DEF c
  <2>3. Open' = c /\ \A s \in DOMAIN manifest.closed : Content(s)' = Content(s)
    BY <2>1, <2>2, WrittenOpen
  <2> QED
    BY <2>1, <2>3, RisingLine DEF c
<1>4. CASE Close
  <2>1. /\ Disk /\ \A s \in DOMAIN manifest.closed : s # manifest.open
        /\ manifest.open \in Nat
    BY ManifestParts DEF Shape, Disk, Segments
  <2>2. /\ manifest'.open = manifest.open + 1 /\ manifest'.open \in Segments
        /\ manifest'.closed = Closing /\ manifest'.snap = manifest.snap
    BY <1>4, RotationWrites
  <2>3. UNCHANGED <<snapshot, seg>> /\ step = "close" /\ step' = "fold"
    BY <1>4 DEF Close, GoOn
  <2>4. PICK o : o = manifest.open
    OBVIOUS
  <2>5. Listed' = Listed \cup {o + 1}
    BY <2>2, <2>4 DEF Listed, Closing
  <2>6. \A s \in Listed : s # o + 1
    BY <2>1, <2>4 DEF Listed, Disk
  <2>7. \A s : Content(s)' = Content(s)
    BY <2>3 DEF Content
  <2>8. \A s \in Listed : LinesOf(s)' = LinesOf(s)
    BY <2>2, <2>3, <2>4, <2>6, <2>7 DEF LinesOf, OpenLines, Open
  <2>9. DOMAIN LinesOf(o + 1)' = {}
    <3>1. seg[o + 1] = None
      BY <2>1, <2>2, <2>4 DEF Files
    <3>2. Content(o + 1) = Empty
      BY <3>1 DEF Content
    <3>3. LinesOf(o + 1)' = Content(o + 1)'.lines
      BY <2>2, <2>3, <2>4 DEF LinesOf, OpenLines, Open
    <3>4. LinesOf(o + 1)' = <<>>
      BY <2>7, <3>2, <3>3, FileEmpty
    <3> QED
      BY <3>4
  <2>10. InSnapshot' = InSnapshot
    BY <2>2, <2>3 DEF InSnapshot
  <2> QED
    BY <2>3, <2>5, <2>8, <2>9, <2>10, RisingKept
<1>5. CASE SaveFold
  <2>1. manifest'.open = manifest.open /\ manifest'.closed = <<>>
    BY <1>5, RotationWrites
  <2>2. UNCHANGED seg /\ step' = "idle" /\ step = "save"
    BY <1>5 DEF SaveFold, Return
  <2>3. Open' = Empty
    BY <2>1, <2>2 DEF Open, Content, Files
  <2>4. Listed' = {manifest'.open}
    BY <2>1, ClosingsChange DEF Listed
  <2>5. \A t \in Listed' : LinesOf(t)' = <<>>
    BY <2>2, <2>3, <2>4, FileEmpty DEF LinesOf, OpenLines
  <2> QED
    BY <2>5 DEF Rising
<1>6. CASE Fault \/ Crash
  <2>1. /\ step \notin {"unlink", "save", "truncated"}
        /\ UNCHANGED <<manifest, snapshot, legacyFile>> /\ step' = "idle"
        /\ \/ UNCHANGED seg
           \/ step = "line" /\ (Write(Partial(Open)) \/ Write(Extended(Open, rec)))
    BY <1>6, Interrupted
  <2>2. CASE UNCHANGED seg
    <3>1. UNCHANGED disk
      BY <2>1, <2>2 DEF disk
    <3>2. OpenLines' = OpenLines
      BY <2>1, <3>1, DiskQuiet DEF OpenLines
    <3> QED
      BY <2>1, <3>1, <3>2, DiskQuiet, RisingQuiet
  <2>3. CASE step = "line" /\ (Write(Partial(Open)) \/ Write(Extended(Open, rec)))
    <3>1. /\ \/ Open'.lines = Open.lines /\ Open'.tail = Garbage
             \/ Open' = Extended(Open, rec)
          /\ \A s \in DOMAIN manifest.closed : Content(s)' = Content(s)
      BY <2>1, <2>3, TornOpen
    <3>2. CASE Open'.lines = Open.lines
      <4>1. OpenLines' = OpenLines
        BY <2>1, <3>2 DEF OpenLines
      <4> QED
        BY <2>1, <3>1, <4>1, RisingQuiet
    <3>3. CASE Open' = Extended(Open, rec)
      BY <2>1, <2>3, <3>1, <3>3, RisingLine
    <3> QED
      BY <3>1, <3>2, <3>3
  <2> QED
    BY <2>1, <2>2, <2>3
<1>7. Fold \/ Unlink \/ UnlinkDone => step' \in {"unlink", "save"}
  BY DEF Fold, Unlink, UnlinkDone, GoOn
<1> QED
  BY <1>1, <1>2, <1>3, <1>4, <1>5, <1>6, <1>7, NoRefusal, RisingRead, RisingOpening
  DEF Next, AppendStep

\* One line more, and whether the segment is then full.
LEMMA LongerBy ==
  ASSUME Open \in File, Open.tail = None, rec \in Records
  PROVE  /\ Len(Extended(Open, rec).lines) = Len(Open.lines) + 1
         /\ Full(Extended(Open, rec)) <=> Len(Open.lines) + 1 >= SegmentLimit
<1> DEFINE q == Open.lines
<1>1. q \in Seq(Lines) /\ Len(q) \in Nat
  BY FileFields
<1>2. Extended(Open, rec).lines = Append(q, rec) /\ Extended(Open, rec).tail = None
  BY LinesRead
<1>3. rec \in Lines
  BY DEF Lines
<1> HIDE DEF q
<1>4. Len(Append(q, rec)) = Len(q) + 1
  BY <1>1, <1>3
<1>5. Full(Extended(Open, rec)) <=> Len(q) + 1 >= SegmentLimit
  BY <1>1, <1>2, <1>4 DEF Full
<1> QED
  BY <1>2, <1>4, <1>5 DEF q

\* The open segment has room at every step.
LEMMA BoundedNext ==
  ASSUME Shape, LegacyFirst, Files, Bounded, Disciplined, [Next]_vars
  PROVE  Bounded'
<1>1. /\ Disk /\ Memory /\ Open \in File /\ Len(Open.lines) \in Nat
      /\ SegmentLimit \in Nat \ {0} /\ crashes \in Nat /\ faults \in Nat
  BY ContentType, JournalAssumption DEF Shape, Bounds
<1>2. CASE UNCHANGED vars
  <2>1. UNCHANGED <<disk, step, saved, crashes, faults>>
    BY <1>2 DEF vars, disk
  <2>2. OpenLines' = OpenLines
    BY <2>1, DiskQuiet DEF OpenLines
  <2> QED
    BY <2>1, <2>2 DEF Bounded
<1>3. CASE WriteLine \/ FillSegment
  <2>1. /\ rec \in Records /\ manifest.open \in Segments
        /\ step = "line" /\ UNCHANGED <<manifest, snapshot, crashes, faults>>
        /\ Write(Extended(Open, rec)) /\ Open.tail = None
        /\ \/ step' = "idle" /\ ~Full(Extended(Open, rec))
           \/ step' = "close"
    BY <1>3
    DEF WriteLine, FillSegment, Return, GoOn, bounds, Shape, Room, Files, Appending, Filed
  <2> DEFINE c == Extended(Open, rec)
  <2>2. c \in File /\ Write(c)
    BY <1>1, <2>1, FileChanges
  <2> HIDE DEF c
  <2>3. Open' = c
    BY <1>1, <2>1, <2>2, WrittenOpen
  <2>4. OpenLines' = c.lines /\ OpenLines = Open.lines
    BY <2>1, <2>3 DEF OpenLines
  <2>5. /\ Len(c.lines) = Len(Open.lines) + 1
        /\ Full(c) <=> Len(Open.lines) + 1 >= SegmentLimit
    BY <1>1, <2>1, LongerBy DEF c
  <2>6. Len(Open.lines) < SegmentLimit + crashes + faults
    BY <2>1, <2>4 DEF Bounded
  <2> QED
    BY <1>1, <2>1, <2>4, <2>5, <2>6 DEF Bounded, c
<1>4. CASE Close
  <2>1. manifest.open \in Nat
    BY <1>1, ManifestParts DEF Disk
  <2>2. manifest'.open = manifest.open + 1 /\ manifest'.open \in Segments
    BY <1>4, RotationWrites
  <2>3. UNCHANGED <<seg, crashes, faults>> /\ step' = "fold"
    BY <1>4 DEF Close, GoOn, bounds
  <2>4. seg[manifest'.open] = None
    BY <2>1, <2>2 DEF Files
  <2>5. Open' = Empty
    BY <2>3, <2>4 DEF Open, Content
  <2>6. OpenLines' = <<>>
    BY <2>3, <2>5, FileEmpty DEF OpenLines
  <2> QED
    BY <1>1, <2>3, <2>6 DEF Bounded
<1>5. CASE Fold \/ Unlink \/ UnlinkDone \/ SaveFold
  <2>1. /\ Open = Empty /\ step' \in {"unlink", "save", "idle"}
        /\ UNCHANGED <<crashes, faults>>
    BY <1>5 DEF Fold, Unlink, UnlinkDone, SaveFold, Files, GoOn, Return, bounds
  <2>2. Files'
    BY <1>5, FilesFiling
  <2>3. Open' = Empty
    <3>1. CASE SaveFold
      <4>1. manifest'.open = manifest.open /\ UNCHANGED seg
        BY <3>1, RotationWrites DEF SaveFold
      <4> QED
        BY <2>1, <4>1 DEF Open, Content
    <3>2. CASE ~SaveFold
      BY <1>5, <2>2, <3>2 DEF Files, Fold, Unlink, UnlinkDone, GoOn
    <3> QED
      BY <3>1, <3>2
  <2>4. OpenLines' = <<>>
    BY <2>1, <2>3, FileEmpty DEF OpenLines
  <2> QED
    BY <1>1, <2>1, <2>4 DEF Bounded
<1>6. CASE Load \/ \E k \in Items : StartAppend(k)
  <2>1. UNCHANGED <<disk, crashes, faults>> /\ step = "idle" /\ step' # "truncated"
    BY <1>6 DEF Load, StartAppend, bounds
  <2>2. OpenLines' = OpenLines
    BY <2>1, DiskQuiet DEF OpenLines
  <2> QED
    BY <1>1, <2>1, <2>2 DEF Bounded
<1>7. CASE Truncate
  <2>1. /\ saved' = Open.lines /\ step' = "truncated" /\ step = "idle"
        /\ UNCHANGED <<crashes, faults>>
    BY <1>7 DEF Truncate, bounds
  <2>2. OpenLines' = OpenLines
    BY <2>1 DEF OpenLines
  <2> QED
    BY <1>1, <2>1, <2>2 DEF Bounded
<1>8. CASE Rewrite
  <2> DEFINE c == [lines |-> saved, tail |-> None]
  <2>1. saved \in Seq(Lines)
    BY <1>1 DEF Memory, Lines
  <2>2. c \in File /\ c.lines = saved
    BY <2>1, FileParts
  <2> HIDE DEF c
  <2>3. manifest.open \in Segments /\ Write(c)
    BY <1>8 DEF Rewrite, Shape, Room, Write, c
  <2>4. UNCHANGED <<manifest, snapshot, crashes, faults>> /\ step' = "idle" /\ step = "truncated"
    BY <1>8 DEF Rewrite, bounds
  <2>5. Open' = c
    BY <1>1, <2>2, <2>3, <2>4, WrittenOpen
  <2>6. OpenLines' = OpenLines
    BY <2>2, <2>4, <2>5 DEF OpenLines
  <2> QED
    BY <1>1, <2>4, <2>6 DEF Bounded
<1>9. CASE FoldLegacy \/ SaveLegacy \/ MarkLegacy \/ WriteStub \/ CreateManifest
  <2>1. /\ UNCHANGED <<seg, crashes, faults>>
        /\ step \notin {"truncated", "close"} /\ step' # "truncated"
    BY <1>9
    DEF FoldLegacy, SaveLegacy, MarkLegacy, WriteStub, CreateManifest, GoOn, bounds
  <2>2. manifest'.open \in {manifest.open, OpenName}
    <3>1. CASE SaveLegacy \/ MarkLegacy
      BY <3>1, ManifestWrites
    <3>2. CASE CreateManifest
      <4>1. manifest' = [open |-> 1, closed |-> manifest.closed,
                         snap |-> manifest.snap, folded |-> manifest.folded]
        BY <1>1, <3>2, ManifestChanges DEF CreateManifest, Disk
      <4> QED
        BY <3>2, <4>1 DEF CreateManifest, Shape, Room, OpenName
    <3>3. CASE FoldLegacy \/ WriteStub
      BY <3>3 DEF FoldLegacy, WriteStub
    <3> QED
      BY <1>9, <3>1, <3>2, <3>3
  <2>3. Content(manifest'.open) = Open
    BY <1>1, <2>2, FirstSegment DEF Open
  <2>4. OpenLines' = OpenLines
    BY <2>1, <2>3 DEF OpenLines, Open, Content
  <2> QED
    BY <1>1, <2>1, <2>4 DEF Bounded
<1>10. CASE Fault \/ Crash
  <2>1. /\ step \notin {"unlink", "save", "truncated"}
        /\ UNCHANGED <<manifest, snapshot, legacyFile>> /\ step' = "idle"
        /\ crashes' + faults' = crashes + faults + 1
        /\ \/ UNCHANGED seg
           \/ step = "line" /\ (Write(Partial(Open)) \/ Write(Extended(Open, rec)))
    BY <1>10, Interrupted
  <2>2. OpenLines' = Open'.lines /\ OpenLines = Open.lines
    BY <2>1 DEF OpenLines
  <2>3. Len(Open'.lines) \in Nat /\ Len(Open'.lines) <= SegmentLimit + crashes + faults
    <3>1. CASE UNCHANGED seg
      <4>1. Open' = Open
        BY <2>1, <3>1, OpenQuiet
      <4> QED
        BY <1>1, <2>2, <4>1 DEF Bounded
    <3>2. CASE step = "line" /\ (Write(Partial(Open)) \/ Write(Extended(Open, rec)))
      <4>1. /\ rec \in Records /\ Open.tail = None
            /\ \/ Open'.lines = Open.lines /\ Open'.tail = Garbage
               \/ Open' = Extended(Open, rec)
        BY <2>1, <3>2, TornOpen
      <4>2. Len(Open'.lines) \in {Len(Open.lines), Len(Open.lines) + 1}
        BY <1>1, <4>1, LongerBy
      <4>3. Len(Open.lines) < SegmentLimit + crashes + faults
        BY <2>2, <3>2 DEF Bounded
      <4> QED
        BY <1>1, <4>2, <4>3
    <3> QED
      BY <2>1, <3>1, <3>2
  <2>4. crashes' \in Nat /\ faults' \in Nat
    BY <1>10, ShapeFault DEF Shape, Bounds
  <2>5. crashes' + faults' = crashes + faults + 1
    BY <2>1
  <2>6. Len(OpenLines') < SegmentLimit + crashes' + faults'
    <3>1. ASSUME NEW m \in Nat, NEW n \in Nat, NEW a \in Nat, NEW b \in Nat,
                 NEW c \in Nat, NEW d \in Nat, c + d = a + b + 1, n <= m + a + b
          PROVE  n < m + c + d
      BY <3>1
    <3>2. SegmentLimit \in Nat /\ crashes \in Nat /\ faults \in Nat
      BY <1>1
    <3> QED
      BY <2>2, <2>3, <2>4, <2>5, <3>1, <3>2
  <2> QED
    BY <2>6 DEF Bounded
<1> QED
  BY <1>2, <1>3, <1>4, <1>5, <1>6, <1>7, <1>8, <1>9, <1>10, NoRefusal DEF Next, Read, AppendStep

\* What holds at every step outside the windows.
Sound == Shape /\ LegacyFirst /\ Sealing /\ Files /\ Knowing /\ Rising /\ Bounded

\* ... from the first state on, and across every step.
LEMMA SoundInvariant ==
  ASSUME Disciplined
  PROVE  Spec => []Sound
<1>1. Init => Files /\ Knowing /\ Rising /\ Bounded
  <2> SUFFICES ASSUME Init PROVE Files /\ Knowing /\ Rising /\ Bounded
    OBVIOUS
  <2>1. /\ manifest.snap = None /\ manifest.closed = <<>> /\ manifest.open = 0
        /\ step = "idle" /\ loaded = FALSE /\ seg = [s \in Segments |-> None]
    BY DEF Init, NoManifest
  <2>2. Open = Empty /\ Open.lines = <<>> /\ Open.tail = None
    BY <2>1, FileEmpty DEF Open, Content, Segments
  <2>3. OpenLines = <<>> /\ Listed = {0} /\ LinesOf(0) = <<>>
    BY <2>1, <2>2, ClosingsChange DEF OpenLines, Listed, LinesOf
  <2>4. Files
    BY <2>1, <2>2, ClosingsChange, JournalAssumption
    DEF Files, Verified, OpenReadable, SeqRange, Appending, Filed
  <2>5. Knowing
    BY <2>1 DEF Knowing, Written, Appending, Filed
  <2>6. Rising
    BY <2>3 DEF Rising
  <2>7. Bounded
    <3>1. crashes = 0 /\ faults = 0 /\ Len(OpenLines) = 0
      BY <2>3 DEF Init
    <3> QED
      BY <3>1, JournalAssumption DEF Bounded
  <2> QED
    BY <2>4, <2>5, <2>6, <2>7
<1>2. Shape /\ LegacyFirst /\ Sealing /\ Files /\ [Next]_vars => Files'
  <2> SUFFICES ASSUME Shape, LegacyFirst, Sealing, Files, [Next]_vars PROVE Files'
    OBVIOUS
  <2>1. CASE UNCHANGED vars
    BY <2>1, DiskQuiet DEF vars, disk, Files
  <2> QED
    BY <2>1, FilesRead, FilesOpening, FilesFiling, FilesFault DEF Next, AppendStep
<1>3. Shape /\ LegacyFirst /\ Sealing /\ Files /\ Knowing /\ Rising /\ Bounded /\ [Next]_vars
      => Knowing' /\ Rising' /\ Bounded'
  BY KnowingNext, RisingNext, BoundedNext
<1> QED
  BY <1>1, <1>2, <1>3, SealingInvariant, PTL DEF Spec, Sound

\* Outside the windows the journal can be read whenever no operation is under
\* way: the digests the manifest holds agree, no unreadable line is left before
\* the end and no version goes back, after any kill and any failed write.
THEOREM JournalReadable ==
  ASSUME Disciplined
  PROVE  Spec => []Readable
<1>1. Sound => Readable
  <2> SUFFICES ASSUME Sound, step = "idle" PROVE Loads
    BY DEF Readable
  <2>1. Verified /\ OpenReadable /\ Open.tail \notin Records
    BY DEF Sound, Files
  <2>2. \A s : LinesOf(s) = Content(s).lines
    BY DEF LinesOf, OpenLines, Open
  <2>3. Replayable
    <3> DEFINE lines == UNION {{s} \X DOMAIN Content(s).lines : s \in Listed}
               at(p) == Content(p[1]).lines[p[2]]
               before(p, q) == p[1] < q[1] \/ (p[1] = q[1] /\ p[2] < q[2])
    <3>1. ASSUME NEW q \in lines
          PROVE  q[1] \in Listed /\ q[2] \in DOMAIN LinesOf(q[1]) /\ at(q) = LinesOf(q[1])[q[2]]
      <4>1. PICK s \in Listed : q \in {s} \X DOMAIN Content(s).lines
        OBVIOUS
      <4>2. q[1] = s /\ q[2] \in DOMAIN Content(s).lines
        BY <4>1
      <4> QED
        BY <2>2, <4>2
    <3>2. ASSUME NEW q \in lines, NEW p \in lines, before(p, q)
          PROVE  Rises(at(p), at(q))
      <4>1. /\ p[1] \in Listed /\ p[2] \in DOMAIN LinesOf(p[1]) /\ at(p) = LinesOf(p[1])[p[2]]
            /\ q[1] \in Listed /\ q[2] \in DOMAIN LinesOf(q[1]) /\ at(q) = LinesOf(q[1])[q[2]]
        BY <3>1
      <4>2. before(p, q)
        BY <3>2
      <4> HIDE DEF lines, at
      <4> QED
        BY <4>1, <4>2 DEF Sound, Rising
    <3>3. ASSUME NEW q \in lines, NEW r \in InSnapshot PROVE Rises(r, at(q))
      <4>1. q[1] \in Listed /\ q[2] \in DOMAIN LinesOf(q[1]) /\ at(q) = LinesOf(q[1])[q[2]]
        BY <3>1
      <4> HIDE DEF lines, at
      <4> QED
        BY <4>1 DEF Sound, Rising
    <3>4. \A r : Rises(r, Open.tail)
      BY <2>1 DEF Rises
    <3> QED
      BY <3>2, <3>3, <3>4 DEF Replayable, Rises, Listed
  <2> QED
    BY <2>1, <2>3 DEF Loads
<1> QED
  BY <1>1, SoundInvariant, PTL

\* The open segment outgrows its limit only by the appends interrupted before
\* append could rotate it.
THEOREM JournalBounded ==
  ASSUME Disciplined
  PROVE  Spec => []OpenSegmentBounded
<1>1. Sound => OpenSegmentBounded
  BY DEF Sound, Bounded, OpenLines, OpenSegmentBounded
<1> QED
  BY <1>1, SoundInvariant, PTL

\* Outside the windows the journal implements DurableLog: rotation, folding, the
\* folding of the v1 records, recovery of a partial line, kills and failed writes
\* never move an item back, and only an append moves one, by one version.
THEOREM JournalDurable ==
  ASSUME Disciplined
  PROVE  Spec => ImplementsDurableLog
<1>1. Init => Abstract!Init
  <2> SUFFICES ASSUME Init PROVE Visible \in [Items -> 0..Last]
    BY DEF Abstract!Init
  <2>1. step = "idle"
    BY DEF Init
  <2> QED
    BY <2>1, Seen, LatestType
<1>2. Sound /\ [Next]_vars => [Abstract!Next]_Visible
  <2> SUFFICES ASSUME Sound, [Next]_vars PROVE [Abstract!Next]_Visible
    OBVIOUS
  <2>1. Shape /\ LegacyFirst /\ Sealing /\ Files /\ Knowing
    BY DEF Sound
  <2>2. Visible' = Visible \/ Moves
    BY <2>1, SeenStutter, SeenRead, SeenOpening, SeenFiling, SeenWrite, SeenFault, NoRefusal
    DEF Next, AppendStep
  <2>3. ASSUME Moves PROVE Abstract!Next
    <3>1. /\ rec[1] \in Items /\ Visible[rec[1]] < Last
          /\ Visible' = [Visible EXCEPT ![rec[1]] = Visible[rec[1]] + 1]
      BY <2>3 DEF Moves
    <3> QED
      BY <3>1 DEF Abstract!Next, Abstract!Append
  <2> QED
    BY <2>2, <2>3
<1> QED
  BY <1>1, <1>2, SoundInvariant, PTL DEF Spec, ImplementsDurableLog, Abstract!Spec

=============================================================================
