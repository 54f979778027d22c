------------------------------- MODULE Journal -------------------------------
(***************************************************************************)
(* BoundedOperationalJournal (application/bounded_journal.py) under the    *)
(* stores that use it: MultiAssetScheduleStateStore of                     *)
(* application/multi_asset_scheduler.py and DesktopNotificationStore of    *)
(* alerts/desktop_notifications.py.                                        *)
(*                                                                         *)
(* A record is an item and the version it reaches.  Every file the journal *)
(* touches is a variable, every change of one file a step, and the process *)
(* may be killed or the disk may fail at each of them.  A file is its      *)
(* content, and so is its digest.  The journal's lock is held from the     *)
(* first to the last step of an operation, so steps of two never mix.      *)
(***************************************************************************)
EXTENDS Naturals, Sequences, FiniteSets

CONSTANTS
  Items,          \* what is recorded: attempts, deliveries
  Last,           \* the last version of an item (RUNNING = 1, finished = 2)
  Legacy,         \* the records a v1 file may hold
  SegmentLimit,   \* max_segment_bytes, in records
  Reloads,        \* after a failed append the store reads again before the next
  Windows,        \* the faults allowed: see Torn, and the guards that name them
  MaxSegments,    \* bound: segment files
  MaxCrashes,     \* bound: kills of the process
  MaxFaults,      \* bound: writes that fail
  None, Garbage   \* no file, no record, no tail; bytes that are not a record

Records == Items \X (1..Last)

Lines == Records \cup {Garbage}
File == [lines : Seq(Lines), tail : Lines \cup {None}]

ASSUME JournalAssumption ==
  /\ Last \in Nat /\ SegmentLimit \in Nat \ {0} /\ MaxSegments \in Nat \ {0, 1}
  /\ MaxCrashes \in Nat /\ MaxFaults \in Nat
  /\ Reloads \in BOOLEAN
  /\ Windows \subseteq {"fold", "truncate", "newline"}
  /\ Legacy \subseteq Records
  /\ None \notin Records /\ Garbage \notin Records \cup {None}
  /\ \A R \in SUBSET Records : R # None
  /\ None \notin File

VARIABLES
  manifest,    \* manifest.json; open = 0 when it does not exist
  snapshot,    \* snapshot.json: a set of records, or None
  seg,         \* the segment files: complete lines and what follows them, or None
  legacyFile,  \* the v1 file: a set of records, or None
  step,        \* the next step of the operation under way
  rec,         \* the record being appended
  saved,       \* the lines a read will write back
  known,       \* the state the store holds in memory
  loaded,      \* it does hold one
  crashes,     \* kills so far
  faults,      \* failed writes so far
  acked,       \* history: the versions acknowledged to a caller
  sealed       \* history: what closed segments or snapshots have held

disk == <<manifest, snapshot, seg, legacyFile>>
memory == <<step, rec, saved, known, loaded>>
bounds == <<crashes, faults>>
vars == <<manifest, snapshot, seg, legacyFile, step, rec, saved, known, loaded,
          crashes, faults, acked, sealed>>

Steps == {"idle", "legacy", "legacySave", "stub", "manifest", "line", "close",
          "fold", "unlink", "save", "truncated"}

Segments == 1..MaxSegments
Empty == [lines |-> <<>>, tail |-> None]
NoManifest == [open |-> 0, closed |-> <<>>, snap |-> None, folded |-> FALSE]

\* The content of a segment file; one that does not exist reads as empty.
Content(s) == IF s \notin Segments \/ seg[s] = None THEN Empty ELSE seg[s]
Open == Content(manifest.open)

SeqRange(q) == {q[n] : n \in DOMAIN q}

\* The records of a segment: a last line without newline counts if it parses.
InSegment(c) == (SeqRange(c.lines) \cup {c.tail}) \cap Records
InSnapshot == IF manifest.snap = None THEN {} ELSE snapshot
InClosed == UNION {InSegment(Content(s)) : s \in DOMAIN manifest.closed}
InLegacy == IF legacyFile = None \/ manifest.folded THEN {} ELSE legacyFile

\* The latest version of each item among these records, 0 for none.
Latest(R) ==
  [k \in Items |-> CHOOSE v \in 0..Last :
     /\ v = 0 \/ <<k, v>> \in R
     /\ \A w \in 1..Last : <<k, w>> \in R => w <= v]

-----------------------------------------------------------------------------
(* Reading *)

\* Fault: a closed segment that is missing reads as empty.
VerifiedIfPresent ==
  /\ manifest.snap # None => snapshot = manifest.snap
  /\ \A s \in DOMAIN manifest.closed : seg[s] \in {None, manifest.closed[s]}

\* _load_snapshot and _read_closed_segment: digests agree, or the read fails.
Verified ==
  /\ manifest.snap # None => snapshot = manifest.snap
  /\ \A s \in DOMAIN manifest.closed : seg[s] = manifest.closed[s]

\* _read_open_segment: an unreadable line before the end of the file fails.
OpenReadable == Garbage \notin SeqRange(Open.lines)

\* The load validates every lifecycle: an item's versions only go up.
Replayable ==
  LET lines == UNION {{s} \X DOMAIN Content(s).lines :
                        s \in DOMAIN manifest.closed \cup {manifest.open}}
      at(p) == Content(p[1]).lines[p[2]]
      before(p, q) == p[1] < q[1] \/ (p[1] = q[1] /\ p[2] < q[2])
      rises(r, t) == r \in Records /\ t \in Records /\ r[1] = t[1] => r[2] < t[2]
  IN  \A q \in lines :
        /\ \A p \in lines : before(p, q) => rises(at(p), at(q))
        /\ \A r \in InSnapshot : rises(r, at(q))
        /\ rises(at(q), Open.tail)
        /\ \A r \in InSnapshot : rises(r, Open.tail)

Loads == Verified /\ OpenReadable /\ Replayable

\* What a read returns: the latest version of every item.
Stored == Latest(InLegacy \cup InSnapshot \cup InClosed \cup InSegment(Open))

-----------------------------------------------------------------------------
Init ==
  /\ manifest = NoManifest
  /\ snapshot = None
  /\ seg = [s \in Segments |-> None]
  /\ legacyFile \in {None, {}, Legacy}
  /\ step = "idle"
  /\ rec = None
  /\ saved = <<>>
  /\ known = [k \in Items |-> 0]
  /\ loaded = FALSE
  /\ crashes = 0
  /\ faults = 0
  /\ acked = Latest(InLegacy)
  /\ sealed = Latest({})

\* A read that finds whole lines only.
Load ==
  /\ step = "idle"
  /\ Loads
  /\ Open.tail # Garbage
  /\ known' = Stored
  /\ loaded' = TRUE
  /\ UNCHANGED <<disk, step, rec, saved, bounds, acked, sealed>>

\* A read that finds a partial line at the end opens the file for writing,
\* which empties it ...
Truncate ==
  /\ step = "idle"
  /\ Verified
  /\ OpenReadable
  /\ Open.tail = Garbage
  /\ saved' = Open.lines
  /\ seg' = [seg EXCEPT ![manifest.open] = Empty]
  /\ step' = "truncated"
  /\ UNCHANGED <<manifest, snapshot, legacyFile, rec, known, loaded, bounds, acked, sealed>>

\* Fault: the last complete line goes with the partial one.
RewriteOneLess ==
  /\ step = "truncated"
  /\ seg' = [seg EXCEPT ![manifest.open] =
               [lines |-> SubSeq(saved, 1, Len(saved) - 1), tail |-> None]]
  /\ step' = "idle"
  /\ saved' = <<>>
  /\ UNCHANGED <<manifest, snapshot, legacyFile, rec, known, loaded, bounds, acked, sealed>>

\* ... and writes the confirmed lines back.
Rewrite ==
  /\ step = "truncated"
  /\ seg' = [seg EXCEPT ![manifest.open] = [lines |-> saved, tail |-> None]]
  /\ step' = "idle"
  /\ saved' = <<>>
  /\ UNCHANGED <<manifest, snapshot, legacyFile, rec, known, loaded, bounds, acked, sealed>>

-----------------------------------------------------------------------------
(* Appending *)

\* The operation raises: the store may or may not keep what it had in memory.
Raise ==
  /\ step' = "idle"
  /\ rec' = None
  /\ saved' = <<>>
  /\ loaded' = (loaded /\ ~Reloads)
  /\ UNCHANGED known

\* The operation returns: the record is acknowledged.
Return ==
  /\ step' = "idle"
  /\ rec' = None
  /\ known' = [known EXCEPT ![rec[1]] = rec[2]]
  /\ acked' = [acked EXCEPT ![rec[1]] = rec[2]]
  /\ UNCHANGED <<saved, loaded>>

GoOn(s) == step' = s /\ UNCHANGED <<rec, saved, known, loaded>>

\* A store that holds a state appends the next version of an item.
StartAppend(k) ==
  /\ step = "idle"
  /\ loaded
  /\ known[k] < Last
  /\ manifest.open < MaxSegments
  /\ rec' = <<k, known[k] + 1>>
  /\ step' = IF legacyFile = None THEN "stub"
             ELSE IF ~manifest.folded THEN "legacy"
             ELSE IF manifest.open = 0 THEN "manifest" ELSE "line"
  /\ UNCHANGED <<disk, saved, known, loaded, bounds, acked, sealed>>

\* initialize_snapshot_with_legacy writes the snapshot of the v1 records.
FoldLegacy ==
  /\ step = "legacy"
  /\ legacyFile # {}
  /\ snapshot' = legacyFile
  /\ GoOn("legacySave")
  /\ UNCHANGED <<manifest, seg, legacyFile, bounds, acked, sealed>>

OpenName == IF manifest.open = 0 THEN 1 ELSE manifest.open

\* ... and the manifest that refers to it.
SaveLegacy ==
  /\ step = "legacySave"
  /\ manifest' = [manifest EXCEPT !.snap = snapshot, !.folded = TRUE, !.open = OpenName]
  /\ GoOn("line")
  /\ UNCHANGED <<snapshot, seg, legacyFile, bounds, acked, sealed>>

\* mark_legacy_v1_folded: the v1 file holds nothing.
MarkLegacy ==
  /\ step = "legacy"
  /\ legacyFile = {}
  /\ manifest' = [manifest EXCEPT !.folded = TRUE, !.open = OpenName]
  /\ GoOn("line")
  /\ UNCHANGED <<snapshot, seg, legacyFile, bounds, acked, sealed>>

\* No v1 file: an empty one is written first.
WriteStub ==
  /\ step = "stub"
  /\ legacyFile' = {}
  /\ GoOn(IF manifest.open = 0 THEN "manifest" ELSE "line")
  /\ UNCHANGED <<manifest, snapshot, seg, bounds, acked, sealed>>

\* append: the manifest is created with the first segment.
CreateManifest ==
  /\ step = "manifest"
  /\ manifest' = [manifest EXCEPT !.open = 1]
  /\ GoOn("line")
  /\ UNCHANGED <<snapshot, seg, legacyFile, bounds, acked, sealed>>

-----------------------------------------------------------------------------
(* The line, the rotation and the fold *)

\* A whole line written after what the file ends with: on a last line without
\* its newline the two become one that does not parse.
Extended(c, r) ==
  [lines |-> Append(c.lines, IF c.tail = None THEN r ELSE Garbage), tail |-> None]

\* A part of the line, or all of it but the newline.
Partial(c) == [c EXCEPT !.tail = Garbage]
Unended(c, r) == [c EXCEPT !.tail = IF @ = None THEN r ELSE Garbage]

Write(c) == seg' = [seg EXCEPT ![manifest.open] = c]

\* What a write cut short leaves: nothing, a part, all; the newline alone is
\* missing only in the window of that name.
Torn ==
  \/ UNCHANGED seg
  \/ Write(Partial(Open))
  \/ Write(Extended(Open, rec))
  \/ "newline" \in Windows /\ Write(Unended(Open, rec))

\* Fault: the segment may reach its limit and keep the next line.
PastLimit(c) == Len(c.lines) + (IF c.tail = None THEN 0 ELSE 1) > SegmentLimit

\* st_size >= max_segment_bytes; nothing counts the records.
Full(c) == Len(c.lines) + (IF c.tail = None THEN 0 ELSE 1) >= SegmentLimit

\* The line is written and the segment still has room: append returns.
WriteLine ==
  /\ step = "line"
  /\ Write(Extended(Open, rec))
  /\ ~Full(Extended(Open, rec))
  /\ Return
  /\ UNCHANGED <<manifest, snapshot, legacyFile, bounds, sealed>>

\* The line is written and fills the segment: append rotates.
FillSegment ==
  /\ step = "line"
  /\ Write(Extended(Open, rec))
  /\ Full(Extended(Open, rec))
  /\ GoOn("close")
  /\ UNCHANGED <<manifest, snapshot, legacyFile, bounds, acked, sealed>>

\* Fault: the next segment takes the name of the closed one.
CloseInPlace ==
  /\ step = "close"
  /\ OpenReadable
  /\ manifest' = [manifest EXCEPT !.closed =
                    [s \in DOMAIN manifest.closed \cup {manifest.open} |->
                       IF s = manifest.open THEN Open ELSE manifest.closed[s]]]
  /\ sealed' = Latest(InSnapshot \cup InClosed \cup InSegment(Open))
  /\ GoOn("fold")
  /\ UNCHANGED <<snapshot, seg, legacyFile, bounds, acked>>

\* rotate: the manifest closes the segment with its digest and names the next.
Close ==
  /\ step = "close"
  /\ OpenReadable
  /\ manifest' = [manifest EXCEPT !.open = @ + 1, !.closed =
                    [s \in DOMAIN manifest.closed \cup {manifest.open} |->
                       IF s = manifest.open THEN Open ELSE manifest.closed[s]]]
  /\ sealed' = Latest(InSnapshot \cup InClosed \cup InSegment(Open))
  /\ GoOn("fold")
  /\ UNCHANGED <<snapshot, seg, legacyFile, bounds, acked>>

\* The reducer: one record for each item, its latest.
Reduced(R) == {r \in R : r[2] = Latest(R)[r[1]]}

\* fold_snapshot: the old snapshot and the closed segments become the new one.
Fold ==
  /\ step = "fold"
  /\ Verified
  /\ snapshot' = Reduced(InSnapshot \cup InClosed)
  /\ GoOn("unlink")
  /\ UNCHANGED <<manifest, seg, legacyFile, bounds, acked, sealed>>

\* The closed segment files are removed, oldest first ...
Unlink ==
  /\ step = "unlink"
  /\ \E s \in DOMAIN manifest.closed :
       /\ seg[s] # None
       /\ \A t \in DOMAIN manifest.closed : seg[t] # None => s <= t
       /\ seg' = [seg EXCEPT ![s] = None]
  /\ GoOn(step)
  /\ UNCHANGED <<manifest, snapshot, legacyFile, bounds, acked, sealed>>

UnlinkDone ==
  /\ step = "unlink"
  /\ \A s \in DOMAIN manifest.closed : seg[s] = None
  /\ GoOn("save")
  /\ UNCHANGED <<disk, bounds, acked, sealed>>

\* Fault: the manifest keeps the descriptors of what was folded.
SaveFoldKeepingClosed ==
  /\ step = "save"
  /\ manifest' = [manifest EXCEPT !.snap = snapshot]
  /\ Return
  /\ UNCHANGED <<snapshot, seg, legacyFile, bounds, sealed>>

\* ... and only then does the manifest refer to the new snapshot.
SaveFold ==
  /\ step = "save"
  /\ manifest' = [manifest EXCEPT !.snap = snapshot, !.closed = <<>>]
  /\ Return
  /\ UNCHANGED <<snapshot, seg, legacyFile, bounds, sealed>>

\* What rotate or fold_snapshot reads does not verify: append raises, although
\* the line is written.
Refuse ==
  /\ \/ step = "close" /\ ~OpenReadable
     \/ step = "fold" /\ ~Verified
  /\ Raise
  /\ UNCHANGED <<disk, bounds, acked, sealed>>

-----------------------------------------------------------------------------
(* Faults *)

WriteFails == faults < MaxFaults /\ faults' = faults + 1

\* A file replaced atomically is as it was; append or rotate raises.
ReplaceFault ==
  /\ \/ step \in {"legacy", "legacySave", "stub", "manifest", "close", "fold"}
     \/ step = "save" /\ "fold" \in Windows
  /\ WriteFails
  /\ Raise
  /\ UNCHANGED <<disk, crashes, acked, sealed>>

\* The line is cut short, or only its fsync fails: append raises.
LineFault ==
  /\ step = "line"
  /\ WriteFails
  /\ Torn
  /\ Raise
  /\ UNCHANGED <<manifest, snapshot, legacyFile, crashes, acked, sealed>>

\* A segment cannot be removed: append swallows the OSError and returns.
UnlinkFault ==
  /\ step = "unlink"
  /\ "fold" \in Windows
  /\ WriteFails
  /\ Return
  /\ UNCHANGED <<disk, crashes, sealed>>

\* The confirmed lines come back in part.
RewritePrefix ==
  \E n \in 0..Len(saved) : Write([lines |-> SubSeq(saved, 1, n), tail |-> None])

RewriteFault ==
  /\ step = "truncated"
  /\ "truncate" \in Windows
  /\ WriteFails
  /\ RewritePrefix
  /\ Raise
  /\ UNCHANGED <<manifest, snapshot, legacyFile, crashes, acked, sealed>>

\* The process is killed; memory is gone.
Crash ==
  /\ crashes < MaxCrashes
  /\ crashes' = crashes + 1
  /\ step \in {"unlink", "save"} => "fold" \in Windows
  /\ step = "truncated" => "truncate" \in Windows
  /\ CASE step = "line" -> Torn
       [] step = "truncated" -> RewritePrefix
       [] OTHER -> UNCHANGED seg
  /\ step' = "idle"
  /\ rec' = None
  /\ saved' = <<>>
  /\ known' = [k \in Items |-> 0]
  /\ loaded' = FALSE
  /\ UNCHANGED <<manifest, snapshot, legacyFile, faults, acked, sealed>>

-----------------------------------------------------------------------------
Read == Load \/ Truncate \/ Rewrite

AppendStep ==
  \/ FoldLegacy \/ SaveLegacy \/ MarkLegacy \/ WriteStub \/ CreateManifest
  \/ WriteLine \/ FillSegment \/ Close \/ Fold \/ Unlink \/ UnlinkDone
  \/ SaveFold \/ Refuse

Fault == ReplaceFault \/ LineFault \/ UnlinkFault \/ RewriteFault

Next == Read \/ (\E k \in Items : StartAppend(k)) \/ AppendStep \/ Fault \/ Crash

Spec == Init /\ [][Next]_vars

-----------------------------------------------------------------------------
(* Properties *)

\* The variables have their types; closed segments come before the open one.
TypeOK ==
  /\ manifest.open \in 0..MaxSegments
  /\ \A s \in DOMAIN manifest.closed : s < manifest.open /\ manifest.closed[s] \in File
  /\ manifest.snap = None \/ manifest.snap \subseteq Records
  /\ manifest.folded \in BOOLEAN
  /\ snapshot = None \/ snapshot \subseteq Records
  /\ \A s \in Segments : seg[s] = None \/ seg[s] \in File
  /\ legacyFile = None \/ legacyFile \subseteq Records
  /\ step \in Steps
  /\ rec \in Records \cup {None}
  /\ saved \in Seq(Records)
  /\ known \in [Items -> 0..Last]
  /\ loaded \in BOOLEAN
  /\ acked \in [Items -> 0..Last]
  /\ sealed \in [Items -> 0..Last]

\* Between operations, whatever crashes and faults interrupted the last one,
\* the journal can be read: nothing locks the service out of its history.
Readable == step = "idle" => Loads

\* ... and a read returns everything that was acknowledged: no rotation, fold,
\* legacy fold or recovery of a partial line drops a confirmed record.
AcknowledgedDurable ==
  step = "idle" => \A k \in Items : acked[k] <= Stored[k]

\* The open segment never outgrows its limit by more than the appends that
\* were interrupted before they could rotate it.
OpenSegmentBounded ==
  step = "idle" => Len(Open.lines) < SegmentLimit + crashes + faults

\* The journal fails closed: whatever fault hit it, a read that succeeds has
\* everything that was once in a closed segment or in a snapshot.
FailsClosed ==
  step = "idle" /\ Loads => \A k \in Items : sealed[k] <= Stored[k]

\* What a reader finds at any step, counting what the operation under way has
\* in memory or has moved but not yet referred to.
Visible ==
  CASE step \in {"unlink", "save"} -> Latest(snapshot \cup InSegment(Open))
    [] step = "truncated" ->
         Latest(InLegacy \cup InSnapshot \cup InClosed \cup SeqRange(saved))
    [] OTHER -> Stored

\* The journal implements DurableLog: only an append, complete or cut short
\* after its line, changes what a reader finds.
Abstract == INSTANCE DurableLog WITH version <- Visible

ImplementsDurableLog == Abstract!Spec
=============================================================================
