------------------------------ MODULE RawStore ------------------------------
(***************************************************************************)
(* The raw records of a workspace (storage/raw_v2.py): one file for each   *)
(* content, named by its checksum, and an index in the database whose rows *)
(* refer to them.                                                          *)
(*                                                                         *)
(* A refresh of the service saves batches of records, in chunks: first the *)
(* files of a chunk, one after another, then its rows in one transaction.  *)
(* With the service down an operator may repair the metadata of a record:  *)
(* a second file, then its row.  Files are replaced whole and never        *)
(* removed.  A process may be killed between any two writes.               *)
(***************************************************************************)
EXTENDS Naturals, Sequences

CONSTANTS
  Records,    \* record identifiers
  Batches,    \* bound: what a refresh may save, sequences of items
  ChunkSize,  \* _RAW_V2_BATCH_CHUNK_SIZE
  MaxSaves,   \* bound: refreshes that end
  MaxCrashes, \* bound: kills and stops of a process
  MaxFaults   \* bound: failed writes and reads

Bodies == {1, 2}  \* contents of a record: as received, and corrected
Items == [id: Records, body: Bodies]

ASSUME RawStoreAssumption ==
  /\ Batches \subseteq Seq(Items)
  /\ ChunkSize \in Nat \ {0}
  /\ MaxSaves \in Nat /\ MaxCrashes \in Nat /\ MaxFaults \in Nat

VARIABLES
  index,    \* durable: the content the row of each record refers to, 0 without a row
  blobs,    \* durable: the files, as the items they hold
  service,  \* up or down
  writer,   \* what holds the store for writing: idle, chunk, items, clear, repair
  list,     \* the items of the batch that are in no chunk yet
  chunk,    \* the items of the chunk that are still to be examined
  rows,     \* the rows to be inserted for the chunk, or to be updated
  saves, crashes, faults  \* bounds used so far

job == <<list, chunk, rows>>
used == <<saves, crashes, faults>>
storeVars == <<index, blobs, service, writer, list, chunk, rows, saves, crashes, faults>>

InitStore ==
  /\ index = [r \in Records |-> 0]
  /\ blobs = {}
  /\ service = "down"
  /\ writer = "idle"
  /\ list = <<>>
  /\ chunk = <<>>
  /\ rows = {}
  /\ saves = 0
  /\ crashes = 0
  /\ faults = 0

WithRows(S) ==
  [r \in Records |->
     IF \E i \in S : i.id = r THEN (CHOOSE i \in S : i.id = r).body ELSE index[r]]

Drop(w) ==
  /\ writer' = w
  /\ list' = <<>>
  /\ chunk' = <<>>
  /\ rows' = {}

-----------------------------------------------------------------------------
(* save_many, under the writer lock of a refresh *)

SaveBegins(batch) ==
  /\ service = "up"
  /\ writer = "idle"
  /\ saves < MaxSaves
  /\ writer' = "chunk"
  /\ list' = batch
  /\ UNCHANGED <<index, blobs, service, chunk, rows, used>>

Least(a, b) == IF a < b THEN a ELSE b

\* The next chunk; two contents of one record in it are a conflict.
TakeChunk ==
  /\ writer = "chunk"
  /\ LET n == Least(ChunkSize, Len(list))
         next == SubSeq(list, 1, n)
     IN IF \E i, j \in 1..n : next[i].id = next[j].id /\ next[i].body # next[j].body
        THEN Drop("clear")
        ELSE /\ writer' = "items"
             /\ list' = SubSeq(list, n + 1, Len(list))
             /\ chunk' = next
             /\ rows' = {}
  /\ UNCHANGED <<index, blobs, service, used>>

\* A record that has its row with this content already, or is met again.
Reuse ==
  /\ writer = "items" /\ chunk # <<>>
  /\ index[Head(chunk).id] = Head(chunk).body \/ Head(chunk) \in rows
  /\ chunk' = Tail(chunk)
  /\ UNCHANGED <<index, blobs, service, writer, list, rows, used>>

\* A record with other content: the batch ends here, with an error.
Conflict ==
  /\ writer = "items" /\ chunk # <<>>
  /\ index[Head(chunk).id] \notin {0, Head(chunk).body}
  /\ Drop("clear")
  /\ UNCHANGED <<index, blobs, service, used>>

\* Fault: the file is left to be written after the row.
WriteBlobLater ==
  /\ writer = "items" /\ chunk # <<>>
  /\ index[Head(chunk).id] = 0 /\ Head(chunk) \notin rows
  /\ rows' = rows \cup {Head(chunk)}
  /\ chunk' = Tail(chunk)
  /\ UNCHANGED <<index, blobs, service, writer, list, used>>

\* A new record: its file comes first.
WriteBlob ==
  /\ writer = "items" /\ chunk # <<>>
  /\ index[Head(chunk).id] = 0 /\ Head(chunk) \notin rows
  /\ blobs' = blobs \cup {Head(chunk)}
  /\ rows' = rows \cup {Head(chunk)}
  /\ chunk' = Tail(chunk)
  /\ UNCHANGED <<index, service, writer, list, used>>

\* The rows of a chunk are inserted in one transaction.
CommitChunk ==
  /\ writer = "items" /\ chunk = <<>>
  /\ index' = WithRows(rows)
  /\ rows' = {}
  /\ writer' = IF list = <<>> THEN "clear" ELSE "chunk"
  /\ UNCHANGED <<blobs, service, list, chunk, used>>

\* A file cannot be written, or the transaction is rolled back.
SaveFails ==
  /\ writer = "items"
  /\ faults < MaxFaults
  /\ faults' = faults + 1
  /\ Drop("clear")
  /\ UNCHANGED <<index, blobs, service, saves, crashes>>

-----------------------------------------------------------------------------
(* repair_temporal_metadata, with the service down *)

\* The corrected file is written; a record that is repaired already is left.
RepairFile(r) ==
  /\ service = "down"
  /\ writer = "idle"
  /\ index[r] = 1
  /\ blobs' = blobs \cup {[id |-> r, body |-> 2]}
  /\ rows' = {[id |-> r, body |-> 2]}
  /\ writer' = "repair"
  /\ UNCHANGED <<index, service, list, chunk, used>>

RepairRow ==
  /\ writer = "repair"
  /\ index' = WithRows(rows)
  /\ Drop("idle")
  /\ UNCHANGED <<blobs, service, used>>

RepairFails ==
  /\ writer = "repair"
  /\ faults < MaxFaults
  /\ faults' = faults + 1
  /\ Drop("idle")
  /\ UNCHANGED <<index, blobs, service, saves, crashes>>

-----------------------------------------------------------------------------
(* The processes that open the store *)

StoreUp ==
  /\ service = "down"
  /\ writer = "idle"
  /\ service' = "up"
  /\ UNCHANGED <<index, blobs, writer, job, used>>

\* A kill of the service, or of a repair.
StoreDown ==
  /\ service = "up" \/ writer = "repair"
  /\ crashes < MaxCrashes
  /\ crashes' = crashes + 1
  /\ service' = "down"
  /\ Drop("idle")
  /\ UNCHANGED <<index, blobs, saves, faults>>

StoreStep ==
  \/ TakeChunk \/ Reuse \/ Conflict \/ WriteBlob \/ CommitChunk \/ SaveFails

RepairStep == (\E r \in Records : RepairFile(r)) \/ RepairRow \/ RepairFails

\* No reader meets a row without its file, whatever was killed or failed
\* between the file and the row of a save or of a repair.
IndexReadable == \A r \in Records : index[r] # 0 => [id |-> r, body |-> index[r]] \in blobs
=============================================================================
