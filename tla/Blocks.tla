------------------------------- MODULE Blocks -------------------------------
(***************************************************************************)
(* Records and blocks: where on a drive a header is, how the scans of      *)
(* pkg/recovery (Index, Query) get from one header to the next, and        *)
(* whether Fetch finds a header where they say it is.                      *)
(*                                                                         *)
(* A regular file is one sequence of units; a tape is a sequence of files, *)
(* each ended by a file mark, which counts as a record.                    *)
(***************************************************************************)
EXTENDS Archives, SequencesExt, FiniteSetsExt

CONSTANTS Padding,      \* zero blocks behind an archive of another program
          MaxHeaders,   \* bound: headers on the drive
          MaxBatch,     \* bound: headers of one operation
          Permit        \* liberties of the environment:
                        \*  "tear"    a process dies while it writes
                        \*  "foreign" the drive is an archive of another program

ASSUME BlocksAssumption ==
  Padding \subseteq Nat /\ MaxHeaders \in Nat /\ MaxBatch \in Nat

VARIABLES
  isRegular, \* DriveIsRegular: a file, not a tape
  medium,    \* the files on the drive; one, if it is regular
  headers,   \* history: the headers on the drive
  intact,    \* history: how many of them precede the first torn archive
  torn,      \* history: there is a torn archive on the drive
  index,     \* what was indexed: the id of each header, its record and block
  listed,    \* the same of the last Query
  trusted,   \* the index is that of the whole drive
  scan       \* the scan under way

blocksVars == <<isRegular, medium, headers, intact, torn, index, listed, trusted, scan>>

RowAt(id, record, block) == [id |-> id, record |-> record, block |-> block]

-----------------------------------------------------------------------------
(* Positions.                                                              *)

RecordsIn(units) == (Len(units) + RecordUnits - 1) \div RecordUnits

FirstRecords(files) ==
  LET first[f \in 1 .. Len(files) + 1] ==
        IF f = 1 THEN 0 ELSE first[f - 1] + RecordsIn(files[f - 1]) + 1
  IN  first

EndOfData == Len(medium) + 1
FirstRecord(file) == FirstRecords(medium)[file]

UnitsOf(file) == IF file \in DOMAIN medium THEN medium[file] ELSE <<>>

(* Seek to record and block.                                               *)
FileWith(record) ==
  IF isRegular THEN 1 ELSE Max({f \in 1 .. EndOfData : FirstRecord(f) <= record})

(* Faulty: to the record only.                                             *)
OffsetInRecord(file, record, block) ==
  (record - IF isRegular THEN 0 ELSE FirstRecord(file)) * RecordUnits

OffsetIn(file, record, block) ==
  LET first == IF isRegular THEN 0 ELSE FirstRecord(file)
  IN  ((record - first) * RecordSize + block) * BlockUnits

(* Faulty: the block that holds the end of the content.                    *)
TotalBlocksDown(units) == units \div BlockUnits

(* math.Ceil(bytes / MagneticTapeBlockSize)                                *)
TotalBlocks(units) == (units + BlockUnits - 1) \div BlockUnits

RecordOf(total) == total \div RecordSize
BlockOf(total) == total - RecordOf(total) * RecordSize

(* What Fetch reads at a record and block.                                 *)
Fetch(record, block) ==
  LET file == FileWith(record)
  IN  ReadNext(headers, UnitsOf(file), OffsetIn(file, record, block), 0)

-----------------------------------------------------------------------------
(* Scans.  by is Index after an operation, Index of everything or Query;   *)
(* the first offset headers are ignored, from is the number of headers     *)
(* before those the operation has written and keeps in memory.  counter is *)
(* BytesRead of the CounterReader the variable counter refers to, counts   *)
(* says whether the tar reader reads through that one.                     *)

Idle == [pc |-> "idle"]

Scan(by, offset, from, record, block) ==
  LET file == FileWith(record)
  IN  [pc |-> "next", by |-> by, offset |-> offset, from |-> from, i |-> 0,
       record |-> record, block |-> block,
       file |-> file, at |-> OffsetIn(file, record, block), pad |-> 0,
       counter |-> (record * RecordSize + block) * BlockUnits, counts |-> TRUE]

LastIndexed ==
  LET Location(r) == r.record * RecordSize + r.block
  IN  IF index = <<>> THEN RowAt(Ghost, 0, 0)
      ELSE CHOOSE r \in ToSet(index) : \A s \in ToSet(index) : Location(s) <= Location(r)

(* Faulty: nothing is ignored.                                             *)
IndexFromLastWhole ==
  Scan("operation", 0, Len(headers), LastIndexed.record, LastIndexed.block)

(* After an operation: from the last indexed header on, which is ignored.  *)
IndexFromLast ==
  Scan("operation", 1, Len(headers), LastIndexed.record, LastIndexed.block)

(* Rows are what a recovery has read from the drive, or the header in      *)
(* memory that is due.                                                     *)
DueId == scan.from + (scan.i - scan.offset) + 1
FoundId(r) == IF scan.by = "operation" THEN DueId ELSE r.id

Found(r, record, block) ==
  LET row == <<RowAt(FoundId(r), record, block)>>
  IN  IF scan.by = "query" THEN listed' = listed \o row /\ UNCHANGED index
      ELSE index' = index \o (IF scan.i < scan.offset THEN <<>> ELSE row) /\ UNCHANGED listed

(* How far the counter is when the tar reader has come to an offset.       *)
Counted(at) == IF scan.counts THEN scan.counter + (at - scan.at) ELSE scan.counter

(* A header: it is indexed, its content read, and the position of what     *)
(* comes next computed, from the drive or from the counter.  A content     *)
(* that is not all there ends the scan with an error, and so does a        *)
(* header the operation does not know of.                                  *)
Take(r, record, block) ==
  LET at == r.at + r.size
      total == TotalBlocks(IF isRegular THEN at ELSE Counted(at))
      unknown == scan.by = "operation" /\ scan.i >= scan.offset /\ DueId > Len(headers)
  IN  IF unknown
        THEN scan' = [scan EXCEPT !.pc = "failed"] /\ UNCHANGED <<index, listed>>
      ELSE /\ Found(r, record, block)
           /\ scan' = IF at > Len(UnitsOf(scan.file))
                        THEN [scan EXCEPT !.pc = "failed"]
                        ELSE [scan EXCEPT !.pc = "next", !.i = @ + 1, !.at = at,
                                          !.pad = PaddingOf(r.size), !.counter = Counted(at),
                                          !.record = RecordOf(total), !.block = BlockOf(total)]

ReadOn == ReadNext(headers, UnitsOf(scan.file), scan.at, scan.pad)

drive == <<isRegular, medium, headers, intact, torn>>

(* Next of the tar reader on a regular file.                               *)
NextHeader ==
  /\ scan.pc = "next" /\ isRegular
  /\ LET r == ReadOn
     IN  IF r.res = "header" THEN Take(r, scan.record, scan.block)
         ELSE /\ scan' = [scan EXCEPT !.pc = "resync", !.at = r.at, !.pad = 0]
              /\ UNCHANGED <<index, listed>>
  /\ UNCHANGED <<drive, trusted>>

(* On a regular file any error, the end included, begins a search block by *)
(* block: seek to the next block, read with a new reader.                  *)
Resync ==
  LET total == TotalBlocks(scan.at)
      r == ReadNext(headers, UnitsOf(1), total * BlockUnits, 0)
  IN  /\ scan.pc = "resync"
      /\ CASE r.res = "header" -> Take(r, RecordOf(total), BlockOf(total))
           [] r.res = "error"  -> /\ scan' = [scan EXCEPT !.at = r.at]
                                  /\ UNCHANGED <<index, listed>>
           [] r.res = "eof"    -> /\ scan' = [scan EXCEPT !.pc = "mark", !.at = r.at]
                                  /\ UNCHANGED <<index, listed>>
      /\ UNCHANGED <<drive, trusted>>

(* Faulty: the end of the drive is not noticed.                            *)
SkipMarkBlindly ==
  /\ scan.pc = "mark"
  /\ scan' = [scan EXCEPT !.pc = IF scan.by = "query" THEN "done" ELSE "resync"]
  /\ UNCHANGED <<drive, index, listed, trusted>>

(* Query ends at two blocks of zeros that no header follows.  Index reads  *)
(* two blocks more, and goes on unless there are none; its reader has seen *)
(* the end and fails at once.                                              *)
SkipMark ==
  /\ scan.pc = "mark"
  /\ scan' = IF scan.by = "query" \/ scan.at >= Len(UnitsOf(1))
               THEN [scan EXCEPT !.pc = "done"]
               ELSE [scan EXCEPT !.pc = "resync",
                                 !.at = Min({@ + 2 * BlockUnits, Len(UnitsOf(1))})]
  /\ UNCHANGED <<drive, index, listed, trusted>>

(* Faulty: as Query does, Index lets counter refer to the old reader.      *)
FileMarkStale ==
  IF scan.file = EndOfData THEN [scan EXCEPT !.pc = "done"]
  ELSE [scan EXCEPT !.file = @ + 1, !.at = 0, !.pad = 0, !.counts = FALSE,
                    !.record = FirstRecord(scan.file + 1), !.block = 0]

(* The end of an archive on a tape: to the next file, unless there is      *)
(* none.  Query declares a counter of its own for the new reader and goes  *)
(* on asking the old one.                                                  *)
FileMark ==
  LET record == FirstRecord(scan.file + 1)
      next == [scan EXCEPT !.file = @ + 1, !.at = 0, !.pad = 0, !.record = record, !.block = 0]
  IN  IF scan.file = EndOfData THEN [scan EXCEPT !.pc = "done"]
      ELSE IF scan.by = "query" THEN [next EXCEPT !.counts = FALSE]
      ELSE [next EXCEPT !.counter = record * RecordUnits]

(* Next of the tar reader on a tape.                                       *)
NextOnTape ==
  /\ scan.pc = "next" /\ ~isRegular
  /\ LET r == ReadOn
     IN  \/ r.res = "header" /\ Take(r, scan.record, scan.block)
         \/ r.res = "eof" /\ scan' = FileMark /\ UNCHANGED <<index, listed>>
         \/ /\ r.res = "error" /\ scan' = [scan EXCEPT !.pc = "failed"]
            /\ UNCHANGED <<index, listed>>
  /\ UNCHANGED <<drive, trusted>>

(* Index or Query returns.                                                 *)
ScanEnd ==
  /\ scan.pc \in {"done", "failed"}
  /\ scan' = Idle /\ listed' = <<>>
  /\ trusted' = IF scan.by = "query" THEN trusted ELSE scan.pc = "done"
  /\ UNCHANGED <<drive, index>>

-----------------------------------------------------------------------------
(* Operations and recovery.                                                *)

Batches == UNION {[1 .. n -> HeaderShape] : n \in 1 .. MaxBatch}

(* A regular file is appended to; on a tape a new file begins, and closing *)
(* the drive writes its mark.                                              *)
Appended(out) ==
  IF isRegular THEN <<medium[1] \o out>>
  ELSE IF out = <<>> THEN medium ELSE Append(medium, out)

Extend(batch) ==
  /\ scan = Idle /\ trusted
  /\ Len(headers) + Len(batch) <= MaxHeaders
  /\ headers' = headers \o batch
  /\ UNCHANGED <<isRegular, index, listed>>

Operation(batch) ==
  /\ Extend(batch) /\ index # <<>>
  /\ medium' = Appended(Archive(isRegular, Len(headers) + 1, batch))
  /\ intact' = IF torn THEN intact ELSE Len(headers')
  /\ scan' = IndexFromLast
  /\ UNCHANGED <<torn, trusted>>

(* Archive with overwrite: the drive is cleared and the index purged.      *)
(* (What comes of it does not depend on what was there.)                   *)
Overwrite(batch) ==
  /\ scan = Idle /\ index = <<>>
  /\ headers' = batch /\ intact' = Len(batch) /\ torn' = FALSE
  /\ medium' = <<Archive(isRegular, 1, batch)>>
  /\ index' = <<>> /\ trusted' = FALSE
  /\ scan' = Scan("operation", 0, 0, 0, 0)
  /\ UNCHANGED <<isRegular, listed>>

(* The process dies when n units of the archive are on the drive.          *)
Tear(batch) ==
  /\ "tear" \in Permit /\ Extend(batch)
  /\ LET out == Archive(isRegular, Len(headers) + 1, batch)
     IN  \E n \in TearPoints(isRegular, out) :
           /\ medium' = Appended(SubSeq(out, 1, n))
           /\ torn' = (torn \/ n < Len(out))
           /\ intact' = IF torn' THEN intact ELSE Len(headers')
  /\ trusted' = FALSE
  /\ UNCHANGED scan

(* stfs recovery index -o                                                  *)
RecoveryIndex ==
  /\ scan = Idle
  /\ index' = <<>>
  /\ scan' = Scan("recovery", 0, 0, 0, 0)
  /\ UNCHANGED <<drive, listed, trusted>>

(* stfs recovery query, from a header the index knows of.                  *)
Query(row) ==
  /\ scan = Idle /\ trusted
  /\ scan' = Scan("query", 0, 0, row.record, row.block)
  /\ UNCHANGED <<drive, index, listed, trusted>>

-----------------------------------------------------------------------------
(* An empty drive, or the archive of another program, whose zeros fill it  *)
(* up to a size of its own.                                                *)
Empty == headers = <<>> /\ medium = IF isRegular THEN <<<<>>>> ELSE <<>>

ForeignArchive ==
  /\ "foreign" \in Permit
  /\ \E h \in HeaderShape, blocks \in Padding :
       /\ headers = <<h>>
       /\ medium = <<Entry(1, h) \o Zeros(blocks * BlockUnits)>>

Init ==
  /\ isRegular \in BOOLEAN
  /\ Empty \/ ForeignArchive
  /\ intact = Len(headers) /\ torn = FALSE
  /\ index = <<>> /\ listed = <<>> /\ trusted = FALSE /\ scan = Idle

ScanStep == NextHeader \/ Resync \/ SkipMark \/ NextOnTape \/ ScanEnd

Next ==
  \/ \E batch \in Batches : Operation(batch) \/ Overwrite(batch) \/ Tear(batch)
  \/ RecoveryIndex
  \/ \E row \in ToSet(index) : Query(row)
  \/ ScanStep

Spec == Init /\ [][Next]_blocksVars

-----------------------------------------------------------------------------
Ids(rows) == [i \in DOMAIN rows |-> rows[i].id]
Places(rows) == [i \in DOMAIN rows |-> <<rows[i].record, rows[i].block>>]

(* What precedes the first torn archive can be fetched from the record and *)
(* block the index has for it.                                             *)
Fetchable ==
  \A r \in ToSet(index) :
    r.id \in 1 .. intact =>
      LET found == Fetch(r.record, r.block) IN found.res = "header" /\ found.id = r.id

(* When Index returns, the index has every header before the first torn    *)
(* archive, once and in the order of the drive, and, without one, nothing  *)
(* else.                                                                   *)
IndexComplete ==
  scan.pc \in {"done", "failed"} /\ scan.by # "query" =>
    /\ Len(index) >= intact
    /\ \A i \in 1 .. intact : index[i].id = i
    /\ ~torn => scan.pc = "done" /\ Len(index) = intact

(* The record and block of a header come after those of the one before, so *)
(* that the last one is where the next operation has to go on.             *)
Ascending ==
  \A i, j \in DOMAIN index :
    i < j => \/ index[i].record < index[j].record
             \/ index[i].record = index[j].record /\ index[i].block < index[j].block

(* From wherever it starts, Query finds the headers that are indexed from  *)
(* there on; on a regular file where they are indexed.                     *)
QueryFinds ==
  scan.pc \in {"done", "failed"} /\ scan.by = "query" /\ ~torn =>
    /\ scan.pc = "done"
    /\ \E start \in DOMAIN index :
         LET rest == SubSeq(index, start, Len(index))
         IN  Ids(listed) = Ids(rest) /\ (isRegular => Places(listed) = Places(rest))

(* The record and block Query prints for a header are those it is fetched  *)
(* from.                                                                   *)
QueryIsFetchable ==
  scan.pc = "done" /\ scan.by = "query" /\ ~torn =>
    \A r \in ToSet(listed) : Fetch(r.record, r.block).id = r.id

(* Every step of a scan takes it further along the drive, or closer to its *)
(* return where it is: none ever goes round in circles, whatever is on the *)
(* drive.                                                                  *)
Phase == [next |-> 0, resync |-> 1, mark |-> 2, done |-> 3, failed |-> 3]

Further(s, t) ==
  \/ s.file < t.file
  \/ s.file = t.file /\ s.at < t.at
  \/ s.file = t.file /\ s.at = t.at /\ Phase[s.pc] < Phase[t.pc]

ScanAdvances ==
  [][scan # Idle /\ scan' # Idle => Further(scan, scan')]_scan
=============================================================================
