----------------------------- MODULE Operations -----------------------------
(***************************************************************************)
(* The write operations of pkg/operations over one tape and its metadata   *)
(* index.  An operation appends one header (with its content) after the    *)
(* other to the end of the tape and then indexes the tape from the last    *)
(* indexed header on, taking the headers it has just written from memory.  *)
(* diskOperationLock admits one operation at a time; between two steps of  *)
(* it the process may die.  A process that starts opens the index it finds *)
(* (STFS.Initialize); `stfs recovery index` reads the tape from the start. *)
(*                                                                         *)
(* Permit names what clients and the environment may do beyond the plain   *)
(* use of live names:                                                      *)
(*   "crash"     the process dies at any step                              *)
(*   "resume"    it is restarted on the index a crash left behind          *)
(*   "reindex"   recovery index is run without -o (the index is not purged)*)
(*   "overwrite" a used tape is initialized or archived to with -o, which  *)
(*               truncates it                                              *)
(*   "lose"      the index file is lost while no process runs              *)
(*   "fresh"     archive is run without -o before anything is indexed      *)
(*   "reuse"     an entry is moved to a name a deleted row still has       *)
(*   "onto"      an entry is moved to a name that is live                  *)
(*   "unknown"   content is updated under a name that is not live          *)
(*   "symlink"   symlinks are archived, moved and deleted                  *)
(*   "local"     operation update copies metadata from a local file        *)
(***************************************************************************)
EXTENDS Headers, SequencesExt

CONSTANTS ClientNames,  \* the names clients delete, move from and move to
          Sources,      \* the files clients archive or update
          MaxTape,      \* bound: headers on the tape
          MaxBatch,     \* bound: entries of one archive or update call
          Permit

AllPermits == {"crash", "resume", "reindex", "overwrite", "lose", "fresh",
               "reuse", "onto", "unknown", "symlink", "local"}

(* Only regular files have a content, and exactly symlinks have a target.  *)
Plausible(src) ==
  /\ src.type # "reg" => src.data = Empty
  /\ src.type = "link" <=> src.link # NoName

ASSUME OperationsAssumption ==
  /\ ClientNames \subseteq Name
  /\ Sources \subseteq {src \in Source : Plausible(src)}
  /\ MaxTape \in Nat /\ MaxBatch \in Nat
  /\ Permit \subseteq AllPermits
  /\ Modes # {}

VARIABLES
  tape,     \* the headers on the tape, oldest first
  drive,    \* the tape or tar file exists
  db,       \* the rows of the metadata index
  pc,       \* what the process is doing
  op,       \* the operation or scan in progress
  err,      \* the error the last operation or scan ended with
  trusted   \* no crash has interrupted an operation since the last scan

vars == <<tape, drive, db, pc, op, err, trusted>>

Kinds == {"none", "archive", "update", "move", "delete", "initialize", "recover"}

(* hdrs are the headers kept in memory, written of them are on the tape;   *)
(* the header at tape position pos is paired with hdrs[pos - base].        *)
Op == [kind : Kinds, target : Name, hdrs : Seq(Header), written : Nat,
       overwrite : BOOLEAN, base : Nat, pos : Position]

NoOp == [kind |-> "none", target |-> Root, hdrs |-> <<>>, written |-> 0,
         overwrite |-> FALSE, base |-> 0, pos |-> 1]

-----------------------------------------------------------------------------
(* One operation: begin, write, index.                                     *)

(* GetWriter opens the drive (and truncates it for -o), then the position  *)
(* of the last indexed header is read and all headers are computed.        *)
Begin(kind, target, hdrs, overwrite, truncate) ==
  /\ drive' = TRUE
  /\ tape' = IF truncate THEN <<>> ELSE tape
  /\ pc' = "write"
  /\ op' = [kind |-> kind, target |-> target, hdrs |-> hdrs, written |-> 0,
            overwrite |-> overwrite,
            base |-> IF overwrite THEN 0 ELSE GetLastIndexed(db), pos |-> 1]
  /\ err' = "none"
  /\ UNCHANGED trusted

WriteHeader ==
  /\ pc = "write" /\ op.written < Len(op.hdrs)
  /\ tape' = Append(tape, op.hdrs[op.written + 1])
  /\ op' = [op EXCEPT !.written = @ + 1]
  /\ UNCHANGED <<drive, db, pc, err, trusted>>

(* Faulty: the header indexed last is not skipped.                         *)
StartIndexAtLast ==
  /\ pc = "write" /\ op.written = Len(op.hdrs)
  /\ db' = IF op.overwrite THEN {} ELSE db
  /\ pc' = "index"
  /\ op' = [op EXCEPT !.pos = op.base]
  /\ UNCHANGED <<tape, drive, err, trusted>>

(* Faulty: the index of the tape that was overwritten stays.               *)
StartIndexUnpurged ==
  /\ pc = "write" /\ op.written = Len(op.hdrs)
  /\ pc' = "index"
  /\ op' = [op EXCEPT !.pos = op.base + 1]
  /\ UNCHANGED <<tape, drive, db, err, trusted>>

(* The index is purged only now, after the writing.                        *)
StartIndex ==
  /\ pc = "write" /\ op.written = Len(op.hdrs)
  /\ db' = IF op.overwrite THEN {} ELSE db
  /\ pc' = "index"
  /\ op' = [op EXCEPT !.pos = op.base + 1]
  /\ UNCHANGED <<tape, drive, err, trusted>>

Finish(e) ==
  /\ pc' = "idle" /\ op' = NoOp /\ err' = e
  /\ UNCHANGED <<tape, drive>>

IndexStep ==
  /\ pc = "index" /\ op.pos <= Len(tape) /\ op.pos - op.base <= Len(op.hdrs)
  /\ LET r == IndexHeader(db, op.pos, op.hdrs[op.pos - op.base])
     IN  /\ db' = r.db
         /\ \/ /\ r.err = "none"
               /\ op' = [op EXCEPT !.pos = @ + 1]
               /\ UNCHANGED <<tape, drive, pc, err, trusted>>
            \/ r.err # "none" /\ Finish(r.err) /\ UNCHANGED trusted

(* ErrTarHeaderMissing: the tape holds more headers than were written.     *)
IndexMissing ==
  /\ pc = "index" /\ op.pos <= Len(tape) /\ op.pos - op.base > Len(op.hdrs)
  /\ Finish("missing") /\ UNCHANGED <<db, trusted>>

IndexEnd ==
  /\ pc = "index" /\ op.pos > Len(tape)
  /\ trusted' = (trusted \/ op.overwrite)
  /\ Finish("none") /\ UNCHANGED db

-----------------------------------------------------------------------------
(* The calls of clients.                                                   *)

(* Bound: clients stop when the tape holds MaxTape headers.                *)
Call(kind, target, hdrs) ==
  /\ Len(tape) + Len(hdrs) <= MaxTape
  /\ Begin(kind, target, hdrs, FALSE, FALSE)
  /\ UNCHANGED db

Batches == UNION {[1 .. k -> Sources] : k \in 1 .. MaxBatch}

Allowed(src) == src.type = "link" => "symlink" \in Permit

CanArchive == pc = "idle" \/ (pc = "down" /\ db = {} /\ "fresh" \in Permit)

Archive(srcs) ==
  /\ CanArchive
  /\ \A i \in DOMAIN srcs : Allowed(srcs[i])
  /\ Call("archive", srcs[1].name, [i \in DOMAIN srcs |-> ArchiveHeader(srcs[i])])

(* A client that replaces contents replaces them under names that are live *)
(* with the same type.                                                     *)
CanReplace(src) ==
  \/ \E r \in Live(db) : r.name = src.name /\ r.link = src.link /\ r.type = src.type
  \/ "unknown" \in Permit

UpdateContent(srcs, skip) ==
  /\ pc = "idle"
  /\ \A i \in DOMAIN srcs : Allowed(srcs[i]) /\ CanReplace(srcs[i])
  /\ Call("update", srcs[1].name, [i \in DOMAIN srcs |-> ContentHeader(srcs[i], skip)])

UpdateMetadata(row, mode) ==
  /\ pc = "idle" /\ row \in Live(db) /\ row.link = NoName
  /\ Call("update", row.name, <<MetadataHeader(row, mode)>>)

UpdateLocal(srcs) ==
  /\ pc = "idle" /\ "local" \in Permit
  /\ \A i \in DOMAIN srcs : Allowed(srcs[i])
  /\ Call("update", srcs[1].name, [i \in DOMAIN srcs |-> LocalHeader(srcs[i])])

(* Plain clients move to names no row has, live or deleted.  Move itself   *)
(* asks for neither; STFS.Rename checks that no live row has the name to.  *)
FreshTargets(rows, from, to) ==
  \A r \in rows, s \in db :
    s.name = Rebase(r.name, from, to) =>
      (IF s.deleted THEN "reuse" ELSE "onto") \in Permit

Move(from, to) ==
  LET src == Lookup(db, from)
      rows == IF src.type = "dir" THEN GetHeaderChildren(db, from) ELSE {}
  IN  /\ pc = "idle" /\ from # to /\ from # Root /\ to # Root /\ src # NoRow
      /\ FreshTargets(rows \cup {src}, from, to)
      /\ \E children \in SetToSeqs(rows) :
           LET moved == <<src>> \o children
           IN  Call("move", from,
                    [i \in DOMAIN moved |-> RenameHeader(moved[i], from, to)])

Delete(n) ==
  LET src == Lookup(db, n)
      rows == IF src.type = "dir" /\ src.link = NoName
                THEN GetHeaderChildren(db, n) ELSE {}
  IN  /\ pc = "idle" /\ n # Root /\ src # NoRow
      /\ \E children \in SetToSeqs(rows) :
           LET deleted == <<src>> \o children
           IN  Call("delete", n, [i \in DOMAIN deleted |-> DeletionHeader(deleted[i])])

-----------------------------------------------------------------------------
(* Starting, stopping, dying, recovering.                                  *)

(* Bound: a tape grown past MaxTape by MkdirRoot is not scanned again, no  *)
(* process dies on it and its index is not lost, so it grows only once.    *)
WithinBound == Len(tape) <= MaxTape

MkdirRoot == \E mode \in Modes :
  Begin("initialize", Root, <<RootHeader(mode)>>, TRUE, FALSE)

(* Faulty: the index is never purged.                                      *)
ScanUnpurged(kind, purge) ==
  /\ WithinBound
  /\ pc' = "scan"
  /\ op' = [NoOp EXCEPT !.kind = kind]
  /\ err' = "none"
  /\ UNCHANGED <<tape, drive, db, trusted>>

Scan(kind, purge) ==
  /\ WithinBound
  /\ pc' = "scan"
  /\ op' = [NoOp EXCEPT !.kind = kind]
  /\ db' = IF purge THEN {} ELSE db
  /\ err' = "none"
  /\ UNCHANGED <<tape, drive, trusted>>

(* STFS.Initialize: any live row is a root and the index is used as it is; *)
(* without one the whole tape is indexed, or the root is created when      *)
(* there is no tape to read.                                               *)
Restart ==
  /\ pc = "down" /\ Live(db) # {} /\ (trusted \/ "resume" \in Permit)
  /\ pc' = "idle" /\ UNCHANGED <<tape, drive, db, op, err, trusted>>

InitializeScan ==
  pc = "down" /\ Live(db) = {} /\ drive /\ Scan("initialize", TRUE)

InitializeFresh ==
  /\ pc = "down" /\ Live(db) = {} /\ ~drive /\ MkdirRoot
  /\ UNCHANGED db

(* `stfs operation initialize` truncates the tape.                         *)
Initialize ==
  /\ pc = "down" /\ (tape = <<>> \/ "overwrite" \in Permit)
  /\ \E mode \in Modes : Begin("initialize", Root, <<RootHeader(mode)>>, TRUE, TRUE)
  /\ UNCHANGED db

(* `stfs operation archive -o` truncates it as well and writes no root.    *)
ArchiveOverwriting(srcs) ==
  /\ pc = "down" /\ "overwrite" \in Permit
  /\ \A i \in DOMAIN srcs : Allowed(srcs[i])
  /\ Begin("archive", srcs[1].name, [i \in DOMAIN srcs |-> ArchiveHeader(srcs[i])],
           TRUE, TRUE)
  /\ UNCHANGED db

(* `stfs recovery index`, with -o or without.                              *)
RecoveryIndex(purge) ==
  /\ pc = "down" /\ drive /\ (purge \/ "reindex" \in Permit)
  /\ Scan("recover", purge)

Scanned == IndexHeader(db, op.pos, tape[op.pos])

(* Faulty: the scan does not go on to the next header.                     *)
ScanStepStuck ==
  /\ pc = "scan" /\ op.pos <= Len(tape) /\ Scanned.err = "none"
  /\ db' = Scanned.db
  /\ UNCHANGED <<tape, drive, pc, op, err, trusted>>

ScanStep ==
  /\ pc = "scan" /\ op.pos <= Len(tape) /\ Scanned.err = "none"
  /\ db' = Scanned.db
  /\ op' = [op EXCEPT !.pos = @ + 1]
  /\ UNCHANGED <<tape, drive, pc, err, trusted>>

(* The recovery tool exits with the error; Initialize ignores it and       *)
(* creates the root.                                                       *)
ScanFail ==
  /\ pc = "scan" /\ op.pos <= Len(tape) /\ Scanned.err # "none"
  /\ db' = Scanned.db
  /\ \/ /\ op.kind = "recover"
        /\ pc' = "down" /\ op' = NoOp /\ err' = Scanned.err
        /\ UNCHANGED <<tape, drive, trusted>>
     \/ op.kind = "initialize" /\ MkdirRoot

ScanEnd ==
  /\ pc = "scan" /\ op.pos > Len(tape)
  /\ pc' = IF op.kind = "recover" \/ Live(db) = {} THEN "down" ELSE "idle"
  /\ op' = NoOp
  /\ trusted' = TRUE
  /\ UNCHANGED <<tape, drive, db, err>>

Stop ==
  /\ pc = "idle"
  /\ pc' = "down" /\ UNCHANGED <<tape, drive, db, op, err, trusted>>

Crash ==
  /\ "crash" \in Permit /\ pc \in {"write", "index", "scan"} /\ WithinBound
  /\ pc' = "down" /\ op' = NoOp /\ trusted' = FALSE
  /\ UNCHANGED <<tape, drive, db, err>>

LoseIndex ==
  /\ "lose" \in Permit /\ pc = "down" /\ WithinBound
  /\ db' = {} /\ UNCHANGED <<tape, drive, pc, op, err, trusted>>

-----------------------------------------------------------------------------
Init ==
  /\ tape = <<>> /\ drive = FALSE /\ db = {}
  /\ pc = "down" /\ op = NoOp /\ err = "none" /\ trusted = TRUE

Progress == \/ WriteHeader \/ StartIndex \/ IndexStep \/ IndexMissing \/ IndexEnd
            \/ ScanStep \/ ScanFail \/ ScanEnd

Next ==
  \/ \E srcs \in Batches : Archive(srcs) \/ ArchiveOverwriting(srcs)
  \/ \E srcs \in Batches, skip \in BOOLEAN : UpdateContent(srcs, skip)
  \/ \E row \in db, mode \in Modes : UpdateMetadata(row, mode)
  \/ \E srcs \in Batches : UpdateLocal(srcs)
  \/ \E from, to \in ClientNames : Move(from, to)
  \/ \E n \in ClientNames : Delete(n)
  \/ Restart \/ InitializeScan \/ InitializeFresh \/ Initialize
  \/ \E purge \in BOOLEAN : RecoveryIndex(purge)
  \/ Progress \/ Stop \/ Crash \/ LoseIndex

Spec == Init /\ [][Next]_vars

(* A call that was begun runs on by itself: Archive, Update, Move, Delete  *)
(* and Index never wait for their caller between two headers.              *)
FairSpec == Spec /\ WF_vars(Progress)

-----------------------------------------------------------------------------
(* Every variable keeps its type.                                          *)
TypeOK ==
  /\ tape \in Seq(Header) /\ drive \in BOOLEAN /\ db \in SUBSET Row
  /\ pc \in {"down", "idle", "write", "index", "scan"}
  /\ op \in Op /\ err \in Errors /\ trusted \in BOOLEAN

(* No two rows share their key: the conflict check of a rename is all that *)
(* stands between two histories of one name, live or deleted.              *)
PrimaryKey == \A r, s \in db : SameKey(r, s) => r = s

(* No row points past the end of the tape, neither at its content nor at   *)
(* the last header that touched it, whatever crashes and stale indexes.    *)
Positions == \A r \in db : r.record <= Len(tape) /\ r.last <= Len(tape)

(* Incremental indexing takes headers from memory instead of the tape: the *)
(* header it takes for a position is the one written at that position.     *)
Paired ==
  pc = "index" => \A p \in op.pos .. Len(tape) :
    p - op.base \in DOMAIN op.hdrs /\ tape[p] = op.hdrs[p - op.base]

(* "Ignore the first header, which is the last header which we already     *)
(* indexed": between two operations the position the next one will index   *)
(* from is that of the last header on the tape.                            *)
CaughtUp == pc = "idle" => GetLastIndexed(db) = Len(tape)

(* The tape is the truth, the index only a cache of it: between two        *)
(* operations the index is what indexing the whole tape from scratch       *)
(* yields, and indexing it succeeds.                                       *)
Replayed(t) == IndexedUpTo({}, 0, t)
Replay(t) == Replayed(t)[Len(t)]
IndexIsReplay == pc = "idle" => Replay(tape) = Indexed(db)

(* The content a live row points at is the content whose size the row      *)
(* reports, whatever edits, renames and deletions came in between.         *)
ContentMatches ==
  \A r \in Live(db) : r.type = "reg" =>
    /\ r.record <= Len(tape) /\ tape[r.record].data = r.size
    /\ tape[r.record].action = "create" \/ tape[r.record].replaces

(* No call of a client fails half-way: every header it wrote is indexed.   *)
NoError == err = "none"

(* Purging the index aside, the position indexing continues from never     *)
(* moves back, deletions included.                                         *)
HighWaterMark == [][db' # {} => GetLastIndexed(db') >= GetLastIndexed(db)]_vars

(* A delete takes away the entry and what lies below it, and leaves every  *)
(* other file live: also the target, when the entry is a symlink.          *)
DeleteSparesOthers ==
  [][pc = "index" /\ op.kind = "delete" =>
       \A r \in Live(db) :
         \/ r.link # NoName \/ r.name = op.target \/ Below(r.name, op.target)
         \/ \E s \in Live(db') : SameKey(r, s)]_vars

(* Indexing the tape from scratch, what `recovery index` offers for a      *)
(* broken index, never stops at a header.                                  *)
RecoverySucceeds == pc = "scan" /\ op.pos <= Len(tape) => Scanned.err = "none"

(* STFS.Initialize of an empty drive yields a file system: a scan of the   *)
(* tape that ends leaves it ready to be used.                              *)
InitializeYieldsRoot ==
  [][ScanEnd /\ op.kind = "initialize" => pc' = "idle"]_vars

(* Every call that began returns, whether or not it fails.                 *)
Returns == (pc \in {"write", "index", "scan"}) ~> (pc \in {"idle", "down"})
=============================================================================
