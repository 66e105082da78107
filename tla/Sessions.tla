------------------------------ MODULE Sessions ------------------------------
(***************************************************************************)
(* Who waits for whom.  Calls of STFS and File hold ioLock from start to   *)
(* end, so there is one Caller at a time.  The first read of an open file  *)
(* starts a goroutine that restores the file into a pipe and outlives the  *)
(* call.  Restores hold the diskOperationLock of readOps, write operations *)
(* that of writeOps; both open the drive through one TapeManager, which    *)
(* serializes them with a mutex (physicalLock) nobody owns.                *)
(*                                                                         *)
(* A file stands for a name and the one handle opened on it.  The content  *)
(* of a file is as long as the number of reads it takes.                   *)
(*                                                                         *)
(* Permit names what clients, and the drive in the last two cases, may do: *)
(*   "interleave"  use the file system while another file is partly read   *)
(*   "hasty"       leave a file that was rewound before a byte is read     *)
(*   "missing"     remove a name that does not exist                       *)
(*   "unlinked"    read an open file whose name has been removed           *)
(*   "synced"      go on using a file that was written after a sync        *)
(*   "unopenable"  fail to open for an operation that writes               *)
(*   "unreadable"  fail to read, and to open for a restore if unopenable   *)
(***************************************************************************)
EXTENDS Integers, FiniteSets

CONSTANTS Files,
          Goroutines,  \* bound: restores running at a time
          Caller,      \* the thread that holds ioLock
          None,
          Ended,       \* mark of a pipe whose content has been written
          Chunks,      \* reads a file that is not empty takes
          MaxHandles,  \* bound: drive handles referenced at a time
          Permit

ASSUME SessionsAssumption ==
  /\ Caller \notin Goroutines
  /\ None \notin Files \union Goroutines \union {Caller} /\ None \notin Int
  /\ Ended \notin Goroutines \union {None}
  /\ Chunks \in Nat \ {0} /\ MaxHandles \in Nat
  /\ Permit \subseteq {"interleave", "hasty", "missing", "unlinked", "synced",
                      "unopenable", "unreadable"}

Threads == Goroutines \union {Caller}
Handles == 1..MaxHandles

VARIABLES
  pc, job,      \* per thread: where it is, which operation it runs
  file,         \* per thread: the file it runs it for
  using, aim,   \* per thread: its drive handle, the handle it is closing
  left,         \* per thread: what is left to copy
  failed,       \* per thread: the operation returns an error
  call,         \* the call that holds ioLock
  readLock, writeLock, readerLock,  \* the thread that holds the mutex
  physicalLock,                     \* the mutex without an owner
  open,         \* the drive handles that are open
  reader,       \* TapeManager.reader
  closer,       \* the handle TapeManager.closer closes
  placed,       \* the thread that moved the open handle last
  pipe,         \* per file: the goroutine behind its pipe
  begun,        \* files of whose pipe something was read (BytesRead > 0)
  buf,          \* per file: the write buffer
  exists, empty,\* the live names, those without content
  damaged,      \* files whose content was lost
  panicked      \* a goroutine has panicked: the process is gone

threads == <<pc, job, file, using, aim, left, failed, call>>
locks == <<readLock, writeLock, readerLock, physicalLock>>
drive == <<open, reader, closer, placed>>
pipes == <<pipe, begun>>
data == <<buf, exists, empty, damaged>>
vars == <<threads, locks, drive, pipes, data, panicked>>

Calls == {"none", "read", "write", "sync", "close", "remove", "create"}
Jobs == {"none", "restore", "write", "index"}
Places == {"idle", "reading", "begin", "lookup", "getwriter", "write",
           "getreader", "open", "take", "seek", "copy", "give", "scan",
           "close", "closing", "unlock", "return"}

TypeOK ==
  /\ pc \in [Threads -> Places] /\ job \in [Threads -> Jobs]
  /\ file \in [Threads -> Files \union {None}]
  /\ using \in [Threads -> Handles \union {None}]
  /\ aim \in [Threads -> Handles \union {None}]
  /\ left \in [Threads -> 0..Chunks] /\ failed \in [Threads -> BOOLEAN]
  /\ call \in Calls
  /\ {readLock, writeLock, readerLock} \subseteq Threads \union {None}
  /\ physicalLock \in BOOLEAN
  /\ open \subseteq Handles
  /\ {reader, closer} \subseteq Handles \union {None}
  /\ placed \in Threads \union {None}
  /\ pipe \in [Files -> Goroutines \union {None, Ended}]
  /\ begun \subseteq Files
  /\ buf \in [Files -> {"none", "part", "whole", "closed"}]
  /\ exists \subseteq Files /\ empty \subseteq Files /\ damaged \subseteq Files
  /\ panicked \in BOOLEAN

(* A drive that has been initialized and closed again; no file is in use.  *)
Init ==
  /\ pc = [t \in Threads |-> "idle"] /\ job = [t \in Threads |-> "none"]
  /\ file = [t \in Threads |-> None]
  /\ using = [t \in Threads |-> None] /\ aim = [t \in Threads |-> None]
  /\ left = [t \in Threads |-> 0] /\ failed = [t \in Threads |-> FALSE]
  /\ call = "none"
  /\ readLock = None /\ writeLock = None /\ readerLock = None
  /\ physicalLock = FALSE
  /\ open = {} /\ reader = None /\ closer = None /\ placed = None
  /\ pipe = [f \in Files |-> None] /\ begun = {}
  /\ buf = [f \in Files |-> "none"]
  /\ exists = Files /\ empty \in SUBSET Files /\ damaged = {}
  /\ panicked = FALSE

Goto(t, place) == pc' = [pc EXCEPT ![t] = place]
Start(t, j, f) ==
  /\ pc' = [pc EXCEPT ![t] = "begin"] /\ job' = [job EXCEPT ![t] = j]
  /\ file' = [file EXCEPT ![t] = f]
Fail(t, place) ==
  /\ Goto(t, place) /\ failed' = [failed EXCEPT ![t] = TRUE]

-----------------------------------------------------------------------------
(* Calls.  Each begins when it gets ioLock; what it does before it needs   *)
(* another lock is one step.                                               *)

NothingToRead(f) == pipe[f] \in {None, Ended}

(* No other file is partly read.                                           *)
OthersSettled(f) ==
  "interleave" \in Permit \/ \A g \in Files \ {f} : NothingToRead(g)

(* The goroutine behind the pipe has the drive, or is done.                *)
MayLeave(f) == "hasty" \in Permit \/ NothingToRead(f) \/ f \in begun

MayRead(f) == f \in exists \/ "unlinked" \in Permit

(* closeWithoutLocking before there is a write buffer: both ends of the    *)
(* pipe are closed and forgotten.                                          *)
ClosePipe(f) ==
  /\ pipe' = [pipe EXCEPT ![f] = None] /\ begun' = begun \ {f}

(* A new pipe in place of the old one and a goroutine that fills it.       *)
Spawn(f, g) ==
  /\ pc[g] = "idle"
  /\ pipe' = [pipe EXCEPT ![f] = g] /\ begun' = begun \ {f}

(* File.Read and seeking forward; a file in write mode is read from its    *)
(* buffer and changes nothing here.                                        *)
Read(f) ==
  /\ call = "none" /\ buf[f] = "none" /\ OthersSettled(f) /\ MayRead(f)
  /\ call' = "read"
  /\ \/ /\ pipe[f] = None
        /\ \E g \in Goroutines :
             /\ Spawn(f, g)
             /\ pc' = [pc EXCEPT ![g] = "begin", ![Caller] = "reading"]
             /\ job' = [job EXCEPT ![g] = "restore"]
             /\ file' = [file EXCEPT ![g] = f, ![Caller] = f]
     \/ /\ pipe[f] # None
        /\ Goto(Caller, "reading") /\ file' = [file EXCEPT ![Caller] = f]
        /\ UNCHANGED <<job, pipes>>
  /\ UNCHANGED <<using, aim, left, failed, locks, drive, data, panicked>>

(* Read goes on until its slice is full or the pipe has ended.             *)
ReadChunk ==
  LET f == file[Caller] IN
  /\ pc[Caller] = "reading"
  /\ pipe[f] \in Goroutines /\ pc[pipe[f]] = "give"
  /\ \E full \in BOOLEAN :
       /\ pc' = [pc EXCEPT ![pipe[f]] = "copy",
                           ![Caller] = IF full THEN "idle" ELSE "reading"]
       /\ call' = IF full THEN "none" ELSE "read"
       /\ file' = [file EXCEPT ![Caller] = IF full THEN None ELSE f]
  /\ left' = [left EXCEPT ![pipe[f]] = @ - 1]
  /\ begun' = begun \union {f}
  /\ UNCHANGED <<job, using, aim, failed, locks, drive, pipe, data,
                 panicked>>

ReadEOF ==
  /\ pc[Caller] = "reading" /\ pipe[file[Caller]] = Ended
  /\ Goto(Caller, "idle") /\ call' = "none"
  /\ file' = [file EXCEPT ![Caller] = None]
  /\ UNCHANGED <<job, using, aim, left, failed, locks, drive, pipes,
                 data, panicked>>

(* Seek to the start: a pipe that has been read from is replaced; the call *)
(* does not wait for its goroutine.                                        *)
Rewind(f) ==
  /\ call = "none" /\ buf[f] = "none" /\ OthersSettled(f) /\ MayRead(f)
  /\ pipe[f] = None \/ f \in begun
  /\ \E g \in Goroutines :
       /\ Spawn(f, g) /\ Start(g, "restore", f)
  /\ UNCHANGED <<using, aim, left, failed, call, locks, drive, data, panicked>>

(* The first write to a file reads its content into a new buffer.          *)
Write(f) ==
  /\ call = "none" /\ buf[f] = "none" /\ OthersSettled(f) /\ MayLeave(f)
  /\ ClosePipe(f)
  /\ IF f \in exists \ empty
     THEN /\ call' = "write" /\ Start(Caller, "restore", f)
          /\ buf' = [buf EXCEPT ![f] = "part"]
     ELSE /\ buf' = [buf EXCEPT ![f] = "whole"]
          /\ UNCHANGED <<pc, job, file, call>>
  /\ UNCHANGED <<using, aim, left, failed, locks, drive, exists, empty,
                 damaged, panicked>>

BeginCall(kind, f) == call' = kind /\ Start(Caller, "write", f)

Sync(f) ==
  /\ call = "none" /\ buf[f] # "none" /\ OthersSettled(f)
  /\ buf[f] = "closed" => "synced" \in Permit
  /\ BeginCall("sync", f)
  /\ UNCHANGED <<using, aim, left, failed, locks, drive, pipes, data, panicked>>

Close(f) ==
  /\ call = "none" /\ MayLeave(f)
  /\ ClosePipe(f)
  /\ \/ /\ buf[f] # "none" /\ OthersSettled(f)
        /\ buf[f] = "closed" => "synced" \in Permit
        /\ BeginCall("close", f)
     \/ /\ buf[f] = "none" /\ pipe[f] # None
        /\ UNCHANGED <<pc, job, file, call>>
  /\ UNCHANGED <<using, aim, left, failed, locks, drive, data, panicked>>

RemoveAll(f) ==
  /\ call = "none" /\ OthersSettled(None)
  /\ f \in exists \/ "missing" \in Permit
  /\ BeginCall("remove", f)
  /\ UNCHANGED <<using, aim, left, failed, locks, drive, pipes, data, panicked>>

(* Create and every other call that archives, moves or updates an entry.   *)
Create(f) ==
  /\ call = "none" /\ OthersSettled(None) /\ f \notin exists
  /\ BeginCall("create", f)
  /\ UNCHANGED <<using, aim, left, failed, locks, drive, pipes, data, panicked>>

-----------------------------------------------------------------------------
(* Operations, until they have the drive.                                  *)

(* Faulty: Restore does not take diskOperationLock.                        *)
BeginRestoreUnlocked(t) ==
  /\ pc[t] = "begin" /\ job[t] = "restore" /\ Goto(t, "lookup")
  /\ UNCHANGED <<job, file, using, aim, left, failed, call, locks, drive,
                 pipes, data, panicked>>

(* Operations.Restore.                                                     *)
BeginRestore(t) ==
  /\ pc[t] = "begin" /\ job[t] = "restore" /\ readLock = None
  /\ readLock' = t /\ Goto(t, "lookup")
  /\ UNCHANGED <<job, file, using, aim, left, failed, call, writeLock,
                 readerLock, physicalLock, drive, pipes, data, panicked>>

GetHeader(t) ==
  /\ pc[t] = "lookup" /\ job[t] = "restore"
  /\ IF file[t] \in exists
     THEN Goto(t, "getreader") /\ UNCHANGED failed
     ELSE Fail(t, "return")
  /\ UNCHANGED <<job, file, using, aim, left, call, locks, drive, pipes, data,
                 panicked>>

(* Operations.Archive, Update, Move, Delete.                               *)
BeginWrite(t) ==
  /\ pc[t] = "begin" /\ job[t] = "write" /\ writeLock = None
  /\ writeLock' = t /\ Goto(t, "getwriter")
  /\ UNCHANGED <<job, file, using, aim, left, failed, call, readLock,
                 readerLock, physicalLock, drive, pipes, data, panicked>>

(* The lowest handle nothing refers to.                                    *)
Referenced == {reader, closer} \union {using[t] : t \in Threads}
                               \union {aim[t] : t \in Threads}
Unused == {h \in Handles \ Referenced : 1..(h - 1) \subseteq Referenced}

OpenDrive(t, h) ==
  /\ ~physicalLock /\ physicalLock' = TRUE
  /\ h \in Unused
  /\ open' = open \union {h} /\ closer' = h

GetWriter(t) ==
  /\ pc[t] = "getwriter"
  /\ \E h \in Handles :
       OpenDrive(t, h) /\ using' = [using EXCEPT ![t] = h]
  /\ Goto(t, "write")
  /\ UNCHANGED <<job, file, aim, left, failed, call, readLock, writeLock,
                 readerLock, reader, placed, pipes, data, panicked>>

MayNotOpen(t) ==
  /\ "unopenable" \in Permit
  /\ job[t] = "restore" => "unreadable" \in Permit

(* The drive cannot be opened: the error returns with the mutex locked.    *)
GetWriterFails(t) ==
  /\ pc[t] = "getwriter" /\ MayNotOpen(t)
  /\ ~physicalLock /\ physicalLock' = TRUE
  /\ Fail(t, "return")
  /\ UNCHANGED <<job, file, using, aim, left, call, readLock, writeLock,
                 readerLock, drive, pipes, data, panicked>>

(* A name that is not found, a buffer that has been closed or a drive that *)
(* has been closed.                                                        *)
CannotWrite(t) ==
  \/ call = "remove" /\ file[t] \notin exists
  \/ call \in {"sync", "close"} /\ buf[file[t]] = "closed"
  \/ using[t] \notin open

(* Everything up to CloseWriter; errors return without it.                 *)
WriteTape(t) ==
  /\ pc[t] = "write"
  /\ IF CannotWrite(t)
     THEN Fail(t, "return") /\ UNCHANGED <<buf, damaged>>
     ELSE /\ Goto(t, "close") /\ UNCHANGED failed
          /\ IF call \in {"sync", "close"}
             THEN /\ buf' = [buf EXCEPT ![file[t]] = "closed"]
                  /\ damaged' = IF buf[file[t]] = "part"
                                THEN damaged \union {file[t]} ELSE damaged
             ELSE UNCHANGED <<buf, damaged>>
  /\ UNCHANGED <<job, file, using, aim, left, call, locks, drive, pipes, exists,
                 empty, panicked>>

(* openOrReuseReader: with readerLock held, a reader that is still open is *)
(* reused, whoever opened it.                                              *)
ReuseReader(t) ==
  /\ pc[t] = "getreader" /\ readerLock = None /\ reader \in open
  /\ Goto(t, "take")
  /\ UNCHANGED <<job, file, using, aim, left, failed, call, locks, drive,
                 pipes, data, panicked>>

ReopenReader(t) ==
  /\ pc[t] = "getreader" /\ readerLock = None /\ reader \notin open
  /\ readerLock' = t /\ Goto(t, "open")
  /\ UNCHANGED <<job, file, using, aim, left, failed, call, readLock,
                 writeLock, physicalLock, drive, pipes, data, panicked>>

OpenReader(t) ==
  /\ pc[t] = "open"
  /\ \E h \in Handles : OpenDrive(t, h) /\ reader' = h
  /\ readerLock' = None /\ Goto(t, "take")
  /\ UNCHANGED <<job, file, using, aim, left, failed, call, readLock,
                 writeLock, placed, pipes, data, panicked>>

(* Only readerLock is released by a deferred call.                         *)
OpenReaderFails(t) ==
  /\ pc[t] = "open" /\ MayNotOpen(t)
  /\ ~physicalLock /\ physicalLock' = TRUE
  /\ readerLock' = None /\ Fail(t, "return")
  /\ UNCHANGED <<job, file, using, aim, left, call, readLock, writeLock, drive,
                 pipes, data, panicked>>

(* GetReader reads m.reader after readerLock has been released.            *)
TakeReader(t) ==
  /\ pc[t] = "take"
  /\ using' = [using EXCEPT ![t] = reader] /\ Goto(t, "seek")
  /\ UNCHANGED <<job, file, aim, left, failed, call, locks, drive, pipes, data,
                 panicked>>

-----------------------------------------------------------------------------
(* Operations, while they read the drive.                                  *)

SeekDrive(t) ==
  /\ pc[t] = "seek"
  /\ IF using[t] \in open
     THEN /\ placed' = t /\ UNCHANGED failed
          /\ IF job[t] = "restore"
             THEN /\ Goto(t, "copy")
                  /\ left' = [left EXCEPT ![t] =
                                IF file[t] \in empty THEN 0 ELSE Chunks]
             ELSE Goto(t, "scan") /\ UNCHANGED left
     ELSE Fail(t, "close") /\ UNCHANGED <<placed, left>>
  /\ UNCHANGED <<job, file, using, aim, call, locks, open, reader, closer,
                 pipes, data, panicked>>

(* A handle somebody else has moved gives the wrong bytes, which are an    *)
(* error or are taken for the content.                                     *)
ReadsOwn(t) == using[t] \in open /\ placed = t

(* Faulty: a piece is copied after the end.                                *)
FetchChunkPastEnd(t) ==
  /\ pc[t] = "copy" /\ using[t] \in open
  /\ placed' = t
  /\ IF t = Caller
     THEN left' = [left EXCEPT ![t] = @ - 1] /\ UNCHANGED pc
     ELSE Goto(t, "give") /\ UNCHANGED left
  /\ UNCHANGED <<job, file, using, aim, failed, call, locks, open, reader,
                 closer, pipes, data, panicked>>

(* Fetch copies a piece of the content, to the pipe or to the buffer.      *)
FetchChunk(t) ==
  /\ pc[t] = "copy" /\ left[t] > 0 /\ using[t] \in open
  /\ placed' = t
  /\ IF t = Caller
     THEN left' = [left EXCEPT ![t] = @ - 1] /\ UNCHANGED pc
     ELSE Goto(t, "give") /\ UNCHANGED left
  /\ UNCHANGED <<job, file, using, aim, failed, call, locks, open, reader,
                 closer, pipes, data, panicked>>

FetchFails(t) ==
  /\ pc[t] \in {"copy", "scan"}
  /\ ~ReadsOwn(t) \/ "unreadable" \in Permit
  /\ Fail(t, "close")
  /\ UNCHANGED <<job, file, using, aim, left, call, locks, drive, pipes, data,
                 panicked>>

(* Faulty: returns without CloseReader.                                    *)
GiveRefusedOpen(t) ==
  /\ pc[t] = "give" /\ pipe[file[t]] # t /\ Goto(t, "return")
  /\ UNCHANGED <<job, file, using, aim, left, failed, call, locks, drive,
                 pipes, data, panicked>>

(* Faulty: a closed pipe is an error like any other.                       *)
GiveRefusedFails(t) ==
  /\ pc[t] = "give" /\ pipe[file[t]] # t /\ Fail(t, "close")
  /\ UNCHANGED <<job, file, using, aim, left, call, locks, drive, pipes, data,
                 panicked>>

(* Faulty: the piece is offered again.                                     *)
GiveRefusedRetried(t) ==
  /\ pc[t] = "give" /\ pipe[file[t]] # t /\ Goto(t, "copy")
  /\ UNCHANGED <<job, file, using, aim, left, failed, call, locks, drive,
                 pipes, data, panicked>>

(* io.ErrClosedPipe: the file has been closed or rewound; not a failure.   *)
GiveRefused(t) ==
  /\ pc[t] = "give" /\ pipe[file[t]] # t
  /\ Goto(t, "close")
  /\ UNCHANGED <<job, file, using, aim, left, failed, call, locks, drive,
                 pipes, data, panicked>>

(* Faulty: the content is copied once more instead of closing the pipe.    *)
FetchEndAgain(t) ==
  /\ pc[t] = "copy" /\ left[t] = 0 /\ using[t] \in open
  /\ IF t = Caller
     THEN Goto(t, "close") /\ buf' = [buf EXCEPT ![file[t]] = "whole"]
     ELSE Goto(t, "seek") /\ UNCHANGED buf
  /\ UNCHANGED <<job, file, using, aim, left, failed, call, locks, drive, pipes,
                 exists, empty, damaged, panicked>>

(* The end of the content: the writing end of the pipe is closed.          *)
FetchEnd(t) ==
  /\ pc[t] = "copy" /\ left[t] = 0 /\ using[t] \in open
  /\ Goto(t, "close")
  /\ IF t = Caller
     THEN buf' = [buf EXCEPT ![file[t]] = "whole"] /\ UNCHANGED pipe
     ELSE /\ pipe' = IF pipe[file[t]] = t THEN [pipe EXCEPT ![file[t]] = Ended]
                                          ELSE pipe
          /\ UNCHANGED buf
  /\ UNCHANGED <<job, file, using, aim, left, failed, call, locks, drive, begun,
                 exists, empty, damaged, panicked>>

(* recovery.Index after a write.                                           *)
Index(t) ==
  /\ pc[t] = "scan" /\ using[t] \in open
  /\ placed' = t /\ Goto(t, "close")
  /\ exists' = CASE call = "remove" -> exists \ {file[t]}
                 [] call = "create" -> exists \union {file[t]}
                 [] OTHER -> exists
  /\ empty' = CASE call = "create" -> empty \union {file[t]}
                [] call \in {"sync", "close"} -> empty \ {file[t]}
                [] OTHER -> empty
  /\ UNCHANGED <<job, file, using, aim, left, failed, call, locks, open,
                 reader, closer, pipes, buf, damaged, panicked>>

-----------------------------------------------------------------------------
(* TapeManager.Close, called as CloseWriter and as CloseReader.            *)

ReadCloser(t) ==
  /\ pc[t] = "close"
  /\ aim' = [aim EXCEPT ![t] = closer] /\ Goto(t, "closing")
  /\ UNCHANGED <<job, file, using, left, failed, call, locks, drive, pipes,
                 data, panicked>>

(* Faulty: the mutex is unlocked although the file could not be closed.    *)
CallCloserTwice(t) ==
  /\ pc[t] = "closing"
  /\ open' = open \ {aim[t]} /\ aim' = [aim EXCEPT ![t] = None]
  /\ Goto(t, "unlock")
  /\ UNCHANGED <<job, file, using, left, failed, call, locks, reader, closer,
                 placed, pipes, data, panicked>>

(* The file cannot be closed twice: Close returns without unlocking.  Once *)
(* a handle is closed nothing tells it from none, and it is forgotten.     *)
Forget(handle, closed) == IF handle = closed THEN None ELSE handle

CallCloser(t) ==
  /\ pc[t] = "closing"
  /\ IF aim[t] \in open
     THEN /\ open' = open \ {aim[t]} /\ placed' = None
          /\ reader' = Forget(reader, aim[t]) /\ closer' = Forget(closer, aim[t])
          /\ using' = [u \in Threads |-> Forget(using[u], aim[t])]
          /\ aim' = [u \in Threads |-> Forget(aim[u], aim[t])]
          /\ Goto(t, "unlock") /\ UNCHANGED failed
     ELSE /\ aim' = [aim EXCEPT ![t] = None]
          /\ UNCHANGED <<open, placed, reader, closer, using>>
          /\ IF job[t] = "write" THEN Fail(t, "return")
                                 ELSE Goto(t, "return") /\ UNCHANGED failed
  /\ UNCHANGED <<job, file, left, call, locks, pipes, data, panicked>>

(* An operation that has closed the writer goes on to index.               *)
UnlockDrive(t) ==
  /\ pc[t] = "unlock"
  /\ physicalLock' = FALSE
  /\ IF job[t] = "write"
     THEN Goto(t, "getreader") /\ job' = [job EXCEPT ![t] = "index"]
     ELSE Goto(t, "return") /\ UNCHANGED job
  /\ UNCHANGED <<file, using, aim, left, failed, call, readLock, writeLock,
                 readerLock, drive, pipes, data, panicked>>

(* The deferred unlock of diskOperationLock.  A goroutine that returns an  *)
(* error panics.  A call that returns one leaves the buffer as it is;      *)
(* RemoveAll returns nil if the name was not found.                        *)
Return(t) ==
  /\ pc[t] = "return"
  /\ IF job[t] = "restore" THEN readLock' = None /\ UNCHANGED writeLock
                           ELSE writeLock' = None /\ UNCHANGED readLock
  /\ Goto(t, "idle") /\ job' = [job EXCEPT ![t] = "none"]
  /\ using' = [using EXCEPT ![t] = None]
  /\ failed' = [failed EXCEPT ![t] = FALSE]
  /\ left' = [left EXCEPT ![t] = 0]
  /\ IF t = Caller
     THEN /\ call' = "none" /\ UNCHANGED panicked
          /\ buf' = IF call = "close" /\ ~failed[t]
                    THEN [buf EXCEPT ![file[t]] = "none"] ELSE buf
     ELSE panicked' = failed[t] /\ UNCHANGED <<call, buf>>
  /\ file' = [file EXCEPT ![t] = None]
  /\ UNCHANGED <<aim, readerLock, physicalLock, drive, pipes, exists,
                 empty, damaged>>

-----------------------------------------------------------------------------
Request(f) ==
  \/ Read(f) \/ Rewind(f) \/ Write(f) \/ Sync(f) \/ Close(f)
  \/ RemoveAll(f) \/ Create(f)

Step(t) ==
  \/ BeginRestore(t) \/ GetHeader(t) \/ BeginWrite(t) \/ GetWriter(t)
  \/ GetWriterFails(t) \/ WriteTape(t) \/ ReuseReader(t) \/ ReopenReader(t)
  \/ OpenReader(t) \/ OpenReaderFails(t) \/ TakeReader(t) \/ SeekDrive(t)
  \/ FetchChunk(t) \/ FetchFails(t) \/ GiveRefused(t) \/ FetchEnd(t)
  \/ Index(t) \/ ReadCloser(t) \/ CallCloser(t) \/ UnlockDrive(t) \/ Return(t)

Next ==
  /\ ~panicked
  /\ \/ \E f \in Files : Request(f)
     \/ ReadChunk \/ ReadEOF
     \/ \E t \in Threads : Step(t)

(* A thread that can go on does; a mutex is not withheld from a thread for *)
(* ever while others take it (sync.Mutex hands over to the longest waiter).*)
Fairness ==
  /\ WF_vars(~panicked /\ (ReadChunk \/ ReadEOF))
  /\ \A t \in Threads : SF_vars(~panicked /\ Step(t))

Spec == Init /\ [][Next]_vars /\ Fairness

-----------------------------------------------------------------------------
(* Properties.                                                             *)

(* physicalLock is locked whenever a drive handle is open and whenever     *)
(* somebody is about to unlock it (unlocking an unlocked mutex kills the   *)
(* process), and at most one handle is open at a time: the early return of *)
(* TapeManager.Close, whoever calls it late.                               *)
DriveGuarded ==
  /\ open # {} => physicalLock
  /\ \A h, k \in open : h = k
  /\ \A t \in Threads : pc[t] = "unlock" => physicalLock /\ open = {}
  /\ \A t, u \in Threads : pc[t] = "unlock" /\ pc[u] = "unlock" => t = u

(* Nobody reads, writes or moves a drive handle while another thread is    *)
(* between seeking it and being done with it, or after it was closed.      *)
DriveUndisturbed ==
  \A t \in Threads :
    /\ pc[t] \in {"copy", "scan"} => ReadsOwn(t)
    /\ pc[t] = "seek" => using[t] \in open
    /\ pc[t] = "write" => using[t] \in open

(* A goroutine behind a pipe has nobody to return its error to.            *)
NoPanic == ~panicked

(* What is synced is the whole file: a buffer that was filled only in part *)
(* because restoring failed is not written over the content.               *)
NothingLost == damaged = {}

(* Between calls, when no restore is running, all locks are free: every    *)
(* operation has released what it took, on its error paths as well.        *)
LocksReleased ==
  (\A t \in Threads : pc[t] = "idle") =>
    /\ ~physicalLock /\ readLock = None /\ writeLock = None
    /\ readerLock = None

(* Every call returns: no caller waits for a lock that is only released    *)
(* by a later call.                                                        *)
CallsReturn == call # "none" ~> call = "none"

(* A restore whose file has been closed or rewound comes to its end.       *)
RestoresEnd ==
  \A g \in Goroutines :
    (pc[g] # "idle" /\ pipe[file[g]] # g) ~> pc[g] = "idle"
=============================================================================
