# STFS in TLA+

STFS keeps a file system on a tape or tar file that can only be appended to, and an
index of it in an SQLite database. Seven models cover it. `Operations` is about that
pair: what every write operation puts on the tape, what indexing makes of it, and what is left
when a process dies in between. `FileSystem` is about the calls above: what they look up, refuse and
change. `OpenFiles` is about the bytes behind a file handle, `Roots` about what names mean under the
roots a file system can have, `Sessions` about the threads of a running process: callers,
the goroutines behind open files, the locks and the drive handles they share. `Blocks` is about records
and blocks, where on a drive a header is and how scans get to it; `Pipes` about compression,
encryption and signatures. TLC checks small
instances, TLAPS proves the properties named in section 4 for all of them.

## 1. The system

| component | state | operations | meets |
|---|---|---|---|
| **Metadata index** `pkg/persisters/metadata.go`, schema in `db/sqlite/migrations` | table `headers`, primary key `(name, linkname)`; per row the position of the content (`record`, `block`), the position of the newest header that touched it (`lastknown…`), `deleted`; the cached root | upsert, update metadata, rename, soft delete, purge, lookups, last indexed position | called by everything else; each statement commits on its own |
| **Index recovery** `pkg/recovery/index.go` | none | `Index`: seek, optional purge, then one `indexHeader` per tape header; headers come from the tape (recovery) or from memory (after a write) | reads the tape, writes the index |
| **Write operations** `pkg/operations/{archive,update,move,delete,initialize}.go` | `diskOperationLock`, the list of headers written | one call: get the writer, read the last indexed position, write header after header (with contents), switch the drive to reading, `Index` from that position | tape, index, tape manager |
| **Restore** `pkg/operations/restore.go`, `recovery/fetch.go` | `diskOperationLock` | seek to a row's position, copy the content to a destination that may block | tape, index, tape manager, pipe |
| **Tape manager** `pkg/tape` | `physicalLock`, the open reader, the closer, `overwrote` | `GetWriter` (creates, truncates), `GetReader` (reuses), `Close` | the drive |
| **File system** `pkg/fs/filesystem.go` | `ioLock` | the afero calls; `Initialize` at start | inventory for checks, operations for effects |
| **Open files** `pkg/fs/file.go` | write buffer, pipe and goroutine of a read, `FileInfo` of the time it was opened | read, seek, write, truncate, sync, close | operations, file system's `ioLock` |
| **Inventory** `pkg/inventory` | none | stat (directly or through a link), list, find | index |
| **Query** `pkg/recovery/query.go` | none | read the headers of the tape from a record and block on, with the arithmetic of `Index` repeated | tape |
| **Tape device** `pkg/mtio`, `internal/tarext`, `internal/ioext` | the position of the drive, file marks, bytes read | seek to a record, tell the record, skip a file mark, end an archive | scans, fetches, writers |
| **Pipes** `pkg/compression`, `encryption`, `signature`, `internal/suffix` | none | put layers around contents and headers and take them off; refuse what a key, a format or a drive does not allow; suffix on names | operations, recovery |
| **Caches** `pkg/cache` | the write buffer in a file or in memory; the base path | buffer writes; put the root before names | open files, file system |
| **Command line** `cmd/stfs` | none | one process per command, or a server over `STFS` | everything |
| keys, checks, logging, generated models | none of interest | | |

What is hard about it:

* **Tape and index are two stores without a common transaction.** A process can die after
  a header is on the tape and before it is indexed, after the tape is truncated and before
  the index is purged, and in the middle of rebuilding the index.
* **Indexing after a write takes headers from memory by their number.** It starts at the last
  indexed position, ignores one header and pairs what follows with the list. One header more
  or less on the tape pairs everything with its neighbour.
* **The tape keeps everything.** Replaying it meets every name that was ever used; soft-deleted
  rows keep their key, and a rename that violates it stops the replay for good.
* **Hierarchy by pattern.** Children are the rows whose name matches `name/%`.
* **Positions are computed.** After each header the next record and block follow from bytes read,
  rounded up; on a tape also from file marks and the record the drive reports. Archives end within a
  record, other programs end them otherwise, and a process may die at any unit.
* **The root is inferred.** It is the live row with the fewest slashes, remembered by the persister, and
  guessed from the first absolute name while there is none; every name is rewritten to its form.
* **Handles change their nature.** A file reads from a pipe that only goes forward until its first
  write copies the content into a buffer; its `FileInfo` stays that of the time it was opened.
* **Locks.** `ioLock`, two `diskOperationLock`s and `physicalLock` are taken by callers, by a
  goroutine behind a pipe and by error paths that do not release them.

What makes it correct, per component: keys are unique and positions real (index); every header
is indexed once, at its own position, in the order of the tape, and a scan from scratch gives
the same index (recovery); a call changes what it names and nothing else, entry by entry, and
returns (operations); a drive can be put to use after any crash (initialization); no caller
waits for itself (locks, open files); each call of the file system does to the tree what its name
says, or refuses and does nothing (file system); what is written through a handle is what is stored when it is
closed, and nothing else changes (open files); what a client made is found by every later process (roots);
a header can be fetched from where the index says it is, and every scan ends (blocks); what went in
comes out, or an error does (pipes).

## 2. Modules

| module | models | extends |
|---|---|---|
| `Paths` | names, the LIKE match, prefixes of moves, suffixes | |
| `MetadataPersister` | the table and its statements, as operators on the set of its rows | `Paths` |
| `Recovery` | tar headers and `indexHeader` | `MetadataPersister` |
| `Headers` | the headers operations write, and the lookup of the rows they are made from | `Recovery` |
| `Operations` | the state machine: write operations, indexing, start, recovery, death | `Headers` |
| `FileStore` | what clients are promised: a map from names to entries | `Paths` |
| `FilesOnTape` | what clients see of the tape, a history variable, and the refinement of `FileStore` | `Operations` |
| `MCOperations`, `MCStore` | instances for TLC | `Operations`, `FilesOnTape` |
| `FileSystem` | the calls of `STFS`, each one step | `Headers` |
| `FileTree` | what a file system promises: a tree of directories and files | `Paths` |
| `TreeInIndex` | the tree clients see in the index, the refinement of `FileTree` and what is claimed of calls | `FileSystem` |
| `MCFileSystem` | instances for TLC | `TreeInIndex` |
| `OpenFiles` | handles: bytes, position, flags and `FileInfo`, next to calls by name; the refinement of `ByteFiles` | `FileSystem` |
| `ByteFiles` | what handles promise: files of bytes with a position | |
| `MCOpenFiles` | instances for TLC | `OpenFiles` |
| `Roots` | names as asked for, on the tape and in the index; `Initialize` and what the persister remembers | |
| `MCRoots` | instances for TLC | `Roots` |
| `Archives` | the tar format as far as positions depend on it | |
| `Blocks` | drives, file marks, `Index`, `Query` and `Fetch` by record and block | `Archives` |
| `MCBlocks` | instances for TLC | `Blocks` |
| `Pipes` | layers around contents and headers, refusals, the rows made of both, and what is claimed of them | |
| `MCPipes` | instances for TLC | `Pipes` |
| `Sessions` | callers, restoring goroutines, locks, drive handles, pipes, write buffers | |
| `MCSessions` | instances for TLC | `Sessions` |
| `NaturalProofs` | lemmas that stand for induction over natural numbers | |
| `IndexProofs` | lemmas about names and the operators of the index and of headers | `Headers`, `NaturalProofs` |
| `OperationsProofs` | theorems about `Operations` for all clients; lemmas: which tapes can be indexed from scratch, and what one more header makes of them | `Operations`, `IndexProofs` |
| `StoreProofs` | theorems: index and tape agree, for disciplined clients; what a delete spares; `Operations` implements `FileStore` | `OperationsProofs`, `FilesOnTape` |
| `FileSystemProofs` | theorems about `FileSystem` and `OpenFiles`; `FileSystem` implements `FileTree`, `OpenFiles` implements `ByteFiles` | `TreeInIndex`, `OpenFiles`, `IndexProofs` |
| `SessionsProofs` | theorems about `Sessions` | `Sessions` |
| `PipesProofs` | theorems about `Pipes` | `Pipes`, `NaturalProofs` |
| `BlocksProofs` | theorems about `Blocks` | `Blocks`, `NaturalProofs` |

### Operations

**Data.** A name is the sequence of its components, a component an opaque value; `Like` says what a
component matches in a LIKE pattern: itself, and where the pattern confuses names, other components or, as `_` and `%` match slashes,
runs of several (`LikeBelow` cuts a name into such runs). `Stripped` says which end in the configured suffix.
A content is a model value and stands for its own length; `Empty` is length zero. Position *n*
is the *n*-th header of the tape instead of a pair of record and block. A header keeps what
indexing looks at: action, name, link, type, mode, size, the PAX records `ReplacesContent`
and `ReplacesName`, and whether `AddSuffix` changed its name. That pipes
give back what they were given is the subject of `Pipes`, positions of `Blocks`, the forms of a name of `Roots`: names
are compared as the index compares them, after `getSanitizedPath`.

**State of `Operations`.** `tape` and `db` are what is on disk, `drive` says whether the tar
file exists. `pc` is the process: `down`, `idle`, `write` and `index` within an operation,
`scan` while the whole tape is indexed. `op` is what the operation keeps in local variables:
the headers in memory (`hdrs`), how many are written, the last indexed position it read
(`base`) and where indexing is (`pos`); the header at `pos` is paired with
`hdrs[pos - base]`, which is `i - offset` of `index.go:120`. `err` is the last error. `trusted`
records whether a crash has interrupted an operation since the last complete scan; no code reads
it, only the discipline of clients below does.

**Actions.** `Archive`, `ArchiveOverwriting`, `UpdateContent`, `UpdateMetadata`, `UpdateLocal`,
`Move`, `Delete`, `Initialize` are calls; each does what the call does up to the first header it
writes (`Begin`: the drive is opened, perhaps truncated, the last indexed position read, the
headers computed; nothing but the operation itself can change the index before they are
written, `diskOperationLock` is held). `WriteHeader` is one header with its content,
`StartIndex` the purge and the seek, `IndexStep` one header, `IndexMissing` the error
`ErrTarHeaderMissing`, `IndexEnd` the end of the tape. `Restart`, `InitializeScan` and
`InitializeFresh` are the three ways `STFS.Initialize` goes; `RecoveryIndex` is
`stfs recovery index`; `ScanStep`, `ScanFail`, `ScanEnd` are a scan, the second with the
fallback of `Initialize` that appends a root. `Crash` kills the process between any two of
these, `LoseIndex` loses the database file.

**What clients do.** Nothing in the code keeps a caller from archiving onto an index that is
behind the tape. `Permit` names each liberty a client or the environment may take. Without
`resume`, a process is not started on an index a crash has interrupted, but after
`stfs recovery index -o`; without `reuse`, nothing is moved to a name a deleted row still has;
and so on, as listed at the head of `Operations`. The pair of a run that holds without a permit and a run that
fails with it says which discipline the program depends on.

**Faulty variants.** A definition whose comment begins with *Faulty:* stands before the one it
is a mistaken variant of (a forgotten offset, a missing purge, a hard delete instead of a
soft one). No behaviour uses them; put in the place of the right definition each makes the
property fail that is meant to notice the mistake. `PROJECT.json` lists the pairs.

**Refinement.** `FileStore` has neither tape nor index: a call is a list of changes to single
entries, they take effect in order, a crash drops the rest. `FilesOnTape` maps `files` to the
client's view of the tape (the live rows of a scan of it, with the contents they point at) and
`todo` to the headers not yet written, and checks `Store!Spec`. It is a statement about the
tape: an entry is changed when its header is written, not when it is indexed. `IndexIsReplay`
of run *operations* says that the index agrees as soon as the operation is over.

### FileSystem

**State.** `db` is the index, `last` the last call with its result, `drive` whether an operation can be
run: not after a call that returned with the drive locked, nor, as a bound, after one whose headers were not
all indexed, which is the subject of `Operations`. `ioLock` makes every call one step, and an operation
within it is written, indexed and done. Positions are irrelevant between such steps and are 1.

**Actions.** One per call, `Chmod` standing for `Chown` and `Chtimes` as well, which make the same
lookups, and `LstatIfPossible` for `ReadlinkIfPossible`; `Stat` is `Found`. Each is a disjunction over the ways the call can go: the errors it
returns, in the order of its checks, and the one operation it runs (`Perform`) with the headers of `Headers`, indexed by
`Recovery`. A file that was made is looked up once more before it is opened (`MakeFile`), and may not be found under its name. `StatName` and `StatLink` are the two ways of `inventory.Stat`, `Target` the chain of both that
`Chmod` and `OpenFile` follow. A symlink is a row named by its target; a call therefore meets the row of a link
under two names.

**What clients do.** Nothing here is excluded. A *liberty* is a writing call that leaves what the
abstract file system knows: a symlink, a rename onto an entry, to a name a deleted row still has or to a name below its
own, an entry made without a directory above it, and the removal of the root. `free` counts the
writing calls since the first of them.

**Refinement.** `FileTree` has a tree, the last call and whether it succeeded. It gives one outcome
to every call and promises nothing once `plain` is false. `TreeInIndex` maps `tree` to the live rows that are
no links, the outcome to `last.res = "ok"` and `plain` to `free = 0`.

### Sessions

**Threads.** Whatever holds `ioLock` is the thread `Caller`, and `call` the call that holds it; the
other threads are the goroutines `File.Read` and `seekWithoutLocking` start. Each has a `pc` and
runs a `job`: `restore` (`Operations.Restore`, in a goroutine or, for `enterWriteMode`, in the
caller), `write` (`Update`, `Delete`, `Archive`, `Move` up to `CloseWriter`) and then `index`.
What an operation writes and how it is indexed is the subject of `Operations`; here it is one step.

**Locks.** `readLock` and `writeLock` are the `diskOperationLock`s of `readOps` and `writeOps`,
`readerLock` is the mutex of `openOrReuseReader`; they have owners. `physicalLock` has none: it is
locked where the drive is opened and unlocked where `TapeManager.Close` gets to, by whichever
thread calls it. Handles are numbers; `reader` and `closer` are the fields of `TapeManager`, which
may refer to a handle that is closed. A closed handle acts like none, so references to it are
dropped and the number is used again. `placed` is the thread that moved the open handle last.

**Files.** A file stands for a name and one handle opened on it. `pipe` is the goroutine behind its
pipe (`Ended` once the writing end is closed), `begun` says whether `BytesRead` is positive, `buf` is the
write buffer: none, filled in part, whole, or closed by `Update`. The content has `Chunks`
pieces, or none if the file is in `empty`. `damaged` collects files that were written from a buffer
filled in part; no code reads it.

**Actions.** `Read`, `Rewind`, `Write`, `Sync`, `Close`, `RemoveAll`, `Create` begin a call and do what it
does before it has to wait. `ReadChunk` and `ReadEOF` are the caller at its end of the pipe. The rest are
steps of an operation: `BeginRestore`, `GetHeader`, `BeginWrite`, `GetWriter`, `WriteTape`,
the outcomes of `GetReader` (`ReuseReader`, `ReopenReader` then `OpenReader`), the errors of opening the drive, which leave
`physicalLock` locked (`GetWriterFails`, `OpenReaderFails`), and `TakeReader`, the field
`m.reader` being read after the lock is released; `SeekDrive`, `FetchChunk`, `FetchFails`,
`GiveRefused` (`io.ErrClosedPipe`), `FetchEnd`, `Index`; and `Close` in three steps, since it reads
`m.closer`, calls it and unlocks without a lock of its own. `Return` releases the
`diskOperationLock` and ends the process if a goroutine has an error.

**What clients do.** `Permit` works as in `Operations`. With none, a client reads a file to its end
or closes it before it uses another, reads at least a byte between rewinding and leaving, removes
and reads what exists, and closes a file it has synced only if it wrote nothing. `unopenable` and `unreadable` are liberties of the
drive: opening it for an operation that writes may fail, and reading it (with both, opening it for a restore).

### OpenFiles

**State.** A content is the sequence of its bytes, and `size` of a row is its content. `handles` has the open file
behind each handle: the path and mode of the time it was opened, its flags, and `io`: nothing yet, the pipe (`data`
is what it delivers, `at` its `BytesRead`), the write buffer, or one `Update` has closed. `db` and the calls by
name are those of `FileSystem`. The buffer is the one in a file; locks and the goroutine are in `Sessions`.

**Actions.** `OpenHandle`, then per call of `file.go` one: read, read at an offset, seek, write, write at an
offset, truncate, sync, close; and the calls of `FileSystem` that create, remove, rename or change what is open.
`Restores` is the start of a pipe, `Entered` the change from pipe to buffer, `SyncWithoutLocking` what `Sync` and `Close` store.

**Refinement.** `ByteFiles` gives each handle a view of its bytes and a position. `ViewOf` maps a view to the buffer, the pipe
or the row, whichever the handle would use next. A *liberty* is a call whose effect no file has, listed
under the disagreements below; nothing is promised after one, but `ClosedIsStored` and `HandleSparesOthers` hold all the same.

### Roots

**Data.** A name has a form (`/a`, `a`, `./a`, `.`) and parts. Every entry is a directory, on which names depend alone.
`tape` has headers that create, change, rename and delete; `rows` is the table in the order of insertion, which decides
between roots of the same depth; `cache` is `p.root` and `p.rootIsEmptyString`; `answer` what `Initialize` gave the process and
`NewCacheFilesystem` puts before names; `made` what clients have made.

**Actions.** `Initialize` (index as found, tape scanned, new tape), `Mkdir`, `Chmod`, `RemoveEntry`, `Rename` with names written with and
without a slash, `Stop`, `Lose` (the database), `RecoveryIndex` (with `-o`). `Sanitized` is `getSanitizedPath` with its effect on the cache.
Without the permit `initialize` a lost index is left to `Initialize` only if the tape was never changed and is
written in one form throughout (what `tar` writes), otherwise to `stfs recovery index -o`.

### Blocks

**Data.** A drive holds units, `BlockUnits` of them a block, `RecordSize` blocks a record. A regular file is one sequence of units, a tape a
sequence of files, each ended by a mark that counts as a record. A header is known by its number; an entry is its PAX block, if it has one,
its header and its content. That one block stands for the `x` header `archive/tar` writes before PAX records and the blocks of the records:
a tear between these is not modelled. `ReadNext` is what `archive/tar` makes of any offset.

**Actions.** Operations append an archive, whole or torn at any unit (`tear`); a drive may be an archive another
program has ended in its own way (`foreign`). Scans are steps: a header (`Take`), the end of an archive, a reader put in place of one that fails,
a file mark; `by` says whether it is `Index` of an operation, of everything, or `Query`. `intact` counts the headers before
the first torn archive.

### Pipes

**Data.** A stream is a content and the layers around it; its size is the stream itself, so that sizes are equal only if everything is.
A header may be wrapped in a signed one and that in an encrypted one. One configuration (formats, keys, record size, kind of drive) writes a
tape; any may read it. The libraries are external: a layer taken off with the right key gives what was put into it.

**Actions.** `Archive`, `Update`, `Chmod`, `Move`, `Delete` append a header with its body, index what they remember of it, or are refused and leave the drive
locked; `Damage` changes a body. Reading (`Fetched`) gives the set of what may come out, `RecoveryIndex` the index of a scan. `Writers` are the
configurations a tape is written with, `Readers` those others read it with.

## 3. Runs

| run | instance | question |
|---|---|---|
| `operations` | directory, its file, a free name; two modes (interchangeable); 5 headers; crash, lost index | Does the index keep up with the tape, whatever happens, if crashes are followed by a scan? Do the operations implement `FileStore`? |
| `batch` | two entries a call, truncated tapes; 5 headers | Is the index still that of the tape when a used tape is overwritten? |
| `loose` | a file, a symlink, a file with the suffix in its own name; 3 headers; every permit but `overwrite` | What still holds when clients do anything: keys, positions, calls return |
| `tree` | the root, two names in it and one below; two writing calls from the first liberty on | Does every call have the outcome and effect it has on a tree? Is what was made there, and everything else as before? |
| `openfiles` | two names, one handle, contents of two bytes, one call from the first liberty on | Is a handle a file of bytes, and does it change its own name only? |
| `roots` | every root a file system can be given, two kinds of tapes of other programs; 6 headers | Does each process find what clients have made, and nothing else? |
| `blocks` | records of 4 blocks, contents of no, one and more blocks; 3 headers; torn and foreign archives | Is every header indexed where it can be fetched? Does every scan end? |
| `pipes` | every compression, `age` or none, every signature, three sizes of a record, good and bad keys; 3 headers | Does what went in come out, and the same index? |
| `sessions` | two files, two goroutines, contents of two reads; no permit | Does every call return and every goroutine end, with all locks released and the drive handle undisturbed? |
| `any` | the same, every permit but `unreadable` | What holds when clients do anything and the drive cannot always be opened: is it guarded, is no content lost? |
| `resume`, `stale_root` | | violations, see below |

The properties of `Operations`, and what would break them: `Paired` (the headers taken from memory are those on
the tape), `CaughtUp` (the next operation will ignore exactly the last header),
`IndexIsReplay` (the index is what a scan gives), `ContentMatches` (rows point at the content
whose size they report), `NoError`, `RecoverySucceeds` (a scan never stops at a header),
`HighWaterMark` (the position to continue from moves back only by a purge),
`DeleteSparesOthers`, `Positions`, `PrimaryKey`, `Returns`, `ImplementsFileStore`.

Those of `FileSystem`: `ImplementsFileTree` (for plain clients every call does what it does to a tree, and is
refused exactly where it is there), `MadeIsFound` (what a successful call made is found, by
lookups that go through names and links), `MakingSparesOthers` (making an entry or a link changes no other entry),
`RenameLosesNothing` (a rename to a free name loses no entry, not even where directories are missing or below
themselves, and gains none unless one of the two names lies below the other). Of a rename to a taken name it says nothing: what that should do
is `RenameMoves`, which the code does not satisfy, see the disagreements. The exception is none of this instance; the proof needs it, see *Renames* in section 4.

Those of `OpenFiles`: `ImplementsByteFiles`, `ClosedIsStored` (what a handle has written is the content of its name once it is
synced or closed, also when that was removed meanwhile), `HandleSparesOthers` (a call on a handle changes no other row, also when
the file was renamed).

Those of `Roots`: `FoundAgain` (a process finds exactly what was made, however names are written, and after any restart or recovery),
`RootCached` (the root the persister remembers is that of the index).

Those of `Blocks`: `Fetchable` (the record and block of a row lead `Fetch` to its header), `IndexComplete` (a finished scan has every header before
the first torn archive, once, in order), `Ascending` (so that the last indexed position is the greatest), `QueryFinds` (`Query` from
any indexed header prints what is indexed behind it), `ScanAdvances` (no step of a scan leaves it where it was).

Those of `Pipes`: `RoundTrip`, `SignedIsOriginal` (whoever reads with signatures on gets the content or an error, damaged or with
other flags and keys), `IndexedAlike` (the index made of remembered headers is the one recovered from the wrapped ones),
`SizesMatch` (a row has the size of the client's content and no suffix).

Those of `Sessions`: `DriveUndisturbed` (nobody seeks or closes a handle another thread is
reading), `DriveGuarded` (one open handle, `physicalLock` locked while it is open, every unlock
matched), `LocksReleased` (once all is quiet every lock is free), `NoPanic`, `NothingLost` (a buffer
filled in part is never written over the content), `CallsReturn`, `RestoresEnd`.

**Bounds.** `MaxTape` bounds the tape (`MkdirRoot` may exceed it once, see `WithinBound`),
`MaxBatch` the entries of a call. Five headers hold a root, a directory, its file and either their
move (two headers) or two rounds of deleting, creating and changing one entry; every pair of header kinds meets on one
name. Three are enough for what run *loose* asks, since its permits
reach stale indexes, conflicts and failing scans from a single call after the root. There is
one content beside the empty one: contents are only compared with the size of their row.

For `FileSystem`, `MaxRows` 4 holds the root, a directory, its file and one more entry, deleted rows included;
names have at most two components. With two names in the root and one below, every pair of calls meets on the
same name, on a name and its directory, and on unrelated names. A rename of a directory takes its
file along. From the first liberty on there are at most three rows and two writing calls: a link, its target
and one call on either. New entries have the mode `NewMode`; only `Chmod` sets another.

For `Sessions`, `MaxHandles` is 2: all references go to the open handle or to none except between the closing of
one handle and the assignment of the next, and a step that needs a third number is not
enabled, which run *sessions* would report as a call that does not return. Two goroutines let one wait for the other, and a third would
wait behind the second. Two pieces of content make the difference between a file that is being read
and one that has been read.

For `OpenFiles`, two bytes tell a position at the beginning from one within and one at the end, and offsets from -1 to 1
are before, at and behind each. `VIEW` leaves out `last`: nothing that is done depends on it, and the properties that speak of it are
about steps. The properties also hold with two handles on contents of one byte, and with two calls from the first liberty on;
both take longer than a run should.

For `Roots`, six headers hold a root, a directory, its entry, their rename (two headers) and one call more. `/`, `/test`, `test`, the empty name,
`.` and `./` are the forms `getSanitizedPath` and `filepath.Clean` tell apart.

For `Blocks`, a record of four blocks of two units is the smallest in which an archive of one entry and one of two end within a record, on its end and
behind it; contents of no unit, of exactly a block (which reads like a header) and of more than one. Three headers are one
torn archive between two whole ones.

For `Pipes`, three headers are a file, its change or rename and one more; records of 1, 20 and 128 blocks are on either
side of every size a format asks for. PGP and age encryption take the same way, so only age is in the run.

**Fairness.** In `Operations` only run *loose* has a liveness property. `WF_vars(Progress)`: an operation that
has begun goes on by itself, one header after the other; in the code it is a loop that waits for
nobody once it holds the locks. Calls, crashes, restarts are never forced. In `Sessions` every
thread's steps are strongly fair (`SF_vars`): a Go mutex hands over to the waiter that has waited
longest, so a thread cannot lose the race for it for ever; and the caller's end of a pipe is weakly fair.
No fairness is given to the beginning of calls.

No fairness is used for `FileSystem`, `OpenFiles`, `Roots`, `Blocks` and `Pipes`, whose properties are all safety; that scans end is
`ScanAdvances` there, together with the end of the drive.

Deadlock is checked in all passing runs but *any*, *roots* and *pipes*: some process, or some call, can always be
started. In *any* the process may have panicked or hang, which the disagreements below are about; in *roots* and
*pipes* a tape ends at its bound, in *pipes* also behind an operation that is refused.

### Disagreements between code and documentation

Two runs check a promise of the repository and find it broken by what the code does.

* `resume`: indexing after a write ignores one header, *"which is the last header which we
  already indexed"* (`archive.go:259`). After a crash between write and index it is not, and
  nothing catches up when the process starts again: from then on headers are paired with their
  neighbours.
* `stale_root`: when `Initialize` rebuilds a lost index, names of new entries are kept as they are, but those of headers that
  change, rename or delete one are sanitized, and as no root is known the first absolute one, of whatever file, becomes the root
  (`metadata.go:517-522`). `GetRootPath` answers it from its cache, although it is asked to *"Ensure that the
  new root path is being used"* (`filesystem.go:267`), and `NewCacheFilesystem` puts it before every name: nothing is found until the
  process is started again.

More were found with the same models and have no run of their own. Each shows when one configuration is changed as said, its
properties replaced by the one named and deadlocks not checked.

| what happens | what the repository says | how to see it |
|---|---|---|
| `Rename` to a name of the same type removes the entry there, leaves the source where it is and reports success. | the test *"Can rename /test.txt to /existing.txt if source and target both exist"* (`filesystem_test.go:2982`) wants the opposite, but returns the nil error of its first `Stat` when it finds the source | `MCTree.cfg`, `RenameMoves` |
| A rename to the name of a deleted entry is written and then refused by the primary key; the tape cannot be scanned past that header again. | the index can be restored *"from scratch with `stfs recovery index`"* (`README.md:263`) | `MCResume.cfg`, `Permit = {"reuse"}`, `RecoverySucceeds` |
| Scanning again without purging fails at a move. | *"a no-op if the header has been moved before"* (`index.go:349`) | `MCResume.cfg`, `Permit = {"reindex"}`, `RecoverySucceeds` |
| Removing a symlink deletes the row of its target. | the test that excludes it (`filesystem_test.go:2323`) never gets to look | `MCResume.cfg` with `NamesLoose`, `SourcesLink`, `MaxTape = 4`, `Permit = {"symlink"}`, property `DeleteSparesOthers` |
| Deleting `/d` deletes what is below `/D`: SQLite's LIKE ignores case. | *"get it's children"* (`delete.go:54`) | `MCResume.cfg` with `NamesCase`, `SourcesCase`, `MaxTape = 6`, `Permit = {}`, property `DeleteSparesOthers` |
| Deleting `/my_docs` deletes what is below `/my/docs`: in LIKE `_` and `%` are wildcards, for slashes as well. | *"get it's children"* (`delete.go:54`) | `MCResume.cfg` with `NamesWild`, `SourcesWild`, `Permit = {}`, property `DeleteSparesOthers` |
| The suffix of the format is taken off the name of every regular header that is indexed (`index.go:262`), but put on only when a content follows: deleting `/b.gz` with gzip deletes `/b`, or fails if there is none. | | `MCResume.cfg` with `NamesSuffix`, `SourcesSuffix`, `Permit = {}`, property `DeleteSparesOthers` |
| For the same reason a new, empty `/b.gz` is indexed as `/b`: `Create` answers that it does not exist, and an entry of that name is overwritten. |  | `MCTree.cfg` with `Stripped <- MCSuffixed`, property `MakingSparesOthers` |
| A crash after the tar file was created and before its first header leaves a drive `Initialize` returns `ErrNoRootDirectory` for, at every start. | | `MCResume.cfg`, `Permit = {"crash"}`, property `InitializeYieldsRoot` |
| While a file is partly read its goroutine keeps `diskOperationLock` and the drive; reading a second file, or any write call, waits for them with `ioLock` held, so the first can neither be read on nor closed. | *"read files from the tape"* (`README.md:125`) as from *"a regular disk"* (`README.md:16`) | `MCSessions.cfg`, `Permit = {"interleave"}`, property `CallsReturn` |
| `Delete` of a name that does not exist returns without `CloseWriter`; `RemoveAll` reports success, as its test wants (`filesystem_test.go:2426`), and the next call waits for ever. | | `MCSessions.cfg`, `Permit = {"missing"}`, property `CallsReturn` |
| `GetWriter` and `GetReader` return the error of opening the drive with `physicalLock` locked; every later operation waits for ever. | even if *"the drive fails […] your data is secure"* (`README.md:19`) | `MCSessions.cfg`, `Permit = {"unopenable"}`, property `CallsReturn` |
| `enterWriteMode` keeps a buffer whose filling has failed; `Write` returns the error, `Close` then writes what was copied as the new content. | even if *"the drive fails […] your data is secure"* (`README.md:19`) | `MCSessions.cfg`, `Permit = {"unreadable"}`, `NothingLost` |
| `Sync` leaves in the handle the buffer that *"the `update` operation closes […] itself"* (`file.go:196`). Closing the file syncs it once more, which fails and leaves the drive locked. | | `MCSessions.cfg`, `Permit = {"synced"}`, `LocksReleased` |
| At the end of an archive in a file `Index` skips zeros two blocks at a time (`index.go:81-117`); of an archive that ends with an odd number of them, or with four, it skips the header behind as well. | this *"makes it possible to append to a tar file created by i.e. GNU tar"* (`index.go:106`) | `MCBlocks.cfg`, `Padding = {4}`, `Permit = {"foreign"}`, `IndexComplete` |
| On a tape `Query` prints positions nothing can be fetched from: `curr` and `counter` are shadowed where the reader is replaced (`query.go:168`). | the example shows the record and block of each header (`README.md:223`), which are what a file is recovered by (`README.md:242`) | `MCBlocks.cfg`, `QueryIsFetchable` |
| Below the root `./` a rename of `/a` to `/b` makes `./b/a`: what `TrimPrefix` of `move.go:90` is given does not begin with `./a`. | | `MCRoots.cfg`, `Permit = {"dot"}`, `FoundAgain` |

Others are visible as restrictions of a model: the liberties of `OpenFiles`, what `Roots` leaves to `recovery index`, what `Pipes` refuses.

* *Open files.* A `Truncate` that makes a file longer loses its content (`file.go:709`); `O_TRUNC` has no effect before the first write
  (273); before it, `Seek` answers with the number of bytes it skipped (376), and from the end it
  subtracts the offset (316); the position is given up with the first write (280); a file closed after it was renamed is written under the old name, which nothing indexes, and one closed after it was removed
  comes back; a mode set while it was open is set back when it is closed; reading a file whose name is gone ends the process.
* *Roots.* After `recovery index -o` of a tape whose root is `/`, that root is remembered as the empty name, so what is written from then on is relative.
  A scan by `Initialize` of such a tape, or of one with the roots of `STFS` `""`, `.` or `./`, misses names or
  fails and appends a second root.
* *Pipes.* On a tape, parallel gzip, brotli and minisign are refused, gzip and lz4 need records of 128 blocks and zstandard of 2, and
  the refusal comes after the drive was opened, which stays locked. A PGP key that signs with a subkey
  never verifies, as the primary key is asked to (`verify.go`). An empty file that was archived has no body, and reading it through most pipes fails.

## 4. Proofs

| theorem | statement | assumes |
|---|---|---|
| `TypeCorrect` | `Spec => []TypeOK` | |
| `KeysStayUnique` | `Spec => []PrimaryKey` | |
| `PositionsOnTape` | `Spec => []Positions` | `"overwrite"` not permitted |
| `NeverBack` | `Spec => HighWaterMark` | `"reindex"` not permitted |
| `AlwaysPaired` | `Spec => []Paired` | `Disciplined` |
| `AlwaysCaughtUp` | `Spec => []CaughtUp` | `Disciplined` |
| `IndexStaysReplay` | `Spec => []IndexIsReplay` | `Disciplined` |
| `NeverFails` | `Spec => []NoError` | `Disciplined` |
| `RecoveryAlwaysSucceeds` | `Spec => []RecoverySucceeds` | `Disciplined` |
| `ContentAlwaysMatches` | `Spec => []ContentMatches` | `Disciplined`, `"overwrite"` not permitted |
| `DeleteAlwaysSpares` | `Spec => DeleteSparesOthers` | `PlainNames`, `"symlink"` not permitted |
| `OperationsImplementFileStore` | `StoreSpec => ImplementsFileStore` | `Disciplined`, `"overwrite"` not permitted |
| `MakingAlwaysSpares` | `TreeSpec => MakingSparesOthers` | `Suffixless` |
| `MadeIsAlwaysFound` | `TreeSpec => []MadeIsFound` | |
| `RenameNeverLoses` | `TreeSpec => RenameLosesNothing` | `PlainNames` |
| `TreeIsImplemented` | `TreeSpec => ImplementsFileTree` | `PlainNames` |
| `BytesAreImplemented` | `OpenSpec => ImplementsByteFiles` | `Suffixless`, `Root` is no name of a file |
| `HandleAlwaysSpares` | `OpenSpec => HandleSparesOthers` | |
| `ClosedIsAlwaysStored` | `OpenSpec => ClosedIsStored` | |
| `SessionsTypeCorrect` | `Spec => []TypeOK` of `Sessions` | |
| `DriveStaysGuarded` | `Spec => []DriveGuarded` | |
| `NothingIsLost` | `Spec => []NothingLost` | `"unreadable"` not permitted |
| `LocksAlwaysReleased` | `Spec => []LocksReleased` | `"missing"`, `"synced"`, `"unopenable"` not permitted |
| `DriveStaysUndisturbed` | `Spec => []DriveUndisturbed` | `"interleave"`, `"hasty"` not permitted |
| `NeverPanics` | `Spec => []NoPanic` | these two, `"unlinked"`, `"unreadable"` not permitted |
| `PipesTypeCorrect` | `Spec => []TypeOK` of `Pipes` | |
| `SizesAlwaysMatch` | `Spec => []SizesMatch` | |
| `AlwaysIndexedAlike` | `Spec => []IndexedAlike` | |
| `SignedIsAlwaysOriginal` | `Spec => []SignedIsOriginal` | |
| `AlwaysRoundTrip` | `Spec => []RoundTrip` | |
| `AlwaysAscending` | `Spec => []Ascending` | |
| `AlwaysFetchable` | `Spec => []Fetchable` | `PlainPadding` |
| `AlwaysIndexComplete` | `Spec => []IndexComplete` | `PlainPadding` |
| `QueryAlwaysFinds` | `Spec => []QueryFinds` | `PlainPadding` |
| `ScansAdvance` | `Spec => ScanAdvances` of `Blocks` | |

Each holds, under what it assumes, for any names, contents, batches, tape lengths, files, goroutines, handles, configurations, keys, sizes of records and blocks, and bounds. The named assumptions on the constants
(`PathsAssumption`, `MetadataAssumption`, `OperationsAssumption`, `SessionsAssumption` and so on) say that a component matches
itself in a pattern, that the marks for "no name", "no row", "no thread" are nothing else, that a batch is bounded
and that only regular files have contents; TLC evaluates them in every run.

### What is assumed of clients

`PlainNames`: in the pattern of `GetHeaderChildren` no component that occurs in what clients name matches another one or a path of
several (`ExactOn`; so `my_docs` is excluded where `my` and `docs` occur), and none of these names ends in the suffix of the configured format. `Disciplined`: `PlainNames`, and of the permits at most `crash`, `lose` and `overwrite`.
That is a client that edits what is there, makes no links, renames to names nothing had, and runs `stfs recovery index -o`
after a crash, with processes that may die at any step and indexes that may be lost; runs *operations* and *batch* are
instances of it. `Suffixless` is the second half of `PlainNames` for the names of `FileSystem` (`PlainNames` is defined for the clients of
`Operations` in `OperationsProofs`, for those of `FileSystem` in `FileSystemProofs`, of the same three notions in `IndexProofs`). Nothing else is assumed of the clients of
`FileSystem` and `OpenFiles`, symlinks and renames onto anything included.
`PlainPadding` speaks of the drive: an archive of another program that is on it ends with two blocks of zeros, as those of `archive/tar` do, or just ends.
With `Padding` `{1}`, `{3}`, `{4}` or `{5}` in `MCBlocks.cfg` TLC finds `Fetchable`, `IndexComplete` and `QueryFinds`
violated, with `{6}` only the last, since `Query` ends where no header follows two blocks of zeros.

Each assumption is there because the code needs it. TLC finds a counterexample to these of
the properties on the instance of run *resume* (for links and names on those of the disagreements above) with the one liberty:

| liberty | `Paired` | `CaughtUp` | `IndexIsReplay` | `NoError` | `RecoverySucceeds` | `ContentMatches` | `DeleteSparesOthers` | `ImplementsFileStore` |
|---|---|---|---|---|---|---|---|---|
| `resume` (with `crash`), `fresh`, `reindex` | x | x | x | x | x | x | | x |
| `local` | x | x | x | x | | x | | x |
| `unknown` | x | x | x | x | | x | | |
| `onto` | | x | x | x | x | x | | x |
| `reuse` | | | x | x | x | | | x |
| `symlink`, names that LIKE confuses | | | | | | | x | x |
| names with the suffix | x | x | x | x | x | x | x | x |
| `overwrite` (with `crash`) | | | | | | x | | x |

The empty fields are properties TLC finds no violation of there: some theorems hold of more clients than is stated. For deletes,
where the difference is largest, that is proved. `MakingAlwaysSpares` fails with `MCSuffixed`, `TreeIsImplemented` with that and with components that LIKE confuses, those of
`Sessions` with each permit they exclude. `RenameNeverLoses` is stated where its proof holds: on instances of this size TLC finds no violation of it with either.

### Arguments

*Operations, all clients.* `TypeOK` is not inductive: the last indexed position exists only if the table is
finite with bounded positions, and a header can be taken from memory only if indexing is past
`base`. `TypeInv` adds both. `IndexProofs` proves, operator by operator, what indexing one
header keeps: rows stay rows, a finite table stays finite, no position exceeds the bound or the
header's own (`IndexedTable`), keys stay unique (`IndexedUnique`), no row gets older
(`IndexedNotOlder`). `IndexChanges` reduces every step of the machine to three cases: the table
stays, is emptied, or takes one header at the position indexing has come to (`Taken`); each
invariant is then proved from the lemma about that header. `NeverBack` needs one more
invariant, `Ahead`: while an operation runs, nothing in the table is newer than the position it
continues from. This is what a scan without purge breaks.

*Tape and index.* What a scan of a tape yields is a fold over its headers, `Replayed`; what is
true of it for tapes of any length is proved by taking the first header that goes wrong (`LeastNatural`, `UpTo`). `Good(tape)` says that
every prefix of the tape can be indexed from scratch, that each header then leaves its position in some row, that
the contents of live rows are where their rows point, that keys are unique, and that each header has its `Effect` on what clients see. The core is one lemma per call
(`ArchiveIsGood`, `ContentIsGood`, `MetadataIsGood`, `MoveIsGood`, `DeleteIsGood`): on a good tape whose replay is the index, the headers
the call computes from that index make a good tape again, in whatever order the rows below a directory are listed. That is where the discipline goes in: a
target of a rename is no row's name, so the primary key is not violated, and stays so while the rows of the directory
move one after the other (`RebaseInjective`). `CacheInv` then relates the index to a prefix of the tape at every step: all of
it between operations (`UpToDate`), the first `base` headers while an operation writes, those up to `pos` while it indexes or scans; and
the headers in memory to those on the tape (`Placed`). Since the header indexed last left its position in the table and nothing is
newer, `GetLastIndexed` is the length of the tape whenever an operation begins (`LastIsKnown`): so `base` is right, hence the
pairing. A crash keeps all of this but the agreement of index and tape, which no process relies on until the next scan.
`StaleInv`, the index is that of *some* prefix of the tape, holds even then, and gives `ContentMatches`.

*Refinement.* `StoreInv` is `CacheInv` and `files = FilesOn(tape)`. A `WriteHeader` step is the only one that changes `files`, and the
`Effect` of the header it writes is the change the call put first on `FileStore`'s list; a call is its list of changes (a directory with what is below it,
in the order of its rows); a crash drops the rest; everything else stutters.

*Deletes.* `NamesInv` (rows and headers, in memory and on the tape, have plain names and no link) needs no agreement of index and
tape, and with it every header a delete has in memory names its target or something below it (`DeleteInv`).

*File system.* `RowsInv`: between calls the index is a finite table with unique keys whose positions are all 1. Every way a call can go writes headers
made from rows of that table. A header that makes an entry replaces the row of its own key, name and link, and no other; the row of a
link has the name of its target, which is why the key, not the name, has to be followed. For `HandleAlwaysSpares` and `ClosedIsAlwaysStored` `OpenInv`
is enough, which types no row or buffered content.

*Renames.* No statement merges two rows (the primary key), so what a rename can lose is only what it marks, and it marks nothing: every header leaves at least
as many live rows (`RenameCounts`, `LiveImage`). It leaves as many if the row its edit writes to is live. That row has the new name, while `indexHeader` has only
looked up whether *some* row has the old one; it is live as long as the row the header was made from is still there (`Ready`), for then a row of the
new key would be a conflict. With two links to one target there are two headers for one name, and the first takes the rows of both along; the second
must find none, so no header in between may bring a row to that name. None does if what is renamed out of the directory
cannot end up in it again (`RebaseLeaves`), that is, unless one name lies below the other (`Orderly`). Where it does, entries renamed one after the other down a chain of
directories can bring a deleted link back to life without an error. No instance small enough for TLC gets there, but indexing such headers with TLC shows it; so the property has the exception.
`Tidy` says of every row and header that its name is made of components in use, that only links have linknames and that none carries the mark of new content.

*Tree.* `TreeInv` is `RowsInv`, `tree = Tree` and, as long as no liberty was taken (`free = 0`), that the index is `Simple` and the tree `Rooted`. `Simple`: no links, plain names,
unique keys, so that no two rows, live or deleted, have one name; every lookup of the code, by name or by link name, then finds the entry of the tree (`PlainLooks`).
`Rooted`: every entry but the root lies in a directory, and so do the directories above it (`AllAbove`). A call that removes or renames writes
one header per row below its target, in the order of the rows: `DeletionsDone` and `MovesDone` say that after any number of them, in any order, the tree is the old one `Pruned` of the names
listed or with these names `Grafted` to their new place; what is listed is what is below, `LikeIsBelow`, because of `PlainNames`. The names a rename moves go to names nobody has, and back again (`RebasedBack`),
so no two of them meet; and the directory an entry lies in moves to where the entry will look for it (`ParentRebased`), so the tree stays rooted. There is one lemma per call (`OpenOutcome` to `RenameOutcome`), of which each
says both that the answer is the one `FileTree` gives and that the tree changes as it says there. Once a liberty was taken `FileTree` allows anything; that is all the refinement says of such clients.

*Bytes.* `BytesInv` says nothing once a liberty was taken. Before, the index has the root and files, no links, and one row per name (`FilesInv`), and every open handle is
`Sound`: the file it was opened with is still there and no buffer is closed; a pipe has the content of the row, which nobody can have changed without a
liberty, and is not past its end; a handle opened to be truncated never has a pipe; and until there is a buffer the handle remembers the length of the row. `SizesAre`, `SliceIs`, `OverwrittenIs` and `CutIs` say what reads, writes and cuts make of bytes; `MknodeFiles` to `MoveFiles` what the
headers each call writes make of such an index. Then there is one lemma per call (`ReadOutcome` to `ByNameOutcome`): either it takes a liberty, or it
leaves `BytesInv` and its answer, the files and the views are what `ByteFiles` says. The view is chosen so that turning a pipe into a buffer (`EnteredIs`) and starting a pipe anew to go
back (`SoughtIs`) move it as one seek does, whatever goes on behind. `Root` is the one directory there is, so no handle's file.

*Sessions.* `DriveGuarded` is inductive as it stands, given the types: a handle is opened only where `physicalLock` is taken, and a
thread is about to unlock it only after it closed the one open handle. `NothingLost` needs three
facts more: only one restore is under way (`OneRestore`, from `readLock`), so none can take
the handle from under another that has sought it, no write operation opens or closes a handle while
the drive is held, and so, on a drive that can be read, a restore that has begun to copy reads on to the end (`Restorable`); hence a buffer
is partly filled only while the caller is still restoring into it (`BeingFilled`), and then it cannot be synced.
`LocksReleased` follows from `LockInv`, which says of every lock who holds it and at which step: a thread that is between calls holds none.
`DriveUndisturbed` follows from `TurnInv`: while a goroutine is alive the caller's calls are those on its own file, and
none of these touches the drive before the goroutine has let go of it. `NoPanic` adds `Unfailing`: no restore has an error, since its name is there, its handle its own and its
drive readable.

*Pipes.* Two things are compared that are never together: what an operation remembers, and what a later reader takes off the tape. `PipesInv` ties both to
the tape. `RowHolds` says of every row that the header it points at is one whose wrappings open, for the flags and keys it was written with, to the
very header the row was made from, that the body behind it is the content of the name gone through the pipes (or damaged), and that its signature, size and
suffixes are those of the content, not of the body; changes of metadata keep the position and inherit the records, so the fact travels with the row through
`Chmod` and `Move`. `SizesMatch` and, since `Decrypted` and `Decompressed` take off exactly what `Through` put around (`BothTrimmed` does the same for suffixes),
`RoundTrip` follow. `SignedIsOriginal` quantifies over readers with other flags: whatever they take off, what passes `Verified` is the stream that was signed, and
a signed or sealed header read as a plain one has the signature of a header, which is that of no stream. `IndexedAlike` is inductive with the facts that a tape of one more header is
scanned like the old one up to it, that the bodies do not matter to the scan, and that an operation which is not refused has keys the scan can use (`KeysUsable`).

*Blocks.* `Ascending` compares rows, but what a scan writes next depends on its counter, its place and the file it is in. `BlocksInv` has, while `Index` goes on:
the record and block it holds are `Where` it is, the blocks before it on the drive, on a tape counted from the first record of the file (`IndexCounts`); so its counter must not have
run past the file, since the next one begins at the record the drive reports (`FirstRecordsAscend`); and every row is behind `Where`, but for the header that is ignored
(`RowsBehind`). A scan after an operation starts at the greatest row and ignores one header, one from the beginning has purged the index; either way the
first row it adds is behind all others. That needs `ReadNextAdvances`: whatever is on the drive, a header that is found ends behind the place it was looked for, and a reader
that fails leaves the drive no earlier; the same lemma gives `ScansAdvance`. For these two nothing is assumed of the drive, not even that it holds archives.

`Fetchable` and `IndexComplete` are about headers, which is why they need to know where on the drive these are. `LayoutInv` says there is a `place` of every header before the
first torn archive such that the drive is `LaidOut`: the entries lie there, in their order, in whole blocks; and from the end of one (`Reached`) a reader `Leads` to the next,
since it follows at once, behind the trailer of an archive in a file, or in the next file of a tape. A row of such a header is at its place (`IndexPlaced`), and
what is read at a place is what lies there (`EntryRead`), whatever is appended later, torn or not (`HeaderStays`, `ArchiveExtends`): that is `Fetchable`. For `IndexComplete` the scan is
followed on known ground (`Follows`: anywhere while nothing is torn, and `Index` of everything until it has the intact headers). There it is `OnTrack` to the header that
is `Due`: it stands at the end of the one before, or is skipping zeros on the way; so `DueIsRead`, and `TakeKeepsLayout`. `Counts` ties the headers an operation has in
memory to the rows: the one it ignores is indexed last, the others follow it. Between scans a `Trusted` index is `Complete`, which is what the next operation
begins with. `Aligned` keeps a reader on whole blocks, or the two blocks of a trailer would not bring it to the next header.
`QueryInv` follows a query along the same track (`TrackIsRead` to `SkipOnTrack` are about both), from the header it was started at: `Listing` says that it has listed what is
indexed from there on. On a file it has also listed the same records and blocks, since there a place has only one (`PlacesDiffer`); on a tape it need not, and the code does not.

### Only model-checked

Both properties of `Roots`, which speak of rewritten names in an index and of the fold over a tape that makes it; and the liveness properties
`Returns`, `CallsReturn` and `RestoresEnd`, which are out of the prover's reach, as is `ENABLED`. The induction theorems of the proof library
take an operator, which the provers cannot instantiate; for folds over natural numbers the first counterexample does instead, for other recursion nothing does.

## 5. Not modelled, and what comes next

1. Proofs: the two properties of `Roots`.
2. Symlinks within `Roots`: a link name is stored as it was given and looked up sanitized, so that links are not found
   below relative roots; directories of tapes whose names end in a slash.
3. The size a first pass through the pipes announces and a second one delivers, where encryption is not of constant size.
4. The hazards without a property of a passing run, since the code does not withstand them: a drive without headers and a scan that fails in `Initialize`,
   archiving without `-o` to a tape that was never indexed (`index.go:53`), errors that leave the drive locked, a rename to a taken name, calls next to a file that is
   partly read, a buffer whose filling fails, archives that end otherwise. `PROJECT.json` says of each which configuration shows it.
5. A tear between the two parts of PAX records, see *Blocks*.

Left out for good: the libraries behind compression, encryption and signatures, the ioctl calls of
the tape driver, the afero cache in front of the file system, read-only file systems (every writing call is refused), limits of listings, restoring
a directory to the local disk, parsing of flags and keys, logging and the generated database code; none of them
keeps state that the properties speak about.
