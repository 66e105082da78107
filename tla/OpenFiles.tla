----------------------------- MODULE OpenFiles ------------------------------
(***************************************************************************)
(* What one does with the handles OpenFile returns (pkg/fs/file.go), next  *)
(* to the calls by name of FileSystem: bytes, positions and the FileInfo   *)
(* of the time a file was opened.                                          *)
(*                                                                         *)
(* A content is the sequence of its bytes, and the size of a row is its    *)
(* content: that a row points at the content whose size it has is          *)
(* ContentMatches of Operations.  The write buffer is the one in a file    *)
(* (WriteCacheTypeFile).  Locks and the goroutine behind a pipe are the    *)
(* subject of Sessions; here a pipe has taken its content when it starts.  *)
(***************************************************************************)
EXTENDS FileSystem, Integers

CONSTANTS Handles, NoFile,
          OpenFlags,  \* sets of flags clients open files with
          Chunks,     \* what they write at once
          Lengths,    \* how much they read at once
          Offsets,    \* where they seek to, and sizes they truncate to
          MaxSize,    \* bound: bytes of a content
          MaxLoose    \* bound: calls from the first liberty with a handle on

HandleFlags == {"read", "write", "append", "truncate", "create"}

(* What clients can make contents of, holes included.  Bound: MaxSize.     *)
Byte == {0} \cup UNION {{c[i] : i \in DOMAIN c} : c \in Chunks}
Contents == UNION {[1 .. n -> Byte] : n \in 1 .. MaxSize}

(* An open file, and what its client sees of it.                           *)
Handle == [path : FileNames, mode : Modes, size : Nat, flags : SUBSET HandleFlags,
           io : {"none", "pipe", "buffer", "closed"}, data : Sizes, at : Nat]
View == [name : FileNames, flags : SUBSET HandleFlags, at : Nat, data : Sizes,
         written : BOOLEAN]

ASSUME OpenFilesAssumption ==
  /\ OpenFlags \subseteq SUBSET HandleFlags
  /\ Offsets \subseteq Int /\ Lengths \subseteq Nat \ {0}
  /\ Chunks \subseteq Seq(Byte)
  /\ Data = Contents /\ Empty = <<>>
  /\ NoFile \notin Handle \cup View
  /\ MaxSize \in Nat /\ MaxLoose \in Nat

VARIABLES
  handles, \* the open file behind each handle
  loose    \* calls since a client has taken a liberty with one, that one included

openVars == <<fsVars, handles, loose>>

(* io: nothing yet, readOpReader (data is what the pipe delivers, at its   *)
(* BytesRead), writeBuf, or a writeBuf that Update has closed.             *)
NewHandle(n, mode, size, flags) ==
  [path |-> n, mode |-> mode, size |-> size, flags |-> flags,
   io |-> "none", data |-> Empty, at |-> 0]

Doing(op, h, args) == [op |-> op, handle |-> h, args |-> args]

(* Bound: MaxLoose.                                                        *)
Count(liberty) ==
  /\ loose' = IF loose > 0 \/ liberty THEN loose + 1 ELSE 0
  /\ loose' <= MaxLoose

Give(call, res, out) ==
  /\ last' = [call |-> call, res |-> res, out |-> out]
  /\ UNCHANGED <<db, drive, free>>

Becomes(h, file) == handles' = [handles EXCEPT ![h] = file]

-----------------------------------------------------------------------------
(* Bytes.                                                                  *)

Zeros(n) == [i \in 1 .. n |-> 0]
Least(m, n) == IF m < n THEN m ELSE n

(* At most k bytes from a position on.                                     *)
Slice(data, at, k) == SubSeq(data, at + 1, Least(at + k, Len(data)))

(* The bytes at a position replaced, a hole filled with zeros.             *)
Overwritten(data, at, bytes) ==
  (IF at <= Len(data) THEN SubSeq(data, 1, at) ELSE data \o Zeros(at - Len(data)))
    \o bytes \o SubSeq(data, at + Len(bytes) + 1, Len(data))

-----------------------------------------------------------------------------
(* Opening.                                                                *)

OpenHandle(h, n, flags) ==
  /\ handles[h] = NoFile
  /\ OpenFile(n, flags \cap Flags)
  /\ Count(FALSE)
  /\ handles' =
       IF last'.res # "ok" THEN handles
       ELSE LET row == Target(n)'
            IN  [handles EXCEPT ![h] = NewHandle(n, row.mode, Len(row.size), flags)]

-----------------------------------------------------------------------------
(* Reading and seeking.                                                    *)

(* A pipe starts with Restore, which looks the path up again, for whatever *)
(* has that name by then.                                                  *)
Restored(f) ==
  [f EXCEPT !.io = "pipe", !.data = GetHeader(db, f.path).size, !.at = 0]

(* Faulty: a pipe that has passed the position is read on.                 *)
RestoresOnce(f, dst) == f.io = "none"

(* A pipe cannot go back: before dst it has to start anew.                 *)
Restores(f, dst) == f.io = "none" \/ (f.io = "pipe" /\ dst < f.at)

Restorable(f) == GetHeader(db, f.path) # NoRow /\ drive # "locked"

(* If nothing has the name, the goroutine ends the process.                *)
Panic(h, call, dst) ==
  /\ Restores(handles[h], dst) /\ GetHeader(db, handles[h].path) = NoRow
  /\ drive' = "locked"
  /\ last' = [call |-> call, res |-> "panic", out |-> Empty]
  /\ UNCHANGED <<db, free, handles>>

(* The file at dst or, in a pipe, at its end, if that comes first.         *)
Sought(f, dst) ==
  LET pipe == IF Restores(f, dst) THEN Restored(f) ELSE f
  IN  IF f.io = "buffer" THEN [f EXCEPT !.at = dst]
      ELSE [pipe EXCEPT !.at = IF dst < 0 THEN 0 ELSE Least(dst, Len(pipe.data))]

(* With O_TRUNC a file is cleared when it is first written to, not when it *)
(* is opened.                                                              *)
Uncleared(f) == "truncate" \in f.flags /\ f.io \in {"none", "pipe"}

(* A pipe tells the end with the last bytes, a buffer without any.         *)
ReadFrom(h, call, f, k) ==
  LET out == Slice(f.data, f.at, k)
      end == IF f.io = "pipe" THEN Len(out) < k ELSE out = <<>>
  IN  /\ Becomes(h, [f EXCEPT !.at = @ + Len(out)])
      /\ Give(call, IF end THEN "eof" ELSE "ok", out)

Fail(call, res) == Give(call, res, Empty) /\ UNCHANGED handles

(* Read k bytes from dst on.                                               *)
ReadTo(h, call, dst, k) ==
  LET f == handles[h]
  IN  \/ "read" \notin f.flags /\ Fail(call, "permission")
      \/ "read" \in f.flags /\ f.io = "closed" /\ Fail(call, "closed")
      \/ "read" \in f.flags /\ Panic(h, call, dst)
      \/ /\ "read" \in f.flags /\ f.io # "closed"
         /\ Restores(f, dst) => Restorable(f)
         /\ ReadFrom(h, call, Sought(f, dst), k)

Read(h, k) ==
  /\ Count(Uncleared(handles[h]))
  /\ ReadTo(h, Doing("Read", h, <<k>>), handles[h].at, k)

ReadAt(h, k, off) ==
  /\ Count(Uncleared(handles[h]))
  /\ ReadTo(h, Doing("ReadAt", h, <<k, off>>), off, k)

(* A pipe takes an offset from the end away from the size, and a buffer    *)
(* adds it.                                                                *)
Destination(f, off, whence) ==
  CASE whence = "start"   -> off
    [] whence = "current" -> f.at + off
    [] whence = "end"     -> IF f.io = "buffer" THEN Len(f.data) + off ELSE f.size - off

(* A buffer answers with the position.  A pipe answers with the bytes it   *)
(* has dropped on the way, or, at its end, with what was asked for.        *)
SeekAnswer(f, to, dst, off, whence) ==
  IF f.io = "buffer" THEN dst
  ELSE IF dst > Len(to.data)
    THEN CASE whence = "start"   -> off
           [] whence = "current" -> to.at + off
           [] whence = "end"     -> f.size - off
  ELSE to.at - (IF Restores(f, dst) THEN 0 ELSE f.at)

(* Liberties before the first write: to seek beyond the file, from the     *)
(* end, or on from where it has been read to.                              *)
PlainSeek(f, dst, off, whence) ==
  f.io # "buffer" =>
    /\ ~Uncleared(f) /\ (whence = "end" => off = 0)
    /\ dst >= 0 /\ dst <= f.size /\ (f.at = 0 \/ dst < f.at)

Seek(h, off, whence) ==  \* bound: MaxSize
  LET f == handles[h]
      dst == Destination(f, off, whence)
      call == Doing("Seek", h, <<off, whence>>)
  IN  /\ Count(~PlainSeek(f, dst, off, whence))
      /\ \/ f.io = "closed" /\ Fail(call, "closed")
         \/ f.io = "buffer" /\ dst < 0 /\ Fail(call, "invalid")
         \/ Panic(h, call, dst)
         \/ /\ IF f.io = "buffer" THEN dst \in 0 .. MaxSize ELSE f.io # "closed"
            /\ Restores(f, dst) => Restorable(f)
            /\ LET to == Sought(f, dst)
               IN  Becomes(h, to) /\ Give(call, "ok", SeekAnswer(f, to, dst, off, whence))

-----------------------------------------------------------------------------
(* Writing.                                                                *)

(* enterWriteMode: the content, if there is one, is copied into a new      *)
(* buffer; the position of a pipe is lost.                                 *)
Entered(f) ==
  LET row == StatName(f.path)
      old == IF row = NoRow THEN Empty ELSE row.size
  IN  IF f.io \in {"buffer", "closed"} THEN f
      ELSE [f EXCEPT !.io = "buffer",
                     !.data = IF "truncate" \in f.flags THEN Empty ELSE old,
                     !.at = IF "append" \in f.flags THEN Len(old) ELSE 0]

(* What a write operation on the handle is refused for; it waits for the   *)
(* drive if the content is to be copied.                                   *)
Refused(h, call) ==
  LET f == handles[h]
  IN  \/ "write" \notin f.flags /\ Fail(call, "permission")
      \/ "write" \in f.flags /\ f.io = "closed" /\ Fail(call, "closed")

Writable(h) ==
  /\ "write" \in handles[h].flags /\ handles[h].io # "closed"
  /\ handles[h].io # "buffer" => drive # "locked"

(* Bound: MaxSize.                                                         *)
WriteTo(h, call, f, at, bytes) ==
  LET data == Overwritten(f.data, at, bytes)
  IN  /\ Writable(h) /\ Len(data) <= MaxSize
      /\ Becomes(h, [f EXCEPT !.data = data, !.at = at + Len(bytes)])
      /\ Give(call, "ok", Len(bytes))

(* Liberties: a position that writing gives up, and appending where the    *)
(* file does not end.                                                      *)
Write(h, bytes) ==
  LET call == Doing("Write", h, bytes)
      f == Entered(handles[h])
  IN  /\ Count(f.at # IF "append" \in f.flags THEN Len(f.data) ELSE handles[h].at)
      /\ Refused(h, call) \/ WriteTo(h, call, f, f.at, bytes)

(* Liberty: a file that is to be appended to.                              *)
WriteAt(h, bytes, off) ==
  LET call == Doing("WriteAt", h, <<bytes, off>>)
      f == Entered(handles[h])
  IN  /\ Count("append" \in f.flags)
      /\ Refused(h, call) \/ WriteTo(h, call, f, off, bytes)

(* A larger size: the content is cleared and size zeros are written from   *)
(* the position on.                                                        *)
Truncated(f, size) ==
  IF size > Len(f.data)
    THEN [f EXCEPT !.data = Overwritten(<<>>, f.at, Zeros(size)), !.at = @ + size]
    ELSE [f EXCEPT !.data = SubSeq(@, 1, size)]

(* Liberties: a larger size, and a position that writing gives up.  Bound: *)
(* MaxSize.                                                                *)
Truncate(h, size) ==
  LET call == Doing("Truncate", h, <<size>>)
      f == Entered(handles[h])
  IN  /\ Count(size > Len(f.data) \/ f.at # handles[h].at)
      /\ \/ Refused(h, call)
         \/ /\ Writable(h) /\ Len(Truncated(f, size).data) <= MaxSize
            /\ Becomes(h, Truncated(f, size))
            /\ Give(call, "ok", Empty)

-----------------------------------------------------------------------------
(* Stat, Sync and Close.                                                   *)

Stat(h) ==
  LET call == Doing("Stat", h, <<>>)
      f == handles[h]
      size == IF f.io = "buffer" THEN Len(f.data) ELSE f.size
  IN  /\ Count(Uncleared(f))
      /\ \/ f.io = "closed" /\ Fail(call, "closed")
         \/ /\ f.io # "closed"
            /\ Becomes(h, [f EXCEPT !.size = size]) /\ Give(call, "ok", size)

Others(h) == {k \in Handles \ {h} : handles[k] # NoFile}
Shared(h) == \E k \in Others(h) : handles[k].path = handles[h].path

(* Faulty: the buffer is read from where the last write ended.             *)
SyncFromHere(h, call) ==
  LET f == handles[h]
  IN  Perform(call, FALSE,
        <<ContentHeader([name |-> f.path, link |-> NoName, type |-> "reg",
                         mode |-> f.mode, data |-> SubSeq(f.data, f.at + 1, Len(f.data))],
                        TRUE)>>)

(* The buffer becomes the content of whatever has the path now, with the   *)
(* mode of the time the file was opened.                                   *)
SyncWithoutLocking(h, call) ==
  LET f == handles[h]
  IN  Perform(call, FALSE,
        <<ContentHeader([name |-> f.path, link |-> NoName, type |-> "reg",
                         mode |-> f.mode, data |-> f.data], TRUE)>>)

(* Update finds the buffer closed and returns with the drive locked.       *)
SyncClosed(h, call) ==
  /\ handles[h].io = "closed" /\ drive = "free"
  /\ drive' = "locked"
  /\ last' = [call |-> call, res |-> "closed", out |-> Empty]
  /\ UNCHANGED <<db, free, handles>>

(* Liberties: what has been written is synced, which closes the buffer;    *)
(* another handle has the file open.                                       *)
Sync(h) ==
  LET call == Doing("Sync", h, <<>>)
      f == handles[h]
  IN  \/ f.io \in {"none", "pipe"} /\ Count(Uncleared(f)) /\ Fail(call, "ok")
      \/ SyncClosed(h, call) /\ Count(TRUE)
      \/ /\ f.io = "buffer" /\ Count(TRUE)
         /\ SyncWithoutLocking(h, call)
         /\ Becomes(h, [f EXCEPT !.io = "closed", !.size = Len(f.data)])

Close(h) ==
  LET call == Doing("Close", h, <<>>)
      f == handles[h]
  IN  \/ /\ f.io \in {"none", "pipe"} /\ Count(Uncleared(f))
         /\ Give(call, "ok", Empty) /\ Becomes(h, NoFile)
      \/ SyncClosed(h, call) /\ Count(TRUE)
      \/ /\ f.io = "buffer" /\ Count(Shared(h))
         /\ SyncWithoutLocking(h, call) /\ Becomes(h, NoFile)

-----------------------------------------------------------------------------
(* Calls by name.  It is a liberty to change what is open.                 *)
IsOpen(n) == \E h \in Handles : handles[h] # NoFile /\ handles[h].path = n

ByName ==
  /\ \/ \E n \in FileNames : /\ RemoveEntry(n) \/ Chmod(n)
                             /\ Count(IsOpen(n))
     \/ \E from, to \in FileNames : /\ Rename(from, to)
                                    /\ Count(IsOpen(from) \/ IsOpen(to))
  /\ UNCHANGED handles

Lstat == \E n \in FileNames : LstatIfPossible(n) /\ UNCHANGED <<handles, loose>>

OpenInit == Init /\ handles = [h \in Handles |-> NoFile] /\ loose = 0

Using(h) ==
  \/ \E k \in Lengths : Read(h, k) \/ \E off \in Offsets \cap Nat : ReadAt(h, k, off)
  \/ \E off \in Offsets, whence \in {"start", "current", "end"} : Seek(h, off, whence)
  \/ \E bytes \in Chunks : Write(h, bytes) \/ \E off \in Offsets \cap Nat : WriteAt(h, bytes, off)
  \/ \E size \in Offsets \cap Nat : Truncate(h, size)
  \/ Stat(h) \/ Sync(h) \/ Close(h)

OpenNext ==
  \/ \E h \in Handles, n \in FileNames, flags \in OpenFlags : OpenHandle(h, n, flags)
  \/ \E h \in Handles : handles[h] # NoFile /\ Using(h)
  \/ ByName \/ Lstat

OpenSpec == OpenInit /\ [][OpenNext]_openVars

-----------------------------------------------------------------------------
(* Properties.                                                             *)

ContentOf(n) == IF StatName(n) = NoRow THEN <<>> ELSE StatName(n).size

Contained == [n \in {r.name : r \in {s \in Live(db) : s.type = "reg"}} |-> ContentOf(n)]

ViewOf(f) ==
  LET trunc == "truncate" \in f.flags
  IN  [name |-> f.path, flags |-> f.flags, at |-> f.at,
       data |-> IF f.io # "none" THEN f.data ELSE IF trunc THEN <<>> ELSE ContentOf(f.path),
       written |-> trunc \/ f.io = "buffer"]
Viewed == [h \in Handles |-> IF handles[h] = NoFile THEN NoFile ELSE ViewOf(handles[h])]

Bytes == INSTANCE ByteFiles WITH
  files <- Contained, views <- Viewed, plain <- free = 0 /\ loose = 0

(* As long as clients take no liberty, every call on an open file has the  *)
(* outcome and the effect it has on a file of bytes with a position, and   *)
(* closing it stores what was written and nothing else.                    *)
ImplementsByteFiles == Bytes!Spec

OnHandle(h) == "handle" \in DOMAIN last'.call /\ last'.call.handle = h

(* Whatever clients do, what is written through a handle becomes, by Sync  *)
(* or Close, the content of the name it was opened with, even when that    *)
(* has been removed since; unless it has been renamed away.                *)
ClosedIsStored ==
  [][\A h \in Handles :
       OnHandle(h) /\ last'.call.op \in {"Sync", "Close"} /\ last'.res = "ok" =>
         LET f == handles[h]
         IN  f.io = "buffer" /\ (\E r \in db : r.name = f.path) =>
               \E r \in Live(db') : r.name = f.path /\ r.size = f.data]_openVars

(* Whatever clients do, no call on a handle changes anything but the row   *)
(* of the name it was opened with, not even when the file has been renamed *)
(* since.                                                                  *)
HandleSparesOthers ==
  [][\A h \in Handles : OnHandle(h) =>
       LET n == handles[h].path
       IN  {r \in db' : r.name # n} = {r \in db : r.name # n}]_openVars
=============================================================================
