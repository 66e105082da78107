----------------------------- MODULE FileSystem -----------------------------
(***************************************************************************)
(* The calls of STFS (pkg/fs/filesystem.go) that look at the index, decide *)
(* and run at most one write operation.  ioLock makes each call one step.  *)
(* The file system is writable.  Opening, reading and writing the handles  *)
(* that OpenFile returns is the subject of Sessions, tape and crashes that *)
(* of Operations: here an operation indexes the headers it wrote and is    *)
(* done, and the positions in the rows are 1 between calls.                *)
(*                                                                         *)
(* A call that takes a liberty is one that does something no file system   *)
(* in a tree of directories does or lets pass: see Liberty.  Nothing stops *)
(* a client from taking it.                                                *)
(***************************************************************************)
EXTENDS Headers, SequencesExt

CONSTANTS FileNames,  \* the names clients use
          NewMode,    \* the mode of a new entry: 0666, or what Mkdir is given
          MaxDepth,   \* bound: components of a name
          MaxFree,    \* bound: writing calls from the first liberty on
          MaxRows,    \* bound: rows of the index; a row whose mode is not
                      \* NewMode counts twice
          MaxFreeRows \* bound: the same from the first liberty on

ASSUME FileSystemAssumption ==
  /\ FileNames \subseteq Name
  /\ MaxDepth \in Nat /\ MaxFree \in Nat 
  /\ MaxRows \in Nat /\ MaxFreeRows \in Nat
  /\ NewMode \in Modes

VARIABLES
  db,     \* the rows of the metadata index
  drive,  \* "free", "locked" by a call that returned without unlocking it,
          \* or "behind": it holds headers that were not indexed
  last,   \* the last call and its result
  free    \* writing calls since a client has taken a liberty, that one included

fsVars == <<db, drive, last, free>>

(* OpenFile's flags: write is O_WRONLY or O_RDWR, O_TRUNC or O_APPEND;     *)
(* create is O_CREATE without O_EXCL (with it the code creates nothing).   *)
Flags == {"write", "create"}

Ops == {"Create", "OpenFile", "Mkdir", "MkdirAll", "Remove", "RemoveAll", "Rename",
        "Symlink", "Chmod", "Lstat"}
Calls == [op : Ops, name : FileNames, to : FileNames, flags : SUBSET Flags]

CallWith(op, n, to, flags) == [op |-> op, name |-> n, to |-> to, flags |-> flags]
Call(op, n) == CallWith(op, n, n, {})
CallTo(op, n, to) == CallWith(op, n, to, {})

Results == {"ok", "exist", "notexist", "invalid", "isdir", "isfile", "notempty",
            "conflict"}

-----------------------------------------------------------------------------
(* Looking things up: inventory.Stat and inventory.List.                   *)

(* Stat with symlink = false: a row that is a link does not count.         *)
StatName(n) ==
  LET r == GetHeader(db, n)
  IN  IF r # NoRow /\ r.link = NoName THEN r ELSE NoRow

(* Stat with symlink = true: the row the link n leads to; the link itself  *)
(* when it leads nowhere.                                                  *)
StatLink(n) ==
  LET l == GetHeaderByLinkname(db, n)
  IN  IF l = NoRow THEN NoRow ELSE GetHeader(db, l.name)

IsFound(n) == StatName(n) # NoRow \/ StatLink(n) # NoRow
Found(n) == IF StatName(n) # NoRow THEN StatName(n) ELSE StatLink(n)

(* The entry a name stands for once links are followed.                    *)
Target(n) ==
  IF StatName(n) # NoRow THEN StatName(n)
  ELSE IF StatLink(n) # NoRow THEN StatName(GetHeaderByLinkname(db, n).name)
  ELSE NoRow

(* Faulty: directories in it do not count.                                 *)
IsEmptyOfFiles(n) ==
  StatName(n) # NoRow /\ StatName(n).type = "dir"
    => {r \in GetHeaderDirectChildren(db, n) : r.type = "reg"} = {}

(* Remove looks into real directories only, not into links to them.        *)
IsEmpty(n) ==
  StatName(n) # NoRow /\ StatName(n).type = "dir" => GetHeaderDirectChildren(db, n) = {}

-----------------------------------------------------------------------------
(* How a call ends.                                                        *)

Answer(call, res) ==
  /\ last' = [call |-> call, res |-> res]
  /\ UNCHANGED <<db, drive, free>>

(* The headers of an operation are indexed from the position after the     *)
(* last indexed one on.                                                    *)
IndexAll(hdrs) == IndexedUpTo(db, 1, hdrs)[Len(hdrs)]

Unplaced(rows) == {[r EXCEPT !.record = 1, !.last = 1] : r \in rows}

(* A write operation; without the drive it would never return.  Bounds:    *)
(* MaxDepth, MaxFree, MaxRows, MaxFreeRows.                                *)
Operate(liberty, hdrs) ==
  /\ drive = "free"
  /\ \A i \in DOMAIN hdrs : Len(hdrs[i].name) <= MaxDepth
  /\ free' = IF free > 0 \/ liberty THEN free + 1 ELSE 0
  /\ free' <= MaxFree
  /\ LET done == IndexAll(hdrs)
     IN  /\ db' = Unplaced(done.db)
         /\ Cardinality(db') + Cardinality({r \in db' : r.mode # NewMode})
              <= IF free' > 0 THEN MaxFreeRows ELSE MaxRows
         /\ drive' = IF GetLastIndexed(done.db) = Len(hdrs) + 1 THEN "free" ELSE "behind"

(* The call answers what the operation returns.                            *)
Perform(call, liberty, hdrs) ==
  /\ Operate(liberty, hdrs)
  /\ LET err == IndexAll(hdrs).err
     IN  last' = [call |-> call, res |-> IF err = "none" THEN "ok" ELSE err]

(* mknode archives an entry without content.                               *)
NewEntry(type, n, link) ==
  ArchiveHeader([name |-> n, link |-> link, type |-> type, mode |-> NewMode, data |-> Empty])

Mknode(call, liberty, type, n, link) == Perform(call, liberty, <<NewEntry(type, n, link)>>)

(* An entry without a directory it lies in.                                *)
Astray(n) == StatName(Parent(n)) = NoRow \/ StatName(Parent(n)).type # "dir"

-----------------------------------------------------------------------------
(* Making entries.                                                         *)

(* The header OpenFile opens when it creates nothing.  With create, a link *)
(* that leads to an entry is looked up once more, by the empty link name   *)
(* of that entry, which is taken for the root.                             *)
Opened(n, flags) ==
  IF StatName(n) = NoRow /\ Target(n) # NoRow /\ "create" \in flags
    THEN StatLink(Root)
    ELSE Target(n)

(* What was made is looked up again: the index has no file whose name ends *)
(* in the suffix under that name.  (Indexing a new entry cannot fail.)     *)
MakeFile(call, n) ==
  /\ Operate(Astray(n), <<NewEntry("reg", n, NoName)>>)
  /\ last' = [call |-> call, res |-> IF StatName(n)' = NoRow THEN "notexist" ELSE "ok"]

CreateFile(call, n, flags) ==
  \/ /\ "create" \notin flags \/ StatName(Parent(n)) = NoRow
     /\ Answer(call, "notexist")
  \/ /\ "create" \in flags /\ StatName(Parent(n)) # NoRow
     /\ StatLink(n) # NoRow /\ StatLink(n).type = "dir"
     /\ Answer(call, "isdir")
  \/ /\ "create" \in flags /\ StatName(Parent(n)) # NoRow
     /\ StatLink(n) # NoRow => StatLink(n).type # "dir"
     /\ MakeFile(call, n)

Open(call, n, flags) ==
  \/ /\ Opened(n, flags) # NoRow
     /\ Answer(call, IF Opened(n, flags).type = "dir" /\ "write" \in flags
                       THEN "isdir" ELSE "ok")
  \/ Opened(n, flags) = NoRow /\ CreateFile(call, n, flags)

OpenFile(n, flags) ==
  Open(CallWith("OpenFile", n, n, flags), n, flags)

Create(n) ==
  LET call == Call("Create", n)
  IN  \/ StatName(Parent(n)) = NoRow /\ Answer(call, "notexist")
      \/ StatName(Parent(n)) # NoRow /\ Open(call, n, Flags)

Mkdir(n) ==
  LET call == Call("Mkdir", n)
  IN  \/ StatName(Parent(n)) = NoRow /\ Answer(call, "notexist")
      \/ StatName(Parent(n)) # NoRow /\ IsFound(n) /\ Answer(call, "exist")
      \/ /\ StatName(Parent(n)) # NoRow /\ ~IsFound(n)
         /\ Mknode(call, Astray(n), "dir", n, NoName)

(* filepath.SplitList splits at ":", so the whole path is the only part:   *)
(* directories above it are neither made nor asked for.                    *)
MkdirAll(n) ==
  LET call == Call("MkdirAll", n)
  IN  \/ IsFound(n) /\ Answer(call, IF Found(n).type = "dir" THEN "ok" ELSE "isfile")
      \/ ~IsFound(n) /\ Mknode(call, Astray(n), "dir", n, NoName)

(* Faulty: target and link are swapped.                                    *)
MakeLinkSwapped(call, old, n) == Mknode(call, TRUE, "link", n, old)

(* A symlink is the row whose name is the target and whose linkname is the *)
(* name of the link.                                                       *)
MakeLink(call, old, n) == Mknode(call, TRUE, "link", old, n)

SymlinkIfPossible(old, n) ==
  LET call == CallTo("Symlink", old, n)
  IN  \/ StatName(Parent(n)) = NoRow /\ Answer(call, "notexist")
      \/ /\ StatName(Parent(n)) # NoRow
         /\ \/ old = Root /\ n = Root
            \/ n # Root /\ StatName(n) # NoRow
         /\ Answer(call, "exist")
      \/ /\ StatName(Parent(n)) # NoRow
         /\ IF n = Root THEN old # Root ELSE StatName(n) = NoRow
         /\ MakeLink(call, old, n)

-----------------------------------------------------------------------------
(* Removing, renaming and changing entries.                                *)

(* Operations.Delete of an entry and what lies below it, in any order.     *)
Delete(call, liberty, n) ==
  LET src == Lookup(db, n)
      rows == IF src.type = "dir" /\ src.link = NoName
                THEN GetHeaderChildren(db, n) ELSE {}
  IN  \E children \in SetToSeqs(rows) :
        LET deleted == <<src>> \o children
        IN  Perform(call, liberty,
                    [i \in DOMAIN deleted |-> DeletionHeader(deleted[i])])

RemoveWithoutLocking(call, liberty, n) ==
  \/ ~IsFound(n) /\ Answer(call, "notexist")
  \/ IsFound(n) /\ ~IsEmpty(n) /\ Answer(call, "notempty")
  \/ IsFound(n) /\ IsEmpty(n) /\ Delete(call, liberty, n)

RemoveEntry(n) == RemoveWithoutLocking(Call("Remove", n), n = Root, n)

(* Delete has opened the drive when it finds no such entry, and leaves it  *)
(* locked.                                                                 *)
RemoveAll(n) ==
  LET call == Call("RemoveAll", n)
  IN  \/ /\ Lookup(db, n) = NoRow /\ drive = "free"
         /\ drive' = "locked"
         /\ last' = [call |-> call, res |-> "ok"]
         /\ UNCHANGED <<db, free>>
      \/ Lookup(db, n) # NoRow /\ Delete(call, n = Root, n)

(* No row, live or deleted, has a name the rename leads to, and nothing is *)
(* renamed to a name below its own.                                        *)
PlainRename(rows, from, to) ==
  /\ ~Below(to, from) /\ ~Astray(to)
  /\ \A r \in rows, s \in db : s.name # Rebase(r.name, from, to)

(* Operations.Move of an entry and what lies below it.                     *)
Move(call, from, to) ==
  LET src == Lookup(db, from)
      rows == IF src.type = "dir" THEN GetHeaderChildren(db, from) ELSE {}
  IN  \/ from = to /\ Answer(call, "ok")
      \/ /\ from # to
         /\ \E children \in SetToSeqs(rows) :
              LET moved == <<src>> \o children
              IN  Perform(call, ~PlainRename(rows \cup {src}, from, to),
                          [i \in DOMAIN moved |-> RenameHeader(moved[i], from, to)])

(* A target of the same type is removed, and that is all.                  *)
RenameOnto(call, from, to) ==
  \/ /\ StatName(to).type # Found(from).type
     /\ Answer(call, "exist")
  \/ /\ StatName(to).type = Found(from).type
     /\ RemoveWithoutLocking(call, TRUE, to)

Rename(from, to) ==
  LET call == CallTo("Rename", from, to)
  IN  \/ from = Root /\ Answer(call, "invalid")
      \/ /\ from # Root
         /\ ~IsFound(from) \/ StatName(Parent(to)) = NoRow
         /\ Answer(call, "notexist")
      \/ /\ from # Root /\ IsFound(from) /\ StatName(Parent(to)) # NoRow
         /\ IF StatName(to) = NoRow THEN Move(call, from, to)
                                    ELSE RenameOnto(call, from, to)

(* Chmod, Chown and Chtimes follow a link, but only to a real entry; mode  *)
(* stands for what any of them sets.                                       *)
Chmod(n) ==
  LET call == Call("Chmod", n)
  IN  \/ Target(n) = NoRow /\ Answer(call, "notexist")
      \/ /\ Target(n) # NoRow
         /\ \E mode \in Modes : Perform(call, FALSE, <<MetadataHeader(Target(n), mode)>>)

(* Lstat and Readlink know links only: they refuse a name that is none.    *)
LstatIfPossible(n) ==
  Answer(Call("Lstat", n), IF StatLink(n) # NoRow THEN "ok" ELSE "notexist")

-----------------------------------------------------------------------------
(* Initialize has made the root.                                           *)
Init ==
  /\ db = IndexHeader({}, 1, RootHeader(NewMode)).db
  /\ drive = "free" /\ free = 0
  /\ last = [call |-> Call("MkdirAll", Root), res |-> "ok"]

Next ==
  \/ \E n \in FileNames : \/ Create(n) \/ Mkdir(n) \/ MkdirAll(n)
                          \/ RemoveEntry(n) \/ RemoveAll(n) \/ Chmod(n)
                          \/ LstatIfPossible(n)
  \/ \E n \in FileNames, flags \in SUBSET Flags : OpenFile(n, flags)
  \/ \E from, to \in FileNames : Rename(from, to) \/ SymlinkIfPossible(from, to)

Spec == Init /\ [][Next]_fsVars
=============================================================================
