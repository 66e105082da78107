-------------------------- MODULE FileSystemProofs --------------------------
(***************************************************************************)
(* What the calls of the file system leave in the metadata index, for any  *)
(* names, modes, contents and bounds and however free clients are; and,    *)
(* while clients take no liberty, that it implements FileTree and that     *)
(* open files implement ByteFiles.                                         *)
(***************************************************************************)
EXTENDS TreeInIndex, OpenFiles, IndexProofs

-----------------------------------------------------------------------------
(* The rows between calls.                                                 *)

PlacedRow(r) == [r EXCEPT !.record = 1, !.last = 1]
Placed(t) == \A r \in t : r.record = 1 /\ r.last = 1

(* Between calls the index is a table with unique keys whose positions are *)
(* 1.                                                                      *)
RowsInv == Table(db) /\ KeysUnique(db) /\ Placed(db)

(* Setting the positions back keeps what else is in the rows.              *)
LEMMA UnplacedRow ==
  ASSUME NEW r \in Row
  PROVE  /\ PlacedRow(r) \in Row /\ PlacedRow(r).record = 1 /\ PlacedRow(r).last = 1
         /\ PlacedRow(r).name = r.name /\ PlacedRow(r).link = r.link
         /\ PlacedRow(r).type = r.type /\ PlacedRow(r).mode = r.mode
         /\ PlacedRow(r).size = r.size /\ PlacedRow(r).deleted = r.deleted
         /\ PlacedRow(r).replaces = r.replaces /\ PlacedRow(r).from = r.from
         /\ r.record = 1 /\ r.last = 1 => PlacedRow(r) = r
<1>1. r = [name |-> r.name, link |-> r.link, type |-> r.type, mode |-> r.mode,
           size |-> r.size, replaces |-> r.replaces, from |-> r.from,
           record |-> r.record, last |-> r.last, deleted |-> r.deleted]
  BY DEF Row
<1>2. PlacedRow(r)
        = [name |-> r.name, link |-> r.link, type |-> r.type, mode |-> r.mode,
           size |-> r.size, replaces |-> r.replaces, from |-> r.from,
           record |-> 1, last |-> 1, deleted |-> r.deleted]
  <2> DEFINE q == [r EXCEPT !.record = 1]
  <2>1. PlacedRow(r) = [q EXCEPT !.last = 1]
    BY DEF PlacedRow, Row
  <2>2. q = [name |-> r.name, link |-> r.link, type |-> r.type, mode |-> r.mode,
             size |-> r.size, replaces |-> r.replaces, from |-> r.from,
             record |-> 1, last |-> r.last, deleted |-> r.deleted]
    BY DEF Row
  <2> HIDE DEF q
  <2>3. [q EXCEPT !.last = 1]
          = [name |-> r.name, link |-> r.link, type |-> r.type, mode |-> r.mode,
             size |-> r.size, replaces |-> r.replaces, from |-> r.from,
             record |-> 1, last |-> 1, deleted |-> r.deleted]
    BY <2>2
  <2> QED
    BY <2>1, <2>3
<1>3. PlacedRow(r) \in Row
  <2>1. /\ r.name \in Name /\ r.link \in NameOrNone /\ r.type \in Types /\ r.mode \in Modes
        /\ r.size \in Sizes /\ r.replaces \in BOOLEAN /\ r.from \in NameOrNone
        /\ r.deleted \in BOOLEAN /\ 1 \in Position
    BY DEF Row, Position
  <2> QED
    BY <1>2, <2>1 DEF Row
<1>4. r.record = 1 /\ r.last = 1 => PlacedRow(r) = r
  BY <1>1, <1>2
<1> QED
  BY <1>2, <1>3, <1>4

LEMMA UnplacedDef ==
  ASSUME NEW t
  PROVE  Unplaced(t) = {PlacedRow(r) : r \in t}
  BY DEF Unplaced, PlacedRow

LEMMA UnplacedKeeps ==
  ASSUME NEW t, Table(t), KeysUnique(t)
  PROVE  Table(Unplaced(t)) /\ KeysUnique(Unplaced(t)) /\ Placed(Unplaced(t))
<1> DEFINE f == [r \in t |-> PlacedRow(r)]
<1>1. t \subseteq Row
  BY DEF Table
<1>2. Unplaced(t) = {PlacedRow(r) : r \in t} /\ Unplaced(t) = {f[r] : r \in t}
  BY UnplacedDef
<1>3. f \in [t -> Row]
  BY <1>1, UnplacedRow
<1>4. IsFiniteSet({f[r] : r \in t})
  <2> HIDE DEF f
  <2> QED
    BY <1>3, FiniteImage DEF Table
<1>5. Unplaced(t) \subseteq Row
  BY <1>1, <1>2, UnplacedRow
<1>6. KeysUnique(Unplaced(t))
  <2>1. ASSUME NEW r \in t, NEW s \in t, SameKey(PlacedRow(r), PlacedRow(s))
        PROVE  PlacedRow(r) = PlacedRow(s)
    BY <1>1, <2>1, UnplacedRow DEF SameKey, KeysUnique
  <2> QED
    BY <1>2, <2>1 DEF KeysUnique
<1>7. Placed(Unplaced(t))
  BY <1>1, <1>2, UnplacedRow DEF Placed
<1> QED
  BY <1>2, <1>4, <1>5, <1>6, <1>7 DEF Table

(* Whatever headers an operation writes, the rows stay so.                 *)
LEMMA OperateKeeps ==
  ASSUME RowsInv, NEW liberty, NEW hdrs \in Seq(Header), Operate(liberty, hdrs)
  PROVE  RowsInv'
<1>1. db' = Unplaced(IndexAll(hdrs).db)
  BY DEF Operate
<1>2. Bounded(db)
  <2>1. Within(db, 1, 1) /\ 1 \in Nat
    BY DEF RowsInv, Placed, Within
  <2> QED
    BY <2>1 DEF Bounded
<1>3. Table(IndexAll(hdrs).db) /\ KeysUnique(IndexAll(hdrs).db)
  BY <1>2, IndexedUpToKeeps DEF RowsInv, IndexAll
<1> QED
  BY <1>1, <1>3, UnplacedKeeps DEF RowsInv

LEMMA PerformKeeps ==
  ASSUME RowsInv, NEW call, NEW liberty, NEW hdrs \in Seq(Header), Perform(call, liberty, hdrs)
  PROVE  RowsInv'
  BY OperateKeeps DEF Perform

-----------------------------------------------------------------------------
(* The headers the calls write.                                            *)

(* An entry without content.                                               *)
LEMMA MknodeHeader ==
  ASSUME NEW type \in Types, NEW n \in Name, NEW link \in NameOrNone
  PROVE  <<NewEntry(type, n, link)>> \in Seq(Header)
<1> DEFINE src == [name |-> n, link |-> link, type |-> type, mode |-> NewMode, data |-> Empty]
<1>1. src \in Source
  BY FileSystemAssumption DEF Source, Sizes
<1>2. ArchiveHeader(src) \in Header
  <2> HIDE DEF src
  <2> QED
    BY <1>1, SourceHeaders
<1> QED
  BY <1>2 DEF NewEntry

(* What is found is a row.                                                 *)
LEMMA LookupRow ==
  ASSUME Table(db), NEW n, Lookup(db, n) # NoRow
  PROVE  Lookup(db, n) \in Row
  BY GetHeaderFound, GetHeaderByLinknameFound DEF Lookup, Live, Table

LEMMA TargetRow ==
  ASSUME Table(db), NEW n, Target(n) # NoRow
  PROVE  Target(n) \in Row
<1>1. ASSUME NEW k, StatName(k) # NoRow PROVE StatName(k) \in Row
  BY <1>1, GetHeaderFound DEF StatName, Live, Table
<1> QED
  BY <1>1 DEF Target

LEMMA LookupPlain ==
  ASSUME NEW n, Lookup(db, n) # NoRow
  PROVE  Lookup(db, n) \in db
  BY GetHeaderFound, GetHeaderByLinknameFound DEF Lookup, Live

LEMMA TargetPlain ==
  ASSUME NEW n, Target(n) # NoRow
  PROVE  Target(n) \in db
<1>1. ASSUME NEW k, StatName(k) # NoRow PROVE StatName(k) \in db
  BY <1>1, GetHeaderFound DEF StatName, Live
<1> QED
  BY <1>1 DEF Target

LEMMA FoundLookup ==
  ASSUME NEW n, IsFound(n)
  PROVE  Lookup(db, n) # NoRow
  BY DEF IsFound, StatName, StatLink, Lookup

(* Some live rows, in any order after another.                             *)
LEMMA RowsAfter ==
  ASSUME Table(db), NEW src \in Row, NEW n, NEW rows,
         rows = GetHeaderChildren(db, n) \/ rows = {}, NEW rest \in SetToSeqs(rows)
  PROVE  <<src>> \o rest \in Seq(Row)
<1>1. rows \in SUBSET db /\ IsFiniteSet(db)
  BY DEF GetHeaderChildren, Live, Table
<1>2. IsFiniteSet(rows) /\ rows \in SUBSET Row
  BY <1>1, FS_Subset DEF Table
<1> QED
  BY <1>2, RowsInOrder

(* A header for each of them.                                              *)
LEMMA HeadersOf ==
  ASSUME NEW rows \in Seq(Row)
  PROVE  /\ [i \in DOMAIN rows |-> DeletionHeader(rows[i])] \in Seq(Header)
         /\ \A from, to \in Name :
              [i \in DOMAIN rows |-> RenameHeader(rows[i], from, to)] \in Seq(Header)
<1>1. Len(rows) \in Nat /\ DOMAIN rows = 1 .. Len(rows)
  OBVIOUS
<1>2. NewMode \in Modes
  BY FileSystemAssumption
<1>3. ASSUME NEW i \in 1 .. Len(rows), NEW from \in Name, NEW to \in Name
      PROVE  DeletionHeader(rows[i]) \in Header /\ RenameHeader(rows[i], from, to) \in Header
  <2>1. rows[i] \in Row
    BY ElementOfSeq
  <2> QED
    BY <1>2, <2>1, RowHeaders
<1>4. Root \in Name
  BY DEF Root, Name
<1>5. [i \in 1 .. Len(rows) |-> DeletionHeader(rows[i])] \in [1 .. Len(rows) -> Header]
  BY <1>3, <1>4
<1>6. ASSUME NEW from \in Name, NEW to \in Name
      PROVE  [i \in 1 .. Len(rows) |-> RenameHeader(rows[i], from, to)] \in Seq(Header)
  <2>1. [i \in 1 .. Len(rows) |-> RenameHeader(rows[i], from, to)] \in [1 .. Len(rows) -> Header]
    BY <1>3
  <2> QED
    BY <1>1, <2>1, FunctionIsSeq
<1>7. [i \in 1 .. Len(rows) |-> DeletionHeader(rows[i])] \in Seq(Header)
  BY <1>1, <1>5, FunctionIsSeq
<1> QED
  BY <1>1, <1>6, <1>7

-----------------------------------------------------------------------------
(* The calls.                                                              *)

LEMMA MknodeKeeps ==
  ASSUME RowsInv, NEW call, NEW liberty, NEW type \in Types, NEW n \in Name,
         NEW link \in NameOrNone, Mknode(call, liberty, type, n, link)
  PROVE  RowsInv'
  BY MknodeHeader, PerformKeeps DEF Mknode

LEMMA MakeFileKeeps ==
  ASSUME RowsInv, NEW call, NEW n \in Name, MakeFile(call, n)
  PROVE  RowsInv'
<1>1. <<NewEntry("reg", n, NoName)>> \in Seq(Header)
  BY MknodeHeader DEF Types, NameOrNone
<1> QED
  BY <1>1, OperateKeeps DEF MakeFile

LEMMA DeleteKeeps ==
  ASSUME RowsInv, NEW call, NEW liberty, NEW n \in Name, Lookup(db, n) # NoRow,
         Delete(call, liberty, n)
  PROVE  RowsInv'
<1> DEFINE src == Lookup(db, n)
           rows == IF src.type = "dir" /\ src.link = NoName
                     THEN GetHeaderChildren(db, n) ELSE {}
<1>1. src \in Row /\ Table(db)
  BY LookupRow DEF RowsInv
<1>2. PICK children \in SetToSeqs(rows) :
        LET deleted == <<src>> \o children
        IN  Perform(call, liberty, [i \in DOMAIN deleted |-> DeletionHeader(deleted[i])])
  BY DEF Delete
<1> DEFINE deleted == <<src>> \o children
           hdrs == [i \in DOMAIN deleted |-> DeletionHeader(deleted[i])]
<1>3. deleted \in Seq(Row)
  <2>1. rows = GetHeaderChildren(db, n) \/ rows = {}
    OBVIOUS
  <2> HIDE DEF src, rows
  <2> QED
    BY <1>1, <2>1, RowsAfter
<1>4. hdrs \in Seq(Header)
  <2> HIDE DEF deleted
  <2> QED
    BY <1>3, HeadersOf
<1>5. Perform(call, liberty, hdrs)
  BY <1>2
<1> HIDE DEF hdrs
<1> QED
  BY <1>4, <1>5, PerformKeeps

LEMMA MoveKeeps ==
  ASSUME RowsInv, NEW call, NEW from \in Name, NEW to \in Name, Lookup(db, from) # NoRow,
         Move(call, from, to)
  PROVE  RowsInv'
<1> DEFINE src == Lookup(db, from)
           rows == IF src.type = "dir" THEN GetHeaderChildren(db, from) ELSE {}
<1>1. src \in Row /\ Table(db)
  BY LookupRow DEF RowsInv
<1>2. CASE Answer(call, "ok")
  BY <1>2 DEF Answer, RowsInv
<1>3. CASE ~Answer(call, "ok")
  <2>2. PICK children \in SetToSeqs(rows) :
          LET moved == <<src>> \o children
          IN  Perform(call, ~PlainRename(rows \cup {src}, from, to),
                      [i \in DOMAIN moved |-> RenameHeader(moved[i], from, to)])
    BY <1>3 DEF Move
  <2> DEFINE moved == <<src>> \o children
             hdrs == [i \in DOMAIN moved |-> RenameHeader(moved[i], from, to)]
             liberty == ~PlainRename(rows \cup {src}, from, to)
  <2>3. moved \in Seq(Row)
    <3>1. rows = GetHeaderChildren(db, from) \/ rows = {}
      OBVIOUS
    <3> HIDE DEF src, rows
    <3> QED
      BY <1>1, <3>1, RowsAfter
  <2>4. hdrs \in Seq(Header)
    <3> HIDE DEF moved
    <3> QED
      BY <2>3, HeadersOf
  <2>5. Perform(call, liberty, hdrs)
    BY <2>2
  <2> HIDE DEF hdrs, liberty
  <2> QED
    BY <2>4, <2>5, PerformKeeps
<1> QED
  BY <1>2, <1>3

LEMMA RemoveKeeps ==
  ASSUME RowsInv, NEW call, NEW liberty, NEW n \in Name,
         RemoveWithoutLocking(call, liberty, n)
  PROVE  RowsInv'
<1>1. CASE db' = db
  BY <1>1 DEF RowsInv
<1>2. CASE IsFound(n) /\ Delete(call, liberty, n)
  BY <1>2, FoundLookup, DeleteKeeps
<1> QED
  BY <1>1, <1>2 DEF RemoveWithoutLocking, Answer

LEMMA OpenKeeps ==
  ASSUME RowsInv, NEW call, NEW n \in Name, NEW flags, Open(call, n, flags)
  PROVE  RowsInv'
<1>1. CASE db' = db
  BY <1>1 DEF RowsInv
<1>2. CASE MakeFile(call, n)
  BY <1>2, MakeFileKeeps
<1> QED
  BY <1>1, <1>2 DEF Open, CreateFile, Answer

LEMMA RenameKeeps ==
  ASSUME RowsInv, NEW from \in Name, NEW to \in Name, Rename(from, to)
  PROVE  RowsInv'
<1> DEFINE call == CallTo("Rename", from, to)
<1>1. CASE db' = db
  BY <1>1 DEF RowsInv
<1>2. CASE IsFound(from) /\ Move(call, from, to)
  <2> HIDE DEF call
  <2> QED
    BY <1>2, FoundLookup, MoveKeeps
<1>3. CASE RemoveWithoutLocking(call, TRUE, to)
  <2> HIDE DEF call
  <2> QED
    BY <1>3, RemoveKeeps
<1> QED
  BY <1>1, <1>2, <1>3 DEF Rename, RenameOnto, Answer

LEMMA ChmodKeeps ==
  ASSUME RowsInv, NEW n \in Name, Chmod(n)
  PROVE  RowsInv'
<1>1. CASE db' = db
  BY <1>1 DEF RowsInv
<1>2. CASE db' # db
  <2>1. Target(n) # NoRow
    BY <1>2 DEF Chmod, Answer
  <2>2. PICK mode \in Modes : Perform(Call("Chmod", n), FALSE, <<MetadataHeader(Target(n), mode)>>)
    BY <1>2 DEF Chmod, Answer
  <2>3. Target(n) \in Row
    BY <2>1, TargetRow DEF RowsInv
  <2>4. MetadataHeader(Target(n), mode) \in Header
    BY <2>3, RowHeaders
  <2>5. <<MetadataHeader(Target(n), mode)>> \in Seq(Header)
    BY <2>4
  <2> QED
    BY <2>2, <2>5, PerformKeeps
<1> QED
  BY <1>1, <1>2

LEMMA CallsKeep ==
  ASSUME RowsInv, Next
  PROVE  RowsInv'
<1>1. FileNames \subseteq Name
  BY FileSystemAssumption
<1>2. ASSUME NEW n \in Name, Create(n) PROVE RowsInv'
  <2>1. CASE db' = db
    BY <2>1 DEF RowsInv
  <2>2. CASE Open(Call("Create", n), n, Flags)
    BY <2>2, OpenKeeps
  <2> QED
    BY <1>2, <2>1, <2>2 DEF Create, Answer
<1>3. ASSUME NEW n \in Name, Mkdir(n) \/ MkdirAll(n) PROVE RowsInv'
  <2>1. CASE db' = db
    BY <2>1 DEF RowsInv
  <2>2. ASSUME NEW call, Mknode(call, Astray(n), "dir", n, NoName) PROVE RowsInv'
    BY <2>2, MknodeKeeps DEF Types, NameOrNone
  <2> QED
    BY <1>3, <2>1, <2>2 DEF Mkdir, MkdirAll, Answer
<1>4. ASSUME NEW n \in Name, RemoveAll(n) PROVE RowsInv'
  <2>1. CASE db' = db
    BY <2>1 DEF RowsInv
  <2>2. CASE db' # db
    BY <1>4, <2>2, DeleteKeeps DEF RemoveAll
  <2> QED
    BY <2>1, <2>2
<1>5. ASSUME NEW old \in Name, NEW n \in Name, SymlinkIfPossible(old, n) PROVE RowsInv'
  <2>1. CASE db' = db
    BY <2>1 DEF RowsInv
  <2>2. ASSUME NEW call, Mknode(call, TRUE, "link", old, n) PROVE RowsInv'
    BY <2>2, MknodeKeeps DEF Types, NameOrNone
  <2> QED
    BY <1>5, <2>1, <2>2 DEF SymlinkIfPossible, MakeLink, Answer
<1>6. ASSUME NEW n \in FileNames,
             \/ Create(n) \/ Mkdir(n) \/ MkdirAll(n) \/ RemoveEntry(n) \/ RemoveAll(n)
             \/ Chmod(n) \/ LstatIfPossible(n)
      PROVE  RowsInv'
  <2>1. CASE LstatIfPossible(n)
    BY <2>1 DEF LstatIfPossible, Answer, RowsInv
  <2>2. CASE RemoveEntry(n)
    BY <1>1, <2>2, RemoveKeeps DEF RemoveEntry
  <2> QED
    BY <1>1, <1>2, <1>3, <1>4, <1>6, <2>1, <2>2, ChmodKeeps
<1>7. ASSUME NEW n \in FileNames, NEW flags \in SUBSET Flags, OpenFile(n, flags)
      PROVE  RowsInv'
  BY <1>1, <1>7, OpenKeeps DEF OpenFile
<1>8. ASSUME NEW from \in FileNames, NEW to \in FileNames,
             Rename(from, to) \/ SymlinkIfPossible(from, to)
      PROVE  RowsInv'
  BY <1>1, <1>5, <1>8, RenameKeeps
<1> QED
  BY <1>6, <1>7, <1>8 DEF Next

(* The index of the root alone is such a table.                            *)
LEMMA InitKeeps ==
  ASSUME Init
  PROVE  RowsInv
<1> DEFINE h == RootHeader(NewMode)
<1>1. h \in Header
  <2>1. <<h>> \in Seq(Header) /\ Len(<<h>>) = 1 /\ <<h>>[1] = h
    BY RootHeaderType, FileSystemAssumption
  <2> HIDE DEF h
  <2> QED
    BY <2>1, ElementOfSeq
<1>2. db = UpsertHeader({}, TarHeaderToDBHeader(h, 1, 1))
  BY DEF Init, IndexHeader, IndexCreate, Indexed, RootHeader, ArchiveHeader
<1>3. db = {TarHeaderToDBHeader(h, 1, 1)}
  BY <1>2 DEF UpsertHeader
<1>4. /\ TarHeaderToDBHeader(h, 1, 1) \in Row
      /\ TarHeaderToDBHeader(h, 1, 1).record = 1 /\ TarHeaderToDBHeader(h, 1, 1).last = 1
  BY <1>1, HeaderRow DEF Position
<1> HIDE DEF h
<1>5. IsFiniteSet(db)
  BY <1>3, FS_Singleton
<1> QED
  BY <1>3, <1>4, <1>5 DEF RowsInv, Table, KeysUnique, Placed

-----------------------------------------------------------------------------
(* Looking entries up.                                                     *)

(* The row of an entry that is no link.                                    *)
IsReal(t, r) == r \in Live(t) /\ r.link = NoName

(* It is the row its name is looked up to: rows are told apart by name and *)
(* link.                                                                   *)
LEMMA RealIsFound ==
  ASSUME NEW t \in SUBSET Row, KeysUnique(t), NEW r, IsReal(t, r)
  PROVE  GetHeader(t, r.name) = r /\ r # NoRow
<1> DEFINE rows == {s \in Live(t) : s.name = r.name}
<1>1. r \in rows /\ r.link = NoName /\ r \in Row
  BY DEF IsReal, Live
<1>2. \A s \in rows : s.link = NoName => s = r
  BY <1>1 DEF KeysUnique, SameKey, Live
<1>3. First(rows) = r
  <2> HIDE DEF rows
  <2> QED
    BY <1>1, <1>2 DEF First
<1> QED
  BY <1>1, <1>3, MetadataAssumption DEF GetHeader

LEMMA StatFinds ==
  ASSUME Table(db), KeysUnique(db), NEW r, IsReal(db, r)
  PROVE  StatName(r.name) = r /\ StatName(r.name) # NoRow
  BY RealIsFound DEF StatName, Table, IsReal

LEMMA StatFound ==
  ASSUME NEW n, StatName(n) # NoRow
  PROVE  IsReal(db, StatName(n)) /\ StatName(n).name = n
  BY GetHeaderFound DEF StatName, IsReal

-----------------------------------------------------------------------------
(* What making an entry does to the index.                                 *)

(* The row of a new entry.                                                 *)
NewRow(r, type, n, link) ==
  /\ r \in Row /\ r.name = n /\ r.link = link /\ r.type = type /\ r.mode = NewMode
  /\ r.size = Empty /\ r.from = NoName /\ ~r.deleted

(* Clients use no name that ends in the suffix of the formats: of a file   *)
(* of such a name the index has another.                                   *)
Suffixless == \A n \in FileNames : RemoveSuffix(n) = n

LEMMA NewEntryMakes ==
  ASSUME RowsInv, NEW liberty, NEW type \in Types, NEW n \in FileNames,
         NEW link \in NameOrNone, Operate(liberty, <<NewEntry(type, n, link)>>),
         type = "reg" => Suffixless
  PROVE  /\ IndexAll(<<NewEntry(type, n, link)>>).err = "none"
         /\ \E row : NewRow(row, type, n, link) /\ db' = UpsertHeader(db, row)
<1> DEFINE h == NewEntry(type, n, link)
           made == TarHeaderToDBHeader(h, 2, 2)
<1>1. n \in Name /\ <<h>> \in Seq(Header) /\ Len(<<h>>) = 1 /\ <<h>>[1] = h
  BY MknodeHeader, FileSystemAssumption
<1>2. h \in Header
  <2> HIDE DEF h
  <2> QED
    BY <1>1, ElementOfSeq
<1>3. /\ h.action = "create" /\ h.name = n /\ h.link = link /\ h.type = type
      /\ h.mode = NewMode /\ h.size = Empty /\ h.from = NoName
  BY DEF NewEntry, ArchiveHeader
<1>4. Operate(liberty, <<h>>)
  OBVIOUS
<1> HIDE DEF h
<1>5. IndexAll(<<h>>) = Indexed(UpsertHeader(db, made))
  <2>1. 1 + 1 = 2
    OBVIOUS
  <2> QED
    BY <1>3, <2>1, OneIndexed DEF IndexAll, IndexHeader, IndexCreate
<1>6. IndexAll(<<h>>).err = "none" /\ db' = Unplaced(UpsertHeader(db, made))
  BY <1>4, <1>5 DEF Operate, Indexed
<1>7. made \in Row
  BY <1>2, HeaderRow DEF Position
<1>8. IndexedName(h) = n
  BY <1>3 DEF IndexedName, Suffixless
<1>9. /\ made.name = n /\ made.link = link /\ made.type = type /\ made.mode = NewMode
      /\ made.size = Empty /\ made.from = NoName /\ ~made.deleted
  BY <1>3, <1>8 DEF TarHeaderToDBHeader
<1> HIDE DEF made
<1>10. NewRow(PlacedRow(made), type, n, link)
  BY <1>7, <1>9, UnplacedRow DEF NewRow
<1>11. Unplaced(UpsertHeader(db, made)) = UpsertHeader(db, PlacedRow(made))
  <2>1. \A r \in db : PlacedRow(r) = r
    BY UnplacedRow DEF RowsInv, Placed, Table
  <2>2. \A r : SameKey(r, PlacedRow(made)) <=> SameKey(r, made)
    BY <1>7, UnplacedRow DEF SameKey
  <2>3. Unplaced(UpsertHeader(db, made)) = {PlacedRow(r) : r \in UpsertHeader(db, made)}
    BY UnplacedDef
  <2>4. {PlacedRow(r) : r \in UpsertHeader(db, made)}
          = {r \in db : ~SameKey(r, made)} \cup {PlacedRow(made)}
    BY <2>1 DEF UpsertHeader
  <2> QED
    BY <2>2, <2>3, <2>4 DEF UpsertHeader
<1> QED
  BY <1>6, <1>10, <1>11 DEF h

LEMMA MknodeMakes ==
  ASSUME RowsInv, NEW call, NEW liberty, NEW type \in Types, NEW n \in FileNames,
         NEW link \in NameOrNone, Mknode(call, liberty, type, n, link),
         type = "reg" => Suffixless
  PROVE  /\ last' = [call |-> call, res |-> "ok"]
         /\ \E row : NewRow(row, type, n, link) /\ db' = UpsertHeader(db, row)
<1>1. Operate(liberty, <<NewEntry(type, n, link)>>)
  BY DEF Mknode, Perform
<1>2. IndexAll(<<NewEntry(type, n, link)>>).err = "none"
  BY <1>1, NewEntryMakes
<1>3. last' = [call |-> call, res |-> "ok"]
  BY <1>2 DEF Mknode, Perform
<1> QED
  BY <1>1, <1>3, NewEntryMakes

(* An entry that is no link stays as it is if the new one has another name *)
(* or is a link.                                                           *)
LEMMA UpsertSpares ==
  ASSUME NEW t, NEW row, NEW r, IsReal(t, r), ~SameKey(r, row)
  PROVE  IsReal(UpsertHeader(t, row), r)
  BY DEF IsReal, UpsertHeader, Live

-----------------------------------------------------------------------------
(* Making an entry spares the others.                                      *)

(* What clients see of an entry that is no link, in any table.             *)
Seen(r) == [type |-> r.type, mode |-> r.mode]
RealOf(t, n) ==
  LET r == GetHeader(t, n) IN IF r # NoRow /\ r.link = NoName THEN r ELSE NoRow
TreeOf(t) == [n \in {r.name : r \in {s \in Live(t) : s.link = NoName}} |-> Seen(RealOf(t, n))]

LEMMA TreeIsOf ==
  Tree = TreeOf(db) /\ Tree' = TreeOf(db')
BY DEF Tree, TreeOf, StatName, RealOf, Seen

LEMMA TreeAt ==
  ASSUME NEW t \in SUBSET Row, KeysUnique(t)
  PROVE  /\ \A r : IsReal(t, r) => r.name \in DOMAIN TreeOf(t) /\ TreeOf(t)[r.name] = Seen(r)
         /\ \A n \in DOMAIN TreeOf(t) : \E r : IsReal(t, r) /\ r.name = n
<1>1. ASSUME NEW r, IsReal(t, r)
      PROVE  r.name \in DOMAIN TreeOf(t) /\ TreeOf(t)[r.name] = Seen(r)
  <2>1. RealOf(t, r.name) = r
    BY <1>1, RealIsFound DEF RealOf, IsReal
  <2>2. r.name \in {q.name : q \in {s \in Live(t) : s.link = NoName}}
    BY <1>1 DEF IsReal
  <2> QED
    BY <2>1, <2>2 DEF TreeOf
<1>2. ASSUME NEW n \in DOMAIN TreeOf(t) PROVE \E r : IsReal(t, r) /\ r.name = n
  BY DEF TreeOf, IsReal
<1> QED
  BY <1>1, <1>2

(* A tree that has all entries of another as they are there.               *)
Spares(old, new) == \A n \in DOMAIN old : n \in DOMAIN new /\ new[n] = old[n]

LEMMA MknodeSpares ==
  ASSUME RowsInv, Suffixless, NEW call, NEW liberty, NEW type \in Types, NEW n \in FileNames,
         NEW link \in NameOrNone, Mknode(call, liberty, type, n, link),
         link # NoName \/ StatName(n) = NoRow
  PROVE  Spares(Tree, Tree')
<1>1. PICK row : NewRow(row, type, n, link) /\ db' = UpsertHeader(db, row)
  BY MknodeMakes
<1>2. RowsInv'
  BY MknodeKeeps, FileSystemAssumption
<1>3. /\ db \in SUBSET Row /\ KeysUnique(db) /\ Table(db)
      /\ db' \in SUBSET Row /\ KeysUnique(db')
  BY <1>2 DEF RowsInv, Table, KeysUnique
<1>4. ASSUME NEW m \in DOMAIN TreeOf(db)
      PROVE  m \in DOMAIN TreeOf(db') /\ TreeOf(db')[m] = TreeOf(db)[m]
  <2>1. PICK r : IsReal(db, r) /\ r.name = m
    BY <1>3, TreeAt
  <2>2. StatName(m) # NoRow
    BY <1>3, <2>1, StatFinds
  <2>3. ~SameKey(r, row)
    BY <1>1, <2>1, <2>2 DEF SameKey, NewRow, IsReal
  <2>4. IsReal(db', r)
    BY <1>1, <2>1, <2>3, UpsertSpares
  <2>5. TreeOf(db)[r.name] = Seen(r)
    BY <1>3, <2>1, TreeAt
  <2>6. r.name \in DOMAIN TreeOf(db') /\ TreeOf(db')[r.name] = Seen(r)
    BY <1>3, <2>4, TreeAt
  <2> QED
    BY <2>1, <2>5, <2>6
<1> QED
  BY <1>4, TreeIsOf DEF Spares

(* A new file is there when it is looked up again.                         *)
LEMMA FileIsMade ==
  ASSUME RowsInv, Suffixless, NEW call, NEW n \in FileNames, MakeFile(call, n)
  PROVE  Mknode(call, Astray(n), "reg", n, NoName)
<1>0. n \in Name /\ "reg" \in Types /\ NoName \in NameOrNone
  BY FileSystemAssumption DEF Types, NameOrNone
<1>1. Operate(Astray(n), <<NewEntry("reg", n, NoName)>>)
  BY DEF MakeFile
<1>2. IndexAll(<<NewEntry("reg", n, NoName)>>).err = "none"
  BY <1>0, <1>1, NewEntryMakes
<1>3. PICK row : NewRow(row, "reg", n, NoName) /\ db' = UpsertHeader(db, row)
  BY <1>0, <1>1, NewEntryMakes
<1>4. RowsInv'
  BY <1>0, MakeFileKeeps
<1>5. db' \in SUBSET Row /\ KeysUnique(db')
  BY <1>4 DEF RowsInv, Table, KeysUnique
<1>6. IsReal(db', row) /\ row.name = n
  BY <1>3 DEF IsReal, NewRow, UpsertHeader, Live
<1>7. RealOf(db', n) # NoRow
  BY <1>5, <1>6, RealIsFound DEF RealOf, IsReal
<1>8. StatName(n)' = RealOf(db', n)
  BY DEF StatName, RealOf
<1>9. last' = [call |-> call, res |-> "ok"]
  BY <1>7, <1>8 DEF MakeFile
<1> QED
  BY <1>1, <1>2, <1>9 DEF Mknode, Perform

(* Each call that makes entries makes at most one that is new.             *)
LEMMA OpenSpares ==
  ASSUME RowsInv, Suffixless, NEW call, NEW n \in FileNames, NEW flags, Open(call, n, flags),
         db' # db
  PROVE  Spares(Tree, Tree')
<1>1. Opened(n, flags) = NoRow /\ Mknode(call, Astray(n), "reg", n, NoName)
  BY FileIsMade DEF Open, CreateFile, Answer
<1>2. StatName(n) = NoRow
  BY <1>1 DEF Opened, Target
<1> QED
  BY <1>1, <1>2, MknodeSpares DEF Types, NameOrNone

(* What a call tells of itself.                                            *)
LEMMA PerformTells ==
  ASSUME NEW call, NEW liberty, NEW hdrs, Perform(call, liberty, hdrs)
  PROVE  last'.call = call
  BY DEF Perform

LEMMA RemoveTells ==
  ASSUME NEW call, NEW liberty, NEW n,
         Delete(call, liberty, n) \/ RemoveWithoutLocking(call, liberty, n)
  PROVE  last'.call = call
<1>1. ASSUME Delete(call, liberty, n) PROVE last'.call = call
  BY <1>1, PerformTells DEF Delete
<1> QED
  BY <1>1 DEF RemoveWithoutLocking, Answer

LEMMA ChmodTells ==
  ASSUME NEW n, Chmod(n)
  PROVE  last'.call = Call("Chmod", n)
<1>1. CASE Answer(Call("Chmod", n), "notexist")
  BY <1>1 DEF Answer
<1>2. CASE \E liberty, hdrs : Perform(Call("Chmod", n), liberty, hdrs)
  BY <1>2, PerformTells
<1> QED
  BY <1>1, <1>2 DEF Chmod

LEMMA RenameTells ==
  ASSUME NEW from, NEW to, Rename(from, to)
  PROVE  last'.call = CallTo("Rename", from, to)
<1> DEFINE call == CallTo("Rename", from, to)
<1>1. ASSUME NEW c, Move(c, from, to) PROVE last'.call = c
  <2>1. CASE Answer(c, "ok")
    BY <2>1 DEF Answer
  <2>2. CASE ~Answer(c, "ok")
    <3>1. \E liberty, hdrs : Perform(c, liberty, hdrs)
      BY <1>1, <2>2 DEF Move
    <3> QED
      BY <3>1, PerformTells
  <2> QED
    BY <2>1, <2>2
<1>2. ASSUME NEW c, RenameOnto(c, from, to) PROVE last'.call = c
  <2>1. CASE Answer(c, "exist")
    BY <2>1 DEF Answer
  <2>2. CASE RemoveWithoutLocking(c, TRUE, to)
    BY <2>2, RemoveTells
  <2> QED
    BY <1>2, <2>1, <2>2 DEF RenameOnto
<1>3. CASE Move(call, from, to) \/ RenameOnto(call, from, to)
  BY <1>1, <1>2, <1>3
<1>4. CASE \E res : Answer(call, res)
  BY <1>4 DEF Answer
<1> QED
  BY <1>3, <1>4 DEF Rename

LEMMA MakingSpares ==
  ASSUME RowsInv, Suffixless, Next, last'.call.op \in Making, db' # db
  PROVE  Spares(Tree, Tree')
<1>1. ASSUME NEW n \in FileNames, Create(n) PROVE Spares(Tree, Tree')
  BY <1>1, OpenSpares DEF Create, Answer
<1>2. ASSUME NEW n \in FileNames, Mkdir(n) \/ MkdirAll(n) PROVE Spares(Tree, Tree')
  <2>1. PICK call : ~IsFound(n) /\ Mknode(call, Astray(n), "dir", n, NoName)
    BY <1>2 DEF Mkdir, MkdirAll, Answer
  <2>2. StatName(n) = NoRow
    BY <2>1 DEF IsFound
  <2> QED
    BY <2>1, <2>2, MknodeSpares DEF Types, NameOrNone
<1>3. ASSUME NEW old \in FileNames, NEW n \in FileNames, SymlinkIfPossible(old, n)
      PROVE  Spares(Tree, Tree')
  <2>1. PICK call : Mknode(call, TRUE, "link", old, n)
    BY <1>3 DEF SymlinkIfPossible, MakeLink, Answer
  <2>2. n \in NameOrNone /\ n # NoName
    BY FileSystemAssumption, PathsAssumption DEF NameOrNone
  <2> QED
    BY <2>1, <2>2, MknodeSpares DEF Types
<1>4. ASSUME NEW n \in FileNames, NEW flags \in SUBSET Flags, OpenFile(n, flags)
      PROVE  Spares(Tree, Tree')
  BY <1>4, OpenSpares DEF OpenFile
<1>5. ASSUME NEW n \in FileNames, RemoveEntry(n) \/ RemoveAll(n) \/ Chmod(n) \/ LstatIfPossible(n)
      PROVE  FALSE
  <2>1. CASE RemoveEntry(n)
    BY <2>1, RemoveTells DEF RemoveEntry, Call, CallWith, Making
  <2>2. CASE RemoveAll(n)
    <3>1. last'.call = Call("RemoveAll", n)
      BY <2>2, RemoveTells DEF RemoveAll
    <3> QED
      BY <3>1 DEF Call, CallWith, Making
  <2>3. CASE Chmod(n)
    <3>1. last'.call = Call("Chmod", n)
      BY <2>3, ChmodTells
    <3> QED
      BY <3>1 DEF Call, CallWith, Making
  <2>4. CASE LstatIfPossible(n)
    BY <2>4 DEF LstatIfPossible, Answer, Call, CallWith, Making
  <2> QED
    BY <1>5, <2>1, <2>2, <2>3, <2>4
<1>6. ASSUME NEW from \in FileNames, NEW to \in FileNames, Rename(from, to)
      PROVE  FALSE
  <2>1. last'.call = CallTo("Rename", from, to)
    BY <1>6, RenameTells
  <2> QED
    BY <2>1 DEF CallTo, CallWith, Making
<1> QED
  BY <1>1, <1>2, <1>3, <1>4, <1>5, <1>6 DEF Next

(* Making an entry, a link included, leaves every other entry as it was    *)
(* (Create, OpenFile, Mkdir, MkdirAll and SymlinkIfPossible of             *)
(* pkg/fs/filesystem.go), for any number of names and of free calls.       *)
THEOREM MakingAlwaysSpares ==
  ASSUME Suffixless
  PROVE  TreeSpec => MakingSparesOthers
<1> DEFINE Inv == RowsInv /\ tree = Tree
<1>1. TreeInit => Inv
  BY InitKeeps DEF TreeInit
<1>2. Inv /\ [TreeNext]_<<fsVars, tree>> => Inv'
  <2> SUFFICES ASSUME Inv, [TreeNext]_<<fsVars, tree>> PROVE Inv'
    OBVIOUS
  <2>1. CASE UNCHANGED <<fsVars, tree>>
    BY <2>1, TreeIsOf DEF fsVars, RowsInv
  <2>2. CASE TreeNext
    BY <2>2, TreeIsOf, CallsKeep DEF TreeNext
  <2> QED
    BY <2>1, <2>2
<1>3. Inv /\ [TreeNext]_<<fsVars, tree>>
        => [last'.call.op \in Making => Spares(tree, tree')]_<<fsVars, tree>>
  <2> SUFFICES ASSUME Inv, TreeNext, last'.call.op \in Making
               PROVE  Spares(tree, tree')
    OBVIOUS
  <2>1. CASE db' = db
    BY <2>1 DEF TreeNext, Spares
  <2>2. CASE db' # db
    BY <2>2, MakingSpares DEF TreeNext
  <2> QED
    BY <2>1, <2>2
<1>4. Inv /\ [TreeNext]_<<fsVars, tree>>
        => [last'.call.op \in Making =>
              \A n \in DOMAIN tree : n \in DOMAIN tree' /\ tree'[n] = tree[n]]_<<fsVars, tree>>
  BY <1>3 DEF Spares
<1> QED
  BY <1>1, <1>2, <1>4, PTL DEF TreeSpec, MakingSparesOthers

-----------------------------------------------------------------------------
(* What has been made is found.                                            *)

LinkOf(t, n) ==
  LET l == GetHeaderByLinkname(t, n) IN IF l = NoRow THEN NoRow ELSE GetHeader(t, l.name)
FoundOf(t, n) == IF RealOf(t, n) # NoRow THEN RealOf(t, n) ELSE LinkOf(t, n)

(* MadeIsFound of any table and any answer.                                *)
Made(t, op, n, to) ==
  /\ op \in {"Mkdir", "MkdirAll"} => FoundOf(t, n) # NoRow /\ FoundOf(t, n).type = "dir"
  /\ op \in {"Create", "OpenFile"} => FoundOf(t, n) # NoRow
  /\ op = "Symlink" => LinkOf(t, to) # NoRow

LEMMA FoundIsOf ==
  ASSUME NEW n
  PROVE  /\ StatName(n) = RealOf(db, n) /\ StatLink(n) = LinkOf(db, n)
         /\ StatName(n)' = RealOf(db', n) /\ StatLink(n)' = LinkOf(db', n)
  BY DEF StatName, StatLink, RealOf, LinkOf

LEMMA IsFoundIsOf ==
  ASSUME NEW n
  PROVE  /\ IsFound(n) <=> FoundOf(db, n) # NoRow
         /\ Found(n) = FoundOf(db, n)
  BY FoundIsOf DEF IsFound, Found, FoundOf

LEMMA MadeIsOf ==
  /\ MadeIsFound <=> (last.res = "ok" => Made(db, last.call.op, last.call.name, last.call.to))
  /\ MadeIsFound' <=> (last'.res = "ok" => Made(db', last'.call.op, last'.call.name, last'.call.to))
<1>1. ASSUME NEW t, NEW n
      PROVE  (RealOf(t, n) # NoRow \/ LinkOf(t, n) # NoRow) <=> FoundOf(t, n) # NoRow
  BY DEF FoundOf
<1> QED
  BY <1>1 DEF MadeIsFound, Made, FoundOf, IsFound, Found, StatName, StatLink, RealOf, LinkOf

(* A new entry is found by its name, a new link by its own.                *)
LEMMA MknodeIsFound ==
  ASSUME RowsInv, NEW call, NEW liberty, NEW type \in Types, NEW n \in FileNames,
         NEW link \in NameOrNone, Mknode(call, liberty, type, n, link),
         type = "reg" => Suffixless
  PROVE  /\ last'.call = call
         /\ link = NoName => FoundOf(db', n) # NoRow /\ FoundOf(db', n).type = type
         /\ link # NoName => LinkOf(db', link) # NoRow
<1>1. PICK row : NewRow(row, type, n, link) /\ db' = UpsertHeader(db, row)
  BY MknodeMakes
<1>2. RowsInv'
  BY MknodeKeeps, FileSystemAssumption
<1>3. db' \in SUBSET Row /\ KeysUnique(db') /\ row \in Live(db') /\ row.name = n /\ row.link = link
  BY <1>1, <1>2 DEF RowsInv, Table, KeysUnique, NewRow, UpsertHeader, Live
<1>4. ASSUME link = NoName PROVE FoundOf(db', n) # NoRow /\ FoundOf(db', n).type = type
  <2>1. IsReal(db', row)
    BY <1>3, <1>4 DEF IsReal
  <2>2. GetHeader(db', n) = row /\ row # NoRow
    BY <1>3, <2>1, RealIsFound
  <2> QED
    BY <1>1, <1>3, <1>4, <2>2 DEF FoundOf, RealOf, NewRow
<1>5. LinkOf(db', link) # NoRow
  <2>1. GetHeaderByLinkname(db', link) # NoRow
    <3> DEFINE rows == {r \in Live(db') : r.link = link}
    <3>1. rows # {} /\ \A r \in rows : r # NoRow
      BY <1>3, MetadataAssumption DEF Live
    <3> HIDE DEF rows
    <3>2. First(rows) # NoRow
      BY <3>1, FirstIsMember
    <3> QED
      BY <3>2 DEF GetHeaderByLinkname, rows
  <2> DEFINE l == GetHeaderByLinkname(db', link)
             rows == {r \in Live(db') : r.name = l.name}
  <2>2. l \in Live(db')
    BY <2>1, GetHeaderByLinknameFound
  <2>3. rows # {} /\ \A r \in rows : r # NoRow
    BY <1>3, <2>2, MetadataAssumption DEF Live
  <2>4. First(rows) # NoRow
    <3> HIDE DEF rows
    <3> QED
      BY <2>3, FirstIsMember
  <2>5. GetHeader(db', l.name) # NoRow
    BY <2>4 DEF GetHeader
  <2> HIDE DEF rows
  <2> QED
    BY <2>1, <2>5 DEF LinkOf
<1>6. last'.call = call
  BY PerformTells DEF Mknode
<1> QED
  BY <1>4, <1>5, <1>6

(* An answer that changes nothing.                                         *)
LEMMA AnswerMade ==
  ASSUME NEW call, NEW res, Answer(call, res)
  PROVE  last'.call = call /\ last'.res = res /\ db' = db
  BY DEF Answer

(* The outcome is that of a call which has made what it was to make, if    *)
(* it was successful.                                                      *)
Kept(call) ==
  last'.call = call /\ (last'.res = "ok" => Made(db', call.op, call.name, call.to))

LEMMA OpenMakes ==
  ASSUME RowsInv, NEW op \in {"Create", "OpenFile"}, NEW n \in FileNames, NEW flags,
         NEW given, Open(CallWith(op, n, n, given), n, flags)
  PROVE  Kept(CallWith(op, n, n, given))
<1> DEFINE call == CallWith(op, n, n, given)
<1>1. call.op = op /\ call.name = n /\ call.to = n
  BY DEF CallWith
<1> HIDE DEF call
<1>2. ASSUME NEW res, Answer(call, res), Opened(n, flags) # NoRow PROVE Kept(call)
  <2>1. Target(n) # NoRow
    BY <1>2 DEF Opened
  <2>2. StatName(n) # NoRow \/ StatLink(n) # NoRow
    BY <2>1 DEF Target
  <2>3. FoundOf(db, n) # NoRow
    BY <2>2, FoundIsOf DEF FoundOf
  <2>4. last'.call = call /\ db' = db
    BY <1>2, AnswerMade
  <2> QED
    BY <1>1, <2>3, <2>4 DEF Kept, Made
<1>3. ASSUME NEW res \in {"notexist", "isdir"}, Answer(call, res) PROVE Kept(call)
  BY <1>3, AnswerMade DEF Kept
<1>4. ASSUME MakeFile(call, n) PROVE Kept(call)
  <2>1. last'.call = call /\ (last'.res = "ok" => RealOf(db', n) # NoRow)
    BY <1>4, FoundIsOf DEF MakeFile
  <2> QED
    BY <1>1, <2>1 DEF Kept, Made, FoundOf
<1>5. Open(call, n, flags)
  BY DEF call
<1>6. Kept(call)
  <2>1. CASE Opened(n, flags) # NoRow
    BY <1>2, <1>5, <2>1 DEF Open
  <2>2. CASE Opened(n, flags) = NoRow
    BY <1>3, <1>4, <1>5, <2>2 DEF Open, CreateFile
  <2> QED
    BY <2>1, <2>2
<1> QED
  BY <1>6 DEF call

LEMMA MakingDirectory ==
  ASSUME RowsInv, NEW op \in {"Mkdir", "MkdirAll"}, NEW n \in FileNames,
         Mknode(Call(op, n), Astray(n), "dir", n, NoName)
  PROVE  Kept(Call(op, n))
<1> DEFINE call == Call(op, n)
<1>1. call.op = op /\ call.name = n
  BY DEF Call, CallWith
<1>2. "dir" \in Types /\ NoName \in NameOrNone
  BY DEF Types, NameOrNone
<1>3. Mknode(call, Astray(n), "dir", n, NoName)
  OBVIOUS
<1> HIDE DEF call
<1>4. last'.call = call /\ FoundOf(db', n) # NoRow /\ FoundOf(db', n).type = "dir"
  BY <1>2, <1>3, MknodeIsFound
<1>5. Kept(call)
  BY <1>1, <1>4 DEF Kept, Made
<1> QED
  BY <1>5 DEF call

LEMMA MkdirMakes ==
  ASSUME RowsInv, NEW n \in FileNames, Mkdir(n)
  PROVE  Kept(Call("Mkdir", n))
<1>1. ASSUME NEW res \in {"notexist", "exist"}, Answer(Call("Mkdir", n), res)
      PROVE  Kept(Call("Mkdir", n))
  BY <1>1, AnswerMade DEF Kept
<1> QED
  BY <1>1, MakingDirectory DEF Mkdir

LEMMA MkdirAllMakes ==
  ASSUME RowsInv, NEW n \in FileNames, MkdirAll(n)
  PROVE  Kept(Call("MkdirAll", n))
<1> DEFINE call == Call("MkdirAll", n)
<1>1. call.op = "MkdirAll" /\ call.name = n
  BY DEF Call, CallWith
<1>2. ASSUME IsFound(n), Answer(call, IF Found(n).type = "dir" THEN "ok" ELSE "isfile")
      PROVE  Kept(call)
  <2> HIDE DEF call
  <2>1. last'.call = call /\ db' = db /\ (last'.res = "ok" => Found(n).type = "dir")
    BY <1>2, AnswerMade
  <2>2. FoundOf(db, n) # NoRow /\ Found(n) = FoundOf(db, n)
    BY <1>2, IsFoundIsOf
  <2> QED
    BY <1>1, <2>1, <2>2 DEF Kept, Made
<1> HIDE DEF call
<1>3. CASE IsFound(n)
  BY <1>2, <1>3 DEF MkdirAll, call
<1>4. CASE ~IsFound(n)
  BY <1>4, MakingDirectory DEF MkdirAll, call
<1> QED
  BY <1>3, <1>4 DEF call

LEMMA SymlinkMakes ==
  ASSUME RowsInv, NEW old \in FileNames, NEW n \in FileNames,
         SymlinkIfPossible(old, n)
  PROVE  Kept(CallTo("Symlink", old, n))
<1> DEFINE call == CallTo("Symlink", old, n)
<1>1. call.op = "Symlink" /\ call.name = old /\ call.to = n
  BY DEF CallTo, CallWith
<1> HIDE DEF call
<1>2. ASSUME NEW res \in {"notexist", "exist"}, Answer(call, res) PROVE Kept(call)
  BY <1>2, AnswerMade DEF Kept
<1>3. ASSUME Mknode(call, TRUE, "link", old, n) PROVE Kept(call)
  <2>1. "link" \in Types /\ n \in NameOrNone /\ n # NoName
    BY FileSystemAssumption, PathsAssumption DEF Types, NameOrNone
  <2>2. last'.call = call /\ LinkOf(db', n) # NoRow
    BY <1>3, <2>1, MknodeIsFound
  <2> QED
    BY <1>1, <2>2 DEF Kept, Made
<1>4. Kept(call)
  BY <1>2, <1>3 DEF SymlinkIfPossible, MakeLink, call
<1> QED
  BY <1>4 DEF call

(* The other calls make nothing.                                           *)
LEMMA OthersMake ==
  ASSUME NEW op \in Ops \ Making, NEW n, NEW to, last'.call = CallTo(op, n, to)
  PROVE  Kept(CallTo(op, n, to))
<1>1. CallTo(op, n, to).op = op
  BY DEF CallTo, CallWith
<1> QED
  BY <1>1 DEF Kept, Made, Making

LEMMA CallsMake ==
  ASSUME RowsInv, Next
  PROVE  MadeIsFound'
<1> SUFFICES \E call : Kept(call)
  BY MadeIsOf DEF Kept
<1>1. ASSUME NEW n \in FileNames, NEW flags \in SUBSET Flags, OpenFile(n, flags)
      PROVE  Kept(CallWith("OpenFile", n, n, flags))
  BY <1>1, OpenMakes DEF OpenFile
<1>2. ASSUME NEW n \in FileNames, Create(n) PROVE Kept(Call("Create", n))
  <2>1. CASE Answer(Call("Create", n), "notexist")
    BY <2>1, AnswerMade DEF Kept
  <2>2. CASE Open(Call("Create", n), n, Flags)
    BY <2>2, OpenMakes DEF Call
  <2> QED
    BY <1>2, <2>1, <2>2 DEF Create
<1>3. ASSUME NEW n \in FileNames, RemoveEntry(n) PROVE Kept(Call("Remove", n))
  BY <1>3, RemoveTells, OthersMake DEF RemoveEntry, Call, CallTo, Ops, Making
<1>4. ASSUME NEW n \in FileNames, RemoveAll(n) PROVE Kept(Call("RemoveAll", n))
  <2>1. last'.call = Call("RemoveAll", n)
    BY <1>4, RemoveTells DEF RemoveAll
  <2> QED
    BY <2>1, OthersMake DEF Call, CallTo, Ops, Making
<1>5. ASSUME NEW n \in FileNames, Chmod(n) PROVE Kept(Call("Chmod", n))
  <2>1. last'.call = Call("Chmod", n)
    BY <1>5, ChmodTells
  <2> QED
    BY <2>1, OthersMake DEF Call, CallTo, Ops, Making
<1>6. ASSUME NEW n \in FileNames, LstatIfPossible(n) PROVE Kept(Call("Lstat", n))
  <2>1. last'.call = Call("Lstat", n)
    BY <1>6, AnswerMade DEF LstatIfPossible
  <2> QED
    BY <2>1, OthersMake DEF Call, CallTo, Ops, Making
<1>7. ASSUME NEW from \in FileNames, NEW to \in FileNames, Rename(from, to)
      PROVE  Kept(CallTo("Rename", from, to))
  BY <1>7, RenameTells, OthersMake DEF Ops, Making
<1> QED
  BY <1>1, <1>2, <1>3, <1>4, <1>5, <1>6, <1>7, MkdirMakes, MkdirAllMakes, SymlinkMakes DEF Next

LEMMA InitMade ==
  ASSUME Init
  PROVE  MadeIsFound
<1> DEFINE h == RootHeader(NewMode)
           row == TarHeaderToDBHeader(h, 1, 1)
<1>1. RowsInv
  BY InitKeeps
<1>2. h.name = Root /\ h.link = NoName /\ h.type = "dir" /\ h.action = "create"
  BY DEF RootHeader, ArchiveHeader
<1> HIDE DEF h
<1>3. db = {row}
  BY <1>2 DEF Init, IndexHeader, IndexCreate, Indexed, UpsertHeader, h
<1>4. row.name = Root /\ row.link = NoName /\ row.type = "dir" /\ ~row.deleted
  BY <1>2 DEF TarHeaderToDBHeader, IndexedName
<1> HIDE DEF row
<1>5. IsReal(db, row)
  BY <1>3, <1>4 DEF IsReal, Live
<1>6. StatName(Root) = row /\ StatName(Root) # NoRow
  BY <1>1, <1>4, <1>5, StatFinds DEF RowsInv
<1>7. FoundOf(db, Root) = row /\ row # NoRow
  BY <1>6, FoundIsOf DEF FoundOf
<1>8. last.call = Call("MkdirAll", Root)
  BY DEF Init
<1>9. last.call.op = "MkdirAll" /\ last.call.name = Root
  BY <1>8 DEF Call, CallWith
<1> QED
  BY <1>4, <1>7, <1>9, MadeIsOf DEF Made

(* What a call has made is there: created, opened to be created or linked  *)
(* successfully, the name is found and has the type that was asked for     *)
(* (Create, OpenFile, Mkdir, MkdirAll and SymlinkIfPossible of             *)
(* pkg/fs/filesystem.go), for any names, also those that end in the suffix *)
(* of the formats, and any number of free calls.                           *)
THEOREM MadeIsAlwaysFound == TreeSpec => []MadeIsFound
<1> DEFINE Inv == RowsInv /\ MadeIsFound
<1>1. TreeInit => Inv
  BY InitKeeps, InitMade DEF TreeInit
<1>2. Inv /\ [TreeNext]_<<fsVars, tree>> => Inv'
  <2> SUFFICES ASSUME Inv, [TreeNext]_<<fsVars, tree>> PROVE Inv'
    OBVIOUS
  <2>1. CASE UNCHANGED <<fsVars, tree>>
    <3>1. db' = db /\ last' = last
      BY <2>1 DEF fsVars
    <3> QED
      BY <3>1, MadeIsOf DEF RowsInv
  <2>2. CASE TreeNext
    BY <2>2, CallsKeep, CallsMake DEF TreeNext
  <2> QED
    BY <2>1, <2>2
<1> QED
  BY <1>1, <1>2, PTL DEF TreeSpec

-----------------------------------------------------------------------------
(* How many entries there are.                                             *)

LiveCount(t) == Cardinality(Live(t))

(* Rows that are changed without being merged stay as many; more are live  *)
(* if some come back to life.                                              *)
LEMMA LiveImage ==
  ASSUME NEW t, IsFiniteSet(t), NEW f \in [t -> Row],
         \A r, s \in t : f[r] = f[s] => r = s,
         \A r \in t : ~r.deleted => ~f[r].deleted
  PROVE  /\ LiveCount(t) <= LiveCount({f[r] : r \in t})
         /\ (\A r \in t : r.deleted => f[r].deleted) => LiveCount({f[r] : r \in t}) = LiveCount(t)
<1> DEFINE L == Live(t)
           I == Live({f[r] : r \in t})
           g == [r \in L |-> f[r]]
<1>1. IsFiniteSet({f[r] : r \in t})
  BY FiniteImage
<1>2. IsFiniteSet(I) /\ I \subseteq {f[r] : r \in t}
  BY <1>1, FS_Subset DEF Live
<1>3. g \in Injection(L, I)
  <2>1. g \in [L -> I]
    BY DEF Live
  <2>2. \A r, s \in L : g[r] = g[s] => r = s
    BY DEF Live
  <2> HIDE DEF g
  <2> QED
    BY <2>1, <2>2 DEF Injection, IsInjective
<1>4. ASSUME \A r \in t : r.deleted => f[r].deleted
      PROVE  g \in Surjection(L, I)
  <2>1. g \in [L -> I]
    BY DEF Live
  <2>2. \A y \in I : \E r \in L : g[r] = y
    BY <1>4 DEF Live
  <2> HIDE DEF g
  <2> QED
    BY <2>1, <2>2 DEF Surjection
<1>5. /\ Cardinality(L) <= Cardinality(I)
      /\ g \in Surjection(L, I) => Cardinality(L) = Cardinality(I)
  <2> HIDE DEF g, L, I
  <2> QED
    BY <1>2, <1>3, FS_Injection
<1> QED
  BY <1>4, <1>5 DEF LiveCount

LEMMA UpdateCounts ==
  ASSUME NEW t, Table(t), KeysUnique(t), NEW row \in Row, ~row.deleted
  PROVE  /\ LiveCount(t) <= LiveCount(UpdateHeaderMetadata(t, row))
         /\ (\A r \in t : SameKey(r, row) => ~r.deleted)
              => LiveCount(UpdateHeaderMetadata(t, row)) = LiveCount(t)
<1> DEFINE f == [r \in t |-> IF SameKey(r, row) THEN row ELSE r]
<1>1. UpdateHeaderMetadata(t, row) = {f[r] : r \in t}
  BY DEF UpdateHeaderMetadata
<1>2. f \in [t -> Row] /\ IsFiniteSet(t)
  BY DEF Table
<1>3. \A r, s \in t : f[r] = f[s] => r = s
  BY DEF KeysUnique, SameKey
<1>4. \A r \in t : ~r.deleted => ~f[r].deleted
  OBVIOUS
<1>5. ASSUME \A r \in t : SameKey(r, row) => ~r.deleted
      PROVE  \A r \in t : r.deleted => f[r].deleted
  BY <1>5
<1> HIDE DEF f
<1> QED
  BY <1>1, <1>2, <1>3, <1>4, <1>5, LiveImage

LEMMA MoveCounts ==
  ASSUME NEW t, Table(t), KeysUnique(t), NEW old \in Name, NEW new \in Name,
         NEW pos \in Position, ~MoveConflict(t, old, new)
  PROVE  LiveCount(MoveHeader(t, old, new, pos)) = LiveCount(t)
<1> DEFINE f == [r \in t |-> IF r.name = old
                                THEN [r EXCEPT !.name = new, !.last = pos] ELSE r]
<1>1. MoveHeader(t, old, new, pos) = {f[r] : r \in t}
  BY DEF MoveHeader
<1>2. t \subseteq Row /\ IsFiniteSet(t)
  BY DEF Table
<1>3. ASSUME NEW r \in t
      PROVE  /\ f[r] \in Row /\ f[r].link = r.link /\ f[r].deleted = r.deleted
             /\ f[r].name = IF r.name = old THEN new ELSE r.name
             /\ r.name # old => f[r] = r
  BY <1>2 DEF Row
<1>4. f \in [t -> Row]
  BY <1>3
<1> HIDE DEF f
<1>5. \A r, s \in t : f[r] = f[s] => r = s
  BY <1>2, <1>3 DEF KeysUnique, SameKey, MoveConflict
<1> QED
  BY <1>1, <1>2, <1>3, <1>4, <1>5, LiveImage

LEMMA UnplacedCounts ==
  ASSUME NEW t, Table(t), KeysUnique(t)
  PROVE  LiveCount(Unplaced(t)) = LiveCount(t)
<1> DEFINE f == [r \in t |-> PlacedRow(r)]
<1>1. Unplaced(t) = {f[r] : r \in t}
  BY UnplacedDef
<1>2. t \subseteq Row /\ IsFiniteSet(t)
  BY DEF Table
<1>3. ASSUME NEW r \in t
      PROVE  f[r] \in Row /\ SameKey(f[r], r) /\ f[r].deleted = r.deleted
  BY <1>2, UnplacedRow DEF SameKey
<1>4. f \in [t -> Row]
  BY <1>3
<1> HIDE DEF f
<1>5. \A r, s \in t : f[r] = f[s] => r = s
  BY <1>3 DEF KeysUnique, SameKey
<1> QED
  BY <1>1, <1>2, <1>3, <1>4, <1>5, LiveImage

-----------------------------------------------------------------------------
(* What the headers of a rename make of that.                              *)

IsRename(h) == h \in Header /\ h.action = "update" /\ h.from \in Name

(* If there is an entry of the name that is renamed, there is the one the  *)
(* header was made from.                                                   *)
Ready(t, h) ==
  (\E r \in Live(t) : r.name = h.from)
    => \E r \in Live(t) : r.name = h.from /\ r.link = h.link

LEMMA RenameStep ==
  ASSUME NEW t, Table(t), KeysUnique(t), Bounded(t), NEW pos \in Position,
         NEW h, IsRename(h), IndexHeader(t, pos, h).err = "none"
  PROVE  LET edited == IndexEdit(t, pos, h)
         IN  /\ Table(edited) /\ KeysUnique(edited)
             /\ ~MoveConflict(edited, h.from, IndexedName(h))
             /\ IndexHeader(t, pos, h).db = MoveHeader(edited, h.from, IndexedName(h), pos)
             /\ \/ edited = t
                \/ \E record \in Position :
                     edited = UpdateHeaderMetadata(t, TarHeaderToDBHeader(h, record, pos))
             /\ ~h.replaces /\ edited # t => GetHeader(t, h.from) # NoRow
<1> DEFINE edited == IndexEdit(t, pos, h)
<1>1. h \in Header /\ h.from # NoName /\ OldName(h) = h.from
  BY PathsAssumption DEF IsRename, OldName
<1>2. /\ ~MoveConflict(edited, h.from, IndexedName(h))
      /\ IndexHeader(t, pos, h).db = MoveHeader(edited, h.from, IndexedName(h), pos)
  BY <1>1 DEF IsRename, IndexHeader, IndexUpdate, Indexed, Failed
<1>3. \/ edited = t
      \/ \E record \in Position :
           edited = UpdateHeaderMetadata(t, TarHeaderToDBHeader(h, record, pos))
  <2>1. CASE h.replaces
    BY <2>1 DEF IndexEdit
  <2>2. CASE ~h.replaces /\ GetHeader(t, h.from) # NoRow
    <3>1. GetHeader(t, h.from).record \in Position
      BY <2>2, GetHeaderFound DEF Live, Table, Row
    <3> QED
      BY <1>1, <2>2, <3>1 DEF IndexEdit
  <2>3. CASE ~h.replaces /\ GetHeader(t, h.from) = NoRow
    BY <1>1, <2>3 DEF IndexEdit
  <2> QED
    BY <2>1, <2>2, <2>3
<1>4. ~h.replaces /\ edited # t => GetHeader(t, h.from) # NoRow
  BY <1>1 DEF IndexEdit
<1>5. Table(edited)
  <2>1. PICK k \in Nat : Within(t, k, k)
    BY DEF Bounded
  <2>2. PICK m \in Nat : k <= m /\ pos <= m
    BY DEF Position
  <2>3. Within(t, m, m)
    BY <2>1, <2>2 DEF Within, Table, Row, Position
  <2> QED
    BY <1>1, <2>2, <2>3, EditTable
<1>6. KeysUnique(edited)
  BY <1>3, UpdateUnique
<1> QED
  BY <1>2, <1>3, <1>4, <1>5, <1>6

LEMMA RenameCounts ==
  ASSUME NEW t, Table(t), KeysUnique(t), Bounded(t), NEW pos \in Position,
         NEW h, IsRename(h), IndexHeader(t, pos, h).err = "none"
  PROVE  /\ LiveCount(t) <= LiveCount(IndexHeader(t, pos, h).db)
         /\ ~h.replaces /\ Ready(t, h) => LiveCount(IndexHeader(t, pos, h).db) = LiveCount(t)
<1> DEFINE edited == IndexEdit(t, pos, h)
           new == IndexedName(h)
<1>1. /\ Table(edited) /\ KeysUnique(edited) /\ ~MoveConflict(edited, h.from, new)
      /\ IndexHeader(t, pos, h).db = MoveHeader(edited, h.from, new, pos)
      /\ \/ edited = t
         \/ \E record \in Position :
              edited = UpdateHeaderMetadata(t, TarHeaderToDBHeader(h, record, pos))
      /\ ~h.replaces /\ edited # t => GetHeader(t, h.from) # NoRow
  BY RenameStep
<1>2. h \in Header /\ h.from \in Name /\ new \in Name
  BY IndexedNameType DEF IsRename
<1>3. LiveCount(IndexHeader(t, pos, h).db) = LiveCount(edited)
  <2> HIDE DEF edited, new
  <2> QED
    BY <1>1, <1>2, MoveCounts
<1>4. LiveCount(t) \in Nat
  BY FS_Subset, FS_CardinalityType DEF LiveCount, Live, Table
<1>5. CASE edited = t
  BY <1>3, <1>4, <1>5
<1>6. CASE edited # t
  <2>1. PICK record \in Position :
          edited = UpdateHeaderMetadata(t, TarHeaderToDBHeader(h, record, pos))
    BY <1>1, <1>6
  <2> DEFINE row == TarHeaderToDBHeader(h, record, pos)
  <2>2. row \in Row /\ ~row.deleted /\ row.name = new /\ row.link = h.link
    BY <1>2, HeaderRow DEF TarHeaderToDBHeader
  <2>3. ASSUME ~h.replaces, Ready(t, h), NEW s \in t, SameKey(s, row)
        PROVE  ~s.deleted
    <3>1. GetHeader(t, h.from) \in Live(t) /\ GetHeader(t, h.from).name = h.from
      BY <1>1, <1>6, <2>3, GetHeaderFound
    <3>2. PICK r \in Live(t) : r.name = h.from /\ r.link = h.link
      BY <2>3, <3>1 DEF Ready
    <3>3. r \in t /\ ~r.deleted
      BY <3>2 DEF Live
    <3>4. s.name = new /\ s.link = h.link
      BY <2>2, <2>3 DEF SameKey
    <3>5. CASE new = h.from
      BY <3>2, <3>3, <3>4, <3>5 DEF KeysUnique, SameKey
    <3>6. CASE new # h.from
      <4>1. r \in edited /\ row \in edited
        BY <2>1, <2>2, <2>3, <3>2, <3>3, <3>6 DEF UpdateHeaderMetadata, SameKey
      <4>2. MoveConflict(edited, h.from, new)
        BY <2>2, <3>2, <3>6, <4>1 DEF MoveConflict
      <4> QED
        BY <1>1, <4>2
    <3> QED
      BY <3>5, <3>6
  <2> HIDE DEF row, edited
  <2>4. /\ LiveCount(t) <= LiveCount(edited)
        /\ ~h.replaces /\ Ready(t, h) => LiveCount(edited) = LiveCount(t)
    BY <2>1, <2>2, <2>3, UpdateCounts DEF row
  <2> QED
    BY <1>3, <2>4
<1> QED
  BY <1>5, <1>6

(* The rows that another header renames stay what they are.                *)
LEMMA RenameKeepsReady ==
  ASSUME NEW t, Table(t), KeysUnique(t), Bounded(t), NEW pos \in Position,
         NEW h, IsRename(h), IndexHeader(t, pos, h).err = "none",
         NEW g, g.from # IndexedName(h), Ready(t, g)
  PROVE  Ready(IndexHeader(t, pos, h).db, g)
<1> DEFINE edited == IndexEdit(t, pos, h)
           new == IndexedName(h)
           done == IndexHeader(t, pos, h).db
<1>1. /\ Table(edited)
      /\ done = MoveHeader(edited, h.from, new, pos)
      /\ \/ edited = t
         \/ \E record \in Position :
              edited = UpdateHeaderMetadata(t, TarHeaderToDBHeader(h, record, pos))
  BY RenameStep
<1>2. ASSUME NEW r, r.name = g.from PROVE r \in edited <=> r \in t
  <2>1. ASSUME NEW record PROVE TarHeaderToDBHeader(h, record, pos).name = new
    BY DEF TarHeaderToDBHeader
  <2> HIDE DEF edited, new
  <2> QED
    BY <1>1, <1>2, <2>1 DEF UpdateHeaderMetadata, SameKey, new
<1>3. ASSUME NEW r \in edited, r.name = h.from
      PROVE  [r EXCEPT !.name = new, !.last = pos].name = new
  BY <1>1 DEF Table, Row
<1> HIDE DEF edited, new
<1>4. CASE g.from = h.from
  <2>1. \A r \in done : r.name # g.from
    BY <1>1, <1>3, <1>4 DEF MoveHeader, new
  <2> QED
    BY <2>1 DEF Ready, Live
<1>5. CASE g.from # h.from
  <2>1. ASSUME NEW r, r.name = g.from PROVE r \in done <=> r \in edited
    BY <1>1, <1>3, <1>5, <2>1 DEF MoveHeader, new
  <2> QED
    BY <1>2, <2>1 DEF Ready, Live
<1> QED
  BY <1>4, <1>5

(* Headers made from different rows, none of which is renamed to a name    *)
(* another is still to be renamed from.                                    *)
Orderly(t, hdrs) ==
  \A i \in 1 .. Len(hdrs) :
    /\ ~hdrs[i].replaces
    /\ \E r \in Live(t) : r.name = hdrs[i].from /\ r.link = hdrs[i].link
    /\ \A j \in i + 1 .. Len(hdrs) : hdrs[j].from # IndexedName(hdrs[i])

LEMMA RenamesCount ==
  ASSUME NEW t, Table(t), KeysUnique(t), Bounded(t), NEW hdrs \in Seq(Header),
         \A i \in 1 .. Len(hdrs) : IsRename(hdrs[i]),
         IndexedUpTo(t, 1, hdrs)[Len(hdrs)].err = "none"
  PROVE  LET done == IndexedUpTo(t, 1, hdrs)[Len(hdrs)].db
         IN  LiveCount(t) <= LiveCount(done) /\ (Orderly(t, hdrs) => LiveCount(done) = LiveCount(t))
<1> DEFINE U == IndexedUpTo(t, 1, hdrs)
           Intact(d) == Table(d) /\ Bounded(d) /\ KeysUnique(d)
           Same(d, n) ==
             Orderly(t, hdrs) => /\ LiveCount(d) = LiveCount(t)
                                 /\ \A j \in n + 1 .. Len(hdrs) : Ready(d, hdrs[j])
           Good(n) == U[n].err = "none"
                        => Intact(U[n].db) /\ LiveCount(t) <= LiveCount(U[n].db) /\ Same(U[n].db, n)
           S == {n \in 0 .. Len(hdrs) : Good(n)}
<1>0. Len(hdrs) \in Nat
  OBVIOUS
<1>1. U[0] = Indexed(t) /\ \A i \in 1 .. Len(hdrs) : U[i] = After(U[i - 1], 1 + i, hdrs[i])
  BY IndexedUpToDef
<1>2. LiveCount(t) \in Nat
  BY FS_Subset, FS_CardinalityType DEF LiveCount, Live, Table
<1>3. 0 \in S
  <2>1. U[0].db = t
    BY <1>1 DEF Indexed
  <2>2. Same(t, 0)
    BY <1>0 DEF Orderly, Ready
  <2> HIDE DEF U, Same
  <2> QED
    BY <1>0, <1>2, <2>1, <2>2
<1> HIDE DEF U
<1>4. ASSUME NEW n \in 1 .. Len(hdrs), n - 1 \in S PROVE n \in S
  <2> DEFINE d == U[n - 1].db
             h == hdrs[n]
             pos == 1 + n
  <2> SUFFICES ASSUME U[n].err = "none"
               PROVE  Intact(U[n].db) /\ LiveCount(t) <= LiveCount(U[n].db) /\ Same(U[n].db, n)
    BY <1>0
  <2>1. U[n] = After(U[n - 1], pos, h) /\ n - 1 \in 0 .. Len(hdrs)
    BY <1>0, <1>1
  <2>2. U[n - 1].err = "none" /\ U[n] = IndexHeader(d, pos, h)
    BY <2>1 DEF After
  <2>3. Intact(d) /\ LiveCount(t) <= LiveCount(d) /\ Same(d, n - 1)
    BY <1>4, <2>2
  <2>4. IsRename(h) /\ h \in Header /\ pos \in Position
    BY ElementOfSeq DEF Position
  <2> HIDE DEF d, h, pos, Same
  <2>5. Intact(U[n].db)
    <3>1. Table(U[n].db) /\ Bounded(U[n].db)
      BY <2>2, <2>3, <2>4, IndexedBounded
    <3>2. PICK k \in Nat : Within(d, k, k)
      BY <2>3 DEF Bounded
    <3>3. PICK m \in Nat : k <= m /\ pos <= m
      BY <2>4 DEF Position
    <3>4. Within(d, m, m)
      BY <2>3, <3>2, <3>3 DEF Within, Table, Row, Position
    <3>5. KeysUnique(U[n].db)
      BY <2>2, <2>3, <2>4, <3>3, <3>4, IndexedUnique
    <3> QED
      BY <3>1, <3>5
  <2>6. /\ LiveCount(d) <= LiveCount(U[n].db)
        /\ ~h.replaces /\ Ready(d, h) => LiveCount(U[n].db) = LiveCount(d)
    BY <2>2, <2>3, <2>4, RenameCounts
  <2>7. LiveCount(d) \in Nat /\ LiveCount(U[n].db) \in Nat
    BY <2>3, <2>5, FS_Subset, FS_CardinalityType DEF LiveCount, Live, Table
  <2>8. Same(U[n].db, n)
    <3> SUFFICES ASSUME Orderly(t, hdrs)
                 PROVE  /\ LiveCount(U[n].db) = LiveCount(t)
                        /\ \A j \in n + 1 .. Len(hdrs) : Ready(U[n].db, hdrs[j])
      BY DEF Same
    <3>1. LiveCount(d) = LiveCount(t) /\ \A j \in n .. Len(hdrs) : Ready(d, hdrs[j])
      BY <2>3 DEF Same
    <3>2. ~h.replaces /\ \A j \in n + 1 .. Len(hdrs) : hdrs[j].from # IndexedName(h)
      BY DEF Orderly, h
    <3>3. Ready(d, h)
      BY <1>0, <3>1 DEF h
    <3>4. ASSUME NEW j \in n + 1 .. Len(hdrs) PROVE Ready(U[n].db, hdrs[j])
      <4>1. Ready(d, hdrs[j]) /\ hdrs[j].from # IndexedName(h)
        BY <1>0, <3>1, <3>2
      <4> QED
        BY <2>2, <2>3, <2>4, <4>1, RenameKeepsReady
    <3> QED
      BY <2>6, <3>1, <3>2, <3>3, <3>4
  <2> QED
    BY <1>2, <2>3, <2>5, <2>6, <2>7, <2>8
<1>5. \A n \in 0 .. Len(hdrs) : n \in S
  <2> HIDE DEF S
  <2> QED
    BY <1>0, <1>3, <1>4, UpTo
<1> QED
  BY <1>0, <1>5 DEF U

-----------------------------------------------------------------------------
(* The rows and headers clients make of the names they use.                *)

Used == UsedIn(FileNames)

(* In a LIKE pattern a component in use matches no other one and no path of *)
(* several, and no name in use ends in the suffix of the configured        *)
(* formats.                                                                *)
PlainNames == Suffixless /\ ExactOn(Used)

(* A row or header without content, in a name of used components; only     *)
(* links have a linkname.                                                  *)
TidyEntry(x) ==
  /\ {"name", "link", "type", "replaces"} \subseteq DOMAIN x
  /\ ~x.replaces /\ (x.link # NoName => x.type = "link") /\ PlainOver(Used, x.name)
Tidy(t) == \A r \in t : TidyEntry(r)

LEMMA UsedNames ==
  ASSUME Suffixless
  PROVE  Used \in SUBSET Components /\ \A n \in FileNames : PlainOver(Used, n)
<1>1. Used \subseteq Components /\ \A n \in FileNames : n \in Name /\ n \in Seq(Used)
  BY FileSystemAssumption, UsedInType DEF Used
<1>2. ASSUME NEW n \in FileNames, n # Root PROVE Stripped[n[Len(n)]] = n[Len(n)]
  <2>1. n \in Seq(Components) /\ Len(n) \in 1 .. Len(n)
    BY <1>1, <1>2 DEF Name, Root
  <2>2. [n EXCEPT ![Len(n)] = Stripped[n[Len(n)]]] = n
    BY <1>2 DEF Suffixless, RemoveSuffix
  <2>3. [n EXCEPT ![Len(n)] = Stripped[n[Len(n)]]][Len(n)] = Stripped[n[Len(n)]]
    BY <2>1
  <2> QED
    BY <2>2, <2>3
<1> QED
  BY <1>1, <1>2 DEF PlainOver, Unsuffixed

LEMMA TidyName ==
  ASSUME Suffixless, NEW h, TidyEntry(h)
  PROVE  h.name \in Name /\ IndexedName(h) = h.name
  BY UsedNames, PlainOverIsName DEF TidyEntry, IndexedName

LEMMA TidyIndexed ==
  ASSUME Suffixless, NEW t, Tidy(t), NEW pos, NEW h, TidyEntry(h), h.action \in Actions
  PROVE  Tidy(IndexHeader(t, pos, h).db)
<1>1. IndexedName(h) = h.name /\ PlainOver(Used, h.name)
  BY TidyName DEF TidyEntry
<1>2. ASSUME NEW record PROVE TidyEntry(TarHeaderToDBHeader(h, record, pos))
  BY <1>1 DEF TidyEntry, TarHeaderToDBHeader
<1>3. CASE h.action = "create"
  BY <1>2, <1>3 DEF IndexHeader, IndexCreate, Indexed, UpsertHeader, Tidy
<1>4. CASE h.action = "delete"
  <2>1. Tidy(DeleteHeader(t, h.name, pos))
    BY DEF DeleteHeader, Tidy, TidyEntry
  <2> QED
    BY <1>1, <1>4, <2>1 DEF IndexHeader, IndexDelete, Indexed, Failed
<1>5. CASE h.action = "update"
  <2> DEFINE edited == IndexEdit(t, pos, h)
             moved == MoveHeader(edited, OldName(h), IndexedName(h), pos)
  <2>1. Tidy(edited)
    BY <1>2 DEF IndexEdit, UpdateHeaderMetadata, Tidy
  <2>2. IndexHeader(t, pos, h).db \in {edited, moved}
    BY <1>5 DEF IndexHeader, IndexUpdate, Indexed, Failed
  <2> HIDE DEF edited
  <2>3. Tidy(moved)
    BY <1>1, <2>1 DEF MoveHeader, Tidy, TidyEntry
  <2> QED
    BY <2>1, <2>2, <2>3
<1> QED
  BY <1>3, <1>4, <1>5 DEF Actions

LEMMA PerformTidies ==
  ASSUME Suffixless, Tidy(db), NEW call, NEW liberty, NEW hdrs \in Seq(Header),
         \A i \in 1 .. Len(hdrs) : TidyEntry(hdrs[i]), Perform(call, liberty, hdrs)
  PROVE  Tidy(db)'
<1> DEFINE U == IndexedUpTo(db, 1, hdrs)
           S == {n \in 0 .. Len(hdrs) : Tidy(U[n].db)}
<1>0. Len(hdrs) \in Nat
  OBVIOUS
<1>1. U[0] = Indexed(db) /\ \A i \in 1 .. Len(hdrs) : U[i] = After(U[i - 1], 1 + i, hdrs[i])
  BY IndexedUpToDef
<1>2. db' = Unplaced(U[Len(hdrs)].db)
  BY DEF Perform, Operate, IndexAll
<1> HIDE DEF U
<1>3. 0 \in S
  <2>1. U[0].db = db
    BY <1>1 DEF Indexed
  <2> QED
    BY <1>0, <2>1
<1>4. ASSUME NEW n \in 1 .. Len(hdrs), n - 1 \in S PROVE n \in S
  <2>1. Tidy(U[n - 1].db) /\ U[n] = After(U[n - 1], 1 + n, hdrs[n])
    BY <1>1, <1>4
  <2>2. TidyEntry(hdrs[n])
    OBVIOUS
  <2>3. hdrs[n].action \in Actions
    <3>1. hdrs[n] \in Header
      BY ElementOfSeq
    <3> QED
      BY <3>1 DEF Header
  <2>4. Tidy(IndexHeader(U[n - 1].db, 1 + n, hdrs[n]).db)
    BY <2>1, <2>2, <2>3, TidyIndexed
  <2> QED
    BY <2>1, <2>4 DEF After
<1> HIDE DEF S
<1>5. \A n \in 0 .. Len(hdrs) : n \in S
  BY <1>0, <1>3, <1>4, UpTo
<1>6. Tidy(U[Len(hdrs)].db)
  BY <1>0, <1>5 DEF S
<1>7. ASSUME NEW r, TidyEntry(r) PROVE TidyEntry(PlacedRow(r))
  BY <1>7 DEF TidyEntry, PlacedRow
<1>8. Tidy(Unplaced(U[Len(hdrs)].db))
  BY <1>6, <1>7, UnplacedDef DEF Tidy
<1> QED
  BY <1>2, <1>8 DEF Tidy

-----------------------------------------------------------------------------
(* The headers of removals and renames.                                    *)

(* An entry comes first, then what LIKE finds below its name.              *)
Led(t, rows, src, n) ==
  /\ rows \in Seq(t) /\ Len(rows) \in Nat \ {0} /\ rows[1] = src
  /\ \A i \in 2 .. Len(rows) : rows[i] \in GetHeaderChildren(t, n)

LEMMA LedBy ==
  ASSUME Table(db), NEW src \in db, NEW n, NEW children, NEW rows,
         rows = GetHeaderChildren(db, n) \/ rows = {}, children \in SetToSeqs(rows)
  PROVE  /\ Led(db, <<src>> \o children, src, n)
         /\ rows = {} => Len(<<src>> \o children) = 1
<1>1. rows \in SUBSET db /\ rows \subseteq GetHeaderChildren(db, n)
  BY DEF GetHeaderChildren, Live
<1>2. IsFiniteSet(rows)
  BY <1>1, FS_Subset DEF Table
<1>3. <<src>> \o children \in Seq(db)
  BY <1>1, <1>2, RowsInOrder
<1>4. children \in Seq(rows) /\ (rows = {} => Len(children) = 0)
  <2>1. Cardinality(rows) \in Nat
    BY <1>2, FS_CardinalityType
  <2>2. children \in [1 .. Cardinality(rows) -> rows]
    BY DEF SetToSeqs
  <2>3. children \in Seq(rows)
    BY <2>1, <2>2, FunctionIsSeq
  <2>4. rows = {} => Len(children) = 0
    <3>1. Len(children) \in Nat
      BY <2>3
    <3>2. Len(children) # 0 => children[1] \in rows
      BY <2>3, <3>1, ElementOfSeq
    <3> QED
      BY <3>2
  <2> QED
    BY <2>3, <2>4
<1>5. /\ Len(<<src>> \o children) = 1 + Len(children) /\ Len(children) \in Nat
      /\ (<<src>> \o children)[1] = src
      /\ \A i \in 1 .. Len(children) : (<<src>> \o children)[1 + i] = children[i]
  <2>1. <<src>> \in Seq(db) /\ children \in Seq(db)
    BY <1>1, <1>4, ElementOfSeq, SeqDef
  <2> QED
    BY <2>1, ConcatProperties
<1> DEFINE s == <<src>> \o children
<1> HIDE DEF s
<1>6. ASSUME NEW i \in 2 .. Len(s) PROVE s[i] \in GetHeaderChildren(db, n)
  <2>1. i - 1 \in 1 .. Len(children) /\ i = 1 + (i - 1)
    BY <1>5 DEF s
  <2>2. s[i] = children[i - 1]
    BY <1>5, <2>1 DEF s
  <2>3. children[i - 1] \in rows
    BY <1>4, <2>1, ElementOfSeq
  <2> QED
    BY <1>1, <2>2, <2>3
<1> QED
  BY <1>3, <1>4, <1>5, <1>6 DEF Led, s

LEMMA LedAreTidy ==
  ASSUME Table(db), Tidy(db), NEW rows, NEW src, NEW n, Led(db, rows, src, n)
  PROVE  /\ rows \in Seq(Row) /\ DOMAIN rows = 1 .. Len(rows)
         /\ \A i \in 1 .. Len(rows) : rows[i] \in Row /\ TidyEntry(rows[i])
<1>1. rows \in Seq(db) /\ db \subseteq Row
  BY DEF Led, Table
<1>2. \A i \in 1 .. Len(rows) : rows[i] \in db
  BY <1>1, ElementOfSeq
<1>3. rows \in Seq(Row) /\ DOMAIN rows = 1 .. Len(rows)
  BY <1>1, ElementOfSeq, SeqDef
<1> QED
  BY <1>1, <1>2, <1>3 DEF Tidy

LEMMA DeletionsOf ==
  ASSUME Table(db), NEW call, NEW liberty, NEW n, Lookup(db, n) # NoRow, Delete(call, liberty, n)
  PROVE  \E rows :
           /\ Led(db, rows, Lookup(db, n), n)
           /\ Perform(call, liberty, [i \in DOMAIN rows |-> DeletionHeader(rows[i])])
<1> DEFINE src == Lookup(db, n)
           rows == IF src.type = "dir" /\ src.link = NoName
                     THEN GetHeaderChildren(db, n) ELSE {}
<1>1. PICK children \in SetToSeqs(rows) :
        LET deleted == <<src>> \o children
        IN  Perform(call, liberty, [i \in DOMAIN deleted |-> DeletionHeader(deleted[i])])
  BY DEF Delete
<1>2. src \in db /\ (rows = GetHeaderChildren(db, n) \/ rows = {})
  BY LookupPlain
<1> DEFINE deleted == <<src>> \o children
<1>3. Perform(call, liberty, [i \in DOMAIN deleted |-> DeletionHeader(deleted[i])])
  BY <1>1
<1>4. Led(db, deleted, src, n)
  <2> HIDE DEF src, rows
  <2> QED
    BY <1>2, LedBy
<1> HIDE DEF deleted
<1> QED
  BY <1>3, <1>4

LEMMA RenamesOf ==
  ASSUME Table(db), NEW call, NEW from, NEW to, Lookup(db, from) # NoRow, from # to,
         Move(call, from, to)
  PROVE  \E rows, liberty :
           /\ Led(db, rows, Lookup(db, from), from)
           /\ Lookup(db, from).type # "dir" => Len(rows) = 1
           /\ Perform(call, liberty, [i \in DOMAIN rows |-> RenameHeader(rows[i], from, to)])
<1> DEFINE src == Lookup(db, from)
           rows == IF src.type = "dir" THEN GetHeaderChildren(db, from) ELSE {}
<1>1. PICK children \in SetToSeqs(rows) :
        LET moved == <<src>> \o children
        IN  Perform(call, ~PlainRename(rows \cup {src}, from, to),
                    [i \in DOMAIN moved |-> RenameHeader(moved[i], from, to)])
  BY DEF Move
<1>2. src \in db /\ (rows = GetHeaderChildren(db, from) \/ rows = {})
  BY LookupPlain
<1> DEFINE moved == <<src>> \o children
           liberty == ~PlainRename(rows \cup {src}, from, to)
<1>3. Perform(call, liberty, [i \in DOMAIN moved |-> RenameHeader(moved[i], from, to)])
  BY <1>1
<1>4. Led(db, moved, src, from) /\ (rows = {} => Len(moved) = 1)
  <2> HIDE DEF src, rows
  <2> QED
    BY <1>2, LedBy
<1>5. src.type # "dir" => Len(moved) = 1
  BY <1>4
<1> HIDE DEF moved, liberty
<1> QED
  BY <1>3, <1>4, <1>5

-----------------------------------------------------------------------------
(* The calls keep the rows tidy.                                           *)

LEMMA TidyHeaders ==
  ASSUME Suffixless, NEW r, TidyEntry(r), NEW mode, NEW from \in FileNames, NEW to \in FileNames
  PROVE  /\ TidyEntry(MetadataHeader(r, mode)) /\ TidyEntry(DeletionHeader(r))
         /\ TidyEntry(RenameHeader(r, from, to))
<1>1. PlainOver(Used, Rebase(r.name, from, to))
  BY UsedNames, RebaseIsPlainOver DEF TidyEntry
<1> QED
  BY <1>1 DEF TidyEntry, MetadataHeader, DeletionHeader, RenameHeader, HeaderOfRow

LEMMA TidyHeadersOf ==
  ASSUME Suffixless, RowsInv, Tidy(db), NEW rows, NEW src, NEW n, Led(db, rows, src, n),
         NEW from \in FileNames, NEW to \in FileNames, NEW hdrs,
         \/ hdrs = [i \in DOMAIN rows |-> DeletionHeader(rows[i])]
         \/ hdrs = [i \in DOMAIN rows |-> RenameHeader(rows[i], from, to)]
  PROVE  /\ hdrs \in Seq(Header) /\ Len(hdrs) = Len(rows)
         /\ \A i \in 1 .. Len(hdrs) : TidyEntry(hdrs[i])
<1>1. /\ rows \in Seq(Row) /\ DOMAIN rows = 1 .. Len(rows)
      /\ \A i \in 1 .. Len(rows) : TidyEntry(rows[i])
  BY LedAreTidy DEF RowsInv
<1>2. hdrs \in Seq(Header)
  BY <1>1, HeadersOf, FileSystemAssumption
<1>3. Len(hdrs) = Len(rows)
  <2>1. DOMAIN hdrs = DOMAIN rows
    OBVIOUS
  <2> QED
    BY <1>1, <1>2, <2>1
<1>4. \A i \in 1 .. Len(hdrs) : TidyEntry(hdrs[i])
  BY <1>1, <1>3, TidyHeaders
<1> QED
  BY <1>2, <1>3, <1>4

LEMMA OneTidies ==
  ASSUME Suffixless, Tidy(db), NEW call, NEW liberty, NEW h, TidyEntry(h),
         <<h>> \in Seq(Header), Perform(call, liberty, <<h>>)
  PROVE  Tidy(db)'
<1> DEFINE hdrs == <<h>>
<1>1. hdrs \in Seq(Header) /\ (\A i \in 1 .. Len(hdrs) : TidyEntry(hdrs[i]))
  OBVIOUS
<1>2. Perform(call, liberty, hdrs)
  OBVIOUS
<1> HIDE DEF hdrs
<1> QED
  BY <1>1, <1>2, PerformTidies

LEMMA MknodeTidies ==
  ASSUME Suffixless, Tidy(db), NEW call, NEW liberty, NEW type \in Types, NEW n \in FileNames,
         NEW link \in NameOrNone, link # NoName => type = "link",
         Mknode(call, liberty, type, n, link)
  PROVE  Tidy(db)'
<1> DEFINE h == NewEntry(type, n, link)
<1>1. TidyEntry(h)
  BY UsedNames DEF TidyEntry, NewEntry, ArchiveHeader
<1>2. <<h>> \in Seq(Header)
  BY MknodeHeader, FileSystemAssumption
<1>3. Perform(call, liberty, <<h>>)
  BY DEF Mknode
<1> HIDE DEF h
<1> QED
  BY <1>1, <1>2, <1>3, OneTidies

LEMMA DeleteTidies ==
  ASSUME Suffixless, RowsInv, Tidy(db), NEW call, NEW liberty, NEW n \in FileNames,
         Lookup(db, n) # NoRow, Delete(call, liberty, n)
  PROVE  Tidy(db)'
<1>1. PICK rows : /\ Led(db, rows, Lookup(db, n), n)
                  /\ Perform(call, liberty, [i \in DOMAIN rows |-> DeletionHeader(rows[i])])
  BY DeletionsOf DEF RowsInv
<1> QED
  BY <1>1, TidyHeadersOf, PerformTidies

LEMMA RemoveTidies ==
  ASSUME Suffixless, RowsInv, Tidy(db), NEW call, NEW liberty, NEW n \in FileNames,
         RemoveWithoutLocking(call, liberty, n)
  PROVE  Tidy(db)'
<1>1. CASE db' = db
  BY <1>1 DEF Tidy
<1>2. CASE IsFound(n) /\ Delete(call, liberty, n)
  BY <1>2, FoundLookup, DeleteTidies
<1> QED
  BY <1>1, <1>2 DEF RemoveWithoutLocking, Answer

LEMMA RenameTidies ==
  ASSUME Suffixless, RowsInv, Tidy(db), NEW from \in FileNames, NEW to \in FileNames,
         Rename(from, to)
  PROVE  Tidy(db)'
<1> DEFINE call == CallTo("Rename", from, to)
<1>1. CASE db' = db
  BY <1>1 DEF Tidy
<1>2. CASE IsFound(from) /\ from # to /\ Move(call, from, to)
  <2> HIDE DEF call
  <2>1. PICK rows, liberty :
          /\ Led(db, rows, Lookup(db, from), from)
          /\ Perform(call, liberty, [i \in DOMAIN rows |-> RenameHeader(rows[i], from, to)])
    BY <1>2, FoundLookup, RenamesOf DEF RowsInv
  <2> QED
    BY <2>1, TidyHeadersOf, PerformTidies
<1>3. CASE from = to /\ Move(call, from, to)
  BY <1>1, <1>3 DEF Move, Answer
<1>4. CASE RemoveWithoutLocking(call, TRUE, to)
  <2> HIDE DEF call
  <2> QED
    BY <1>4, RemoveTidies
<1> QED
  BY <1>1, <1>2, <1>3, <1>4 DEF Rename, RenameOnto, Answer

LEMMA ChmodTidies ==
  ASSUME Suffixless, RowsInv, Tidy(db), NEW n \in FileNames, Chmod(n)
  PROVE  Tidy(db)'
<1>1. CASE db' = db
  BY <1>1 DEF Tidy
<1>2. CASE db' # db
  <2>1. Target(n) # NoRow
    BY <1>2 DEF Chmod, Answer
  <2>2. PICK mode \in Modes : Perform(Call("Chmod", n), FALSE, <<MetadataHeader(Target(n), mode)>>)
    BY <1>2 DEF Chmod, Answer
  <2>3. Target(n) \in Row /\ n \in Name /\ TidyEntry(Target(n))
    BY <2>1, TargetRow, TargetPlain, FileSystemAssumption DEF RowsInv, Tidy
  <2> DEFINE h == MetadataHeader(Target(n), mode)
  <2>4. h \in Header /\ TidyEntry(h)
    BY <2>3, RowHeaders, TidyHeaders
  <2>5. Perform(Call("Chmod", n), FALSE, <<h>>)
    BY <2>2
  <2> HIDE DEF h
  <2>6. <<h>> \in Seq(Header)
    BY <2>4
  <2> QED
    BY <2>4, <2>5, <2>6, OneTidies
<1> QED
  BY <1>1, <1>2

LEMMA OpenTidies ==
  ASSUME Suffixless, RowsInv, Tidy(db), NEW call, NEW n \in FileNames, NEW flags,
         Open(call, n, flags)
  PROVE  Tidy(db)'
<1>1. CASE db' = db
  BY <1>1 DEF Tidy
<1>2. CASE MakeFile(call, n)
  BY <1>2, FileIsMade, MknodeTidies DEF Types, NameOrNone
<1> QED
  BY <1>1, <1>2 DEF Open, CreateFile, Answer

LEMMA CallsTidy ==
  ASSUME Suffixless, RowsInv, Tidy(db), Next
  PROVE  Tidy(db)'
<1>1. CASE db' = db
  BY <1>1 DEF Tidy
<1>2. ASSUME NEW n \in FileNames, Create(n) PROVE Tidy(db)'
  BY <1>1, <1>2, OpenTidies DEF Create, Answer
<1>3. ASSUME NEW n \in FileNames, Mkdir(n) \/ MkdirAll(n) PROVE Tidy(db)'
  <2>1. CASE \E call : Mknode(call, Astray(n), "dir", n, NoName)
    BY <2>1, MknodeTidies DEF Types, NameOrNone
  <2> QED
    BY <1>1, <1>3, <2>1 DEF Mkdir, MkdirAll, Answer
<1>4. ASSUME NEW old \in FileNames, NEW n \in FileNames, SymlinkIfPossible(old, n)
      PROVE  Tidy(db)'
  <2>1. CASE \E call : Mknode(call, TRUE, "link", old, n)
    <3>1. n \in NameOrNone
      BY FileSystemAssumption DEF NameOrNone
    <3> QED
      BY <2>1, <3>1, MknodeTidies DEF Types
  <2> QED
    BY <1>1, <1>4, <2>1 DEF SymlinkIfPossible, MakeLink, Answer
<1>5. ASSUME NEW n \in FileNames, RemoveEntry(n) PROVE Tidy(db)'
  BY <1>5, RemoveTidies DEF RemoveEntry
<1>6. ASSUME NEW n \in FileNames, RemoveAll(n) PROVE Tidy(db)'
  BY <1>1, <1>6, DeleteTidies DEF RemoveAll
<1>7. ASSUME NEW n \in FileNames, LstatIfPossible(n) PROVE Tidy(db)'
  BY <1>1, <1>7 DEF LstatIfPossible, Answer
<1>8. ASSUME NEW n \in FileNames, NEW flags \in SUBSET Flags, OpenFile(n, flags)
      PROVE  Tidy(db)'
  BY <1>8, OpenTidies DEF OpenFile
<1> QED
  BY <1>2, <1>3, <1>4, <1>5, <1>6, <1>7, <1>8, ChmodTidies, RenameTidies DEF Next

LEMMA InitTidy ==
  ASSUME Init
  PROVE  Tidy(db)
<1> DEFINE h == RootHeader(NewMode)
           row == TarHeaderToDBHeader(h, 1, 1)
<1>1. /\ h.name = Root /\ h.link = NoName /\ h.type = "dir" /\ h.action = "create"
      /\ ~h.replaces
  BY DEF RootHeader, ArchiveHeader
<1> HIDE DEF h
<1>2. db = {row}
  BY <1>1 DEF Init, IndexHeader, IndexCreate, Indexed, UpsertHeader, h
<1>3. PlainOver(Used, Root)
  BY DEF PlainOver, Unsuffixed, Root
<1>4. TidyEntry(row)
  BY <1>1, <1>3 DEF TarHeaderToDBHeader, IndexedName, TidyEntry
<1> QED
  BY <1>2, <1>4 DEF Tidy

-----------------------------------------------------------------------------
(* A rename keeps as many entries.                                         *)

(* Indexing ends with one of these errors.                                 *)
LEMMA IndexedErr ==
  ASSUME NEW t, NEW hdrs \in Seq(Header)
  PROVE  IndexedUpTo(t, 1, hdrs)[Len(hdrs)].err \in Errors
<1> DEFINE U == IndexedUpTo(t, 1, hdrs)
           S == {n \in 0 .. Len(hdrs) : U[n].err \in Errors}
<1>0. Len(hdrs) \in Nat
  OBVIOUS
<1>1. U[0] = Indexed(t) /\ \A i \in 1 .. Len(hdrs) : U[i] = After(U[i - 1], 1 + i, hdrs[i])
  BY IndexedUpToDef
<1> HIDE DEF U
<1>2. 0 \in S
  BY <1>0, <1>1 DEF Indexed, Errors
<1>3. ASSUME NEW n \in 1 .. Len(hdrs), n - 1 \in S PROVE n \in S
  <2>1. U[n - 1].err \in Errors /\ U[n] = After(U[n - 1], 1 + n, hdrs[n])
    BY <1>1, <1>3
  <2>2. hdrs[n] \in Header
    BY ElementOfSeq
  <2>3. IndexHeader(U[n - 1].db, 1 + n, hdrs[n]).err \in Errors
    BY <2>2 DEF Header, Actions, IndexHeader, IndexCreate, IndexDelete, IndexUpdate, Indexed,
                Failed, Errors
  <2> QED
    BY <2>1, <2>3 DEF After
<1> HIDE DEF S
<1>4. \A n \in 0 .. Len(hdrs) : n \in S
  BY <1>0, <1>2, <1>3, UpTo
<1> QED
  BY <1>0, <1>4 DEF S, U

(* What is renamed out of a directory does not end up in it again.         *)
LEMMA RebaseLeaves ==
  ASSUME NEW from \in Name, NEW to \in Name, from # to, ~Below(to, from), ~Below(from, to),
         NEW n \in Name, n = from \/ Below(n, from), NEW m, m = from \/ Below(m, from)
  PROVE  m # Rebase(n, from, to)
<1> DEFINE rest == SubSeq(n, Len(from) + 1, Len(n))
           k == to \o rest
<1>1. Rebase(n, from, to) = k
  BY DEF Rebase
<1>2. from \in Seq(Components) /\ to \in Seq(Components) /\ n \in Seq(Components)
  BY DEF Name
<1>3. Len(from) \in Nat /\ Len(to) \in Nat /\ Len(n) \in Nat /\ Len(from) <= Len(n)
  BY <1>2 DEF Below
<1>4. rest \in Seq(Components)
  <2>1. \A i \in Len(from) + 1 .. Len(n) : n[i] \in Components
    BY <1>2, <1>3, ElementOfSeq
  <2> QED
    BY <1>3, <2>1, SubSeqProperties
<1> HIDE DEF rest
<1>5. /\ k \in Seq(Components) /\ Len(k) \in Nat /\ Len(to) <= Len(k)
      /\ \A i \in 1 .. Len(to) : k[i] = to[i]
  BY <1>2, <1>4, ConcatProperties
<1> HIDE DEF k
<1> SUFFICES ASSUME k = from \/ Below(k, from) PROVE FALSE
  BY <1>1
<1>6. Len(from) <= Len(k) /\ \A i \in 1 .. Len(from) : k[i] = from[i]
  <2>1. CASE k = from
    BY <1>3, <2>1
  <2>2. CASE Below(k, from)
    <3>1. Len(from) <= Len(k) /\ SubSeq(k, 1, Len(from)) = from
      BY <1>3, <1>5, <2>2 DEF Below
    <3>2. \A i \in 1 .. Len(from) : SubSeq(k, 1, Len(from))[i] = k[i]
      BY <1>3, <1>5, <3>1
    <3> QED
      BY <3>1, <3>2
  <2> QED
    BY <2>1, <2>2
<1>7. \A i \in 1 .. Len(to) : i <= Len(from) => to[i] = from[i]
  BY <1>3, <1>5, <1>6
<1>8. CASE Len(to) = Len(from)
  BY <1>2, <1>3, <1>7, <1>8
<1>9. ASSUME NEW p \in Seq(Components), NEW q \in Seq(Components), Len(p) < Len(q),
             \A i \in 1 .. Len(p) : p[i] = q[i]
      PROVE  Below(q, p)
  <2>1. Len(p) \in Nat /\ Len(q) \in Nat /\ \A i \in 1 .. Len(p) : q[i] \in Components
    BY <1>9, ElementOfSeq
  <2>2. /\ SubSeq(q, 1, Len(p)) \in Seq(Components) /\ Len(SubSeq(q, 1, Len(p))) = Len(p)
        /\ \A i \in 1 .. Len(p) : SubSeq(q, 1, Len(p))[i] = q[i]
    BY <1>9, <2>1
  <2>3. SubSeq(q, 1, Len(p)) = p
    <3> DEFINE s == SubSeq(q, 1, Len(p))
    <3>1. s \in Seq(Components) /\ Len(s) = Len(p) /\ \A i \in 1 .. Len(p) : s[i] = p[i]
      BY <1>9, <2>2
    <3> HIDE DEF s
    <3>2. s = p
      BY <1>9, <3>1
    <3> QED
      BY <3>2 DEF s
  <2> QED
    BY <1>9, <2>3 DEF Below
<1>10. CASE Len(to) < Len(from)
  BY <1>2, <1>3, <1>7, <1>9, <1>10
<1>11. CASE Len(from) < Len(to)
  <2>1. \A i \in 1 .. Len(from) : from[i] = to[i]
    BY <1>3, <1>7, <1>11
  <2> QED
    BY <1>2, <1>9, <1>11, <2>1
<1> QED
  BY <1>3, <1>8, <1>10, <1>11

LEMMA LookupFound ==
  ASSUME NEW n, Lookup(db, n) # NoRow
  PROVE  /\ Lookup(db, n) \in Live(db)
         /\ Lookup(db, n).name = n \/ Lookup(db, n).link = n
<1>1. ASSUME GetHeaderByLinkname(db, n) # NoRow
      PROVE  GetHeaderByLinkname(db, n) \in {r \in Live(db) : r.link = n}
  BY <1>1, FirstIsMember DEF GetHeaderByLinkname, First
<1> QED
  BY <1>1, GetHeaderFound DEF Lookup

(* Without a link in the lead, all names are in the directory.             *)
LEMMA LedBelow ==
  ASSUME PlainNames, RowsInv, Tidy(db), NEW n \in FileNames, NEW rows, NEW src,
         Led(db, rows, src, n), src.name = n
  PROVE  \A i \in 1 .. Len(rows) : rows[i].name = n \/ Below(rows[i].name, n)
<1>1. rows[1].name = n
  BY DEF Led
<1>2. ASSUME NEW i \in 2 .. Len(rows) PROVE Below(rows[i].name, n)
  <2>1. LikeBelow(rows[i].name, n) /\ i \in 1 .. Len(rows)
    BY DEF Led, GetHeaderChildren
  <2>2. PlainOver(Used, rows[i].name) /\ PlainOver(Used, n)
    BY <2>1, LedAreTidy, UsedNames DEF RowsInv, TidyEntry, PlainNames
  <2> QED
    BY <2>1, <2>2, LikeIsBelowOver DEF PlainNames
<1>3. \A i \in 1 .. Len(rows) : i = 1 \/ i \in 2 .. Len(rows)
  BY DEF Led
<1> QED
  BY <1>1, <1>2, <1>3

LEMMA MoveCounted ==
  ASSUME PlainNames, RowsInv, Tidy(db), NEW call, NEW from \in FileNames, NEW to \in FileNames,
         from # to, Lookup(db, from) # NoRow, Move(call, from, to), last'.res = "ok"
  PROVE  /\ LiveCount(db) <= LiveCount(db')
         /\ Below(to, from) \/ Below(from, to) \/ LiveCount(db') = LiveCount(db)
<1> DEFINE src == Lookup(db, from)
<1>1. PICK rows, liberty :
        /\ Led(db, rows, src, from) /\ (src.type # "dir" => Len(rows) = 1)
        /\ Perform(call, liberty, [i \in DOMAIN rows |-> RenameHeader(rows[i], from, to)])
  BY RenamesOf DEF RowsInv
<1> DEFINE hdrs == [i \in DOMAIN rows |-> RenameHeader(rows[i], from, to)]
<1>2. /\ hdrs \in Seq(Header) /\ Len(hdrs) = Len(rows)
      /\ \A i \in 1 .. Len(hdrs) : TidyEntry(hdrs[i])
  <2> HIDE DEF src
  <2> QED
    BY <1>1, TidyHeadersOf DEF PlainNames
<1>3. /\ rows \in Seq(Row) /\ DOMAIN rows = 1 .. Len(rows)
      /\ \A i \in 1 .. Len(rows) : rows[i] \in Row /\ TidyEntry(rows[i])
  <2> HIDE DEF src
  <2> QED
    BY <1>1, LedAreTidy DEF RowsInv
<1>4. ASSUME NEW i \in 1 .. Len(rows)
      PROVE  /\ hdrs[i].action = "update" /\ hdrs[i].from = rows[i].name
             /\ hdrs[i].link = rows[i].link /\ hdrs[i].name = Rebase(rows[i].name, from, to)
  BY <1>3 DEF RenameHeader, HeaderOfRow
<1>5. Perform(call, liberty, hdrs)
  BY <1>1
<1> HIDE DEF hdrs, src
<1>6. ASSUME NEW i \in 1 .. Len(rows) PROVE IsRename(hdrs[i])
  <2>1. hdrs[i] \in Header
    BY <1>2, ElementOfSeq
  <2>2. rows[i].name \in Name
    BY <1>3 DEF Row
  <2> QED
    BY <1>4, <2>1, <2>2 DEF IsRename
<1>7. Table(db) /\ KeysUnique(db) /\ Bounded(db)
  <2>1. Within(db, 1, 1) /\ 1 \in Nat
    BY DEF RowsInv, Placed, Within
  <2> QED
    BY <2>1 DEF Bounded, RowsInv
<1> DEFINE done == IndexedUpTo(db, 1, hdrs)[Len(hdrs)]
<1>8. db' = Unplaced(done.db) /\ done.err = "none"
  <2>1. last'.res = IF done.err = "none" THEN "ok" ELSE done.err
    BY <1>5 DEF Perform, Operate, IndexAll
  <2>2. done.err # "ok"
    BY <1>2, IndexedErr DEF Errors
  <2> QED
    BY <1>5, <2>1, <2>2 DEF Perform, Operate, IndexAll
<1>9. LiveCount(db') = LiveCount(done.db)
  <2>1. Table(done.db) /\ KeysUnique(done.db)
    BY <1>2, <1>7, IndexedUpToKeeps
  <2> HIDE DEF done
  <2> QED
    BY <1>8, <2>1, UnplacedCounts
<1>10. LiveCount(db) <= LiveCount(done.db) /\ (Orderly(db, hdrs) => LiveCount(done.db) = LiveCount(db))
  BY <1>2, <1>6, <1>7, <1>8, RenamesCount
<1>11. ASSUME ~Below(to, from), ~Below(from, to) PROVE Orderly(db, hdrs)
  <2>1. ASSUME NEW i \in 1 .. Len(hdrs)
        PROVE  \E r \in Live(db) : r.name = hdrs[i].from /\ r.link = hdrs[i].link
    <3>1. rows[i] \in Live(db)
      <4>1. i = 1 \/ i \in 2 .. Len(rows)
        BY <1>2 DEF Led
      <4> QED
        BY <1>1, <4>1, LookupFound DEF Led, GetHeaderChildren, src
    <3> QED
      BY <1>2, <1>4, <3>1
  <2>2. ASSUME NEW i \in 1 .. Len(hdrs), NEW j \in i + 1 .. Len(hdrs)
        PROVE  hdrs[j].from # IndexedName(hdrs[i])
    <3>1. /\ i \in 1 .. Len(rows) /\ j \in 1 .. Len(rows) /\ Len(rows) # 1
      BY <1>1, <1>2 DEF Led
    <3>2. src.type = "dir" /\ src \in Live(db) /\ TidyEntry(src)
      BY <1>1, <3>1, LookupFound DEF src, Tidy, Live
    <3>3. from \in Name /\ to \in Name /\ from # NoName
      BY FileSystemAssumption, PathsAssumption
    <3>4. src.name = from
      BY <3>2, <3>3, LookupFound DEF src, TidyEntry
    <3>5. \A k \in 1 .. Len(rows) : rows[k].name = from \/ Below(rows[k].name, from)
      BY <1>1, <3>4, LedBelow
    <3>6. rows[i].name \in Name
      BY <1>3, <3>1 DEF Row
    <3>7. rows[j].name # Rebase(rows[i].name, from, to)
      BY <1>11, <3>1, <3>3, <3>5, <3>6, RebaseLeaves
    <3>8. IndexedName(hdrs[i]) = hdrs[i].name
      BY <1>2, TidyName DEF PlainNames
    <3> QED
      BY <1>4, <3>1, <3>7, <3>8
  <2>3. \A i \in 1 .. Len(hdrs) : ~hdrs[i].replaces
    BY <1>2 DEF TidyEntry
  <2> QED
    BY <2>1, <2>2, <2>3 DEF Orderly
<1> QED
  BY <1>9, <1>10, <1>11

-----------------------------------------------------------------------------
(* Which call a rename is.                                                 *)

LEMMA OnlyRename ==
  ASSUME Next, last'.call.op = "Rename"
  PROVE  \E from, to \in FileNames :
           /\ Rename(from, to)
           /\ last'.call.name = from /\ last'.call.to = to
<1>1. ASSUME NEW op, NEW n, NEW to, NEW flags, op # "Rename",
             last'.call = CallWith(op, n, to, flags)
      PROVE  FALSE
  BY <1>1 DEF CallWith
<1>2. ASSUME NEW call, NEW n, NEW flags, Open(call, n, flags)
      PROVE  last'.call = call
  <2>1. CASE \E res : Answer(call, res)
    BY <2>1 DEF Answer
  <2>2. CASE MakeFile(call, n)
    BY <2>2 DEF MakeFile
  <2> QED
    BY <1>2, <2>1, <2>2 DEF Open, CreateFile
<1>3. ASSUME NEW n \in FileNames, Create(n) PROVE FALSE
  <2>1. last'.call = Call("Create", n)
    BY <1>2, <1>3 DEF Create, Answer
  <2> QED
    BY <1>1, <2>1 DEF Call
<1>4. ASSUME NEW n \in FileNames, Mkdir(n) PROVE FALSE
  <2>1. last'.call = Call("Mkdir", n)
    BY <1>4, PerformTells DEF Mkdir, Answer, Mknode
  <2> QED
    BY <1>1, <2>1 DEF Call
<1>5. ASSUME NEW n \in FileNames, MkdirAll(n) PROVE FALSE
  <2>1. last'.call = Call("MkdirAll", n)
    BY <1>5, PerformTells DEF MkdirAll, Answer, Mknode
  <2> QED
    BY <1>1, <2>1 DEF Call
<1>6. ASSUME NEW n \in FileNames, RemoveEntry(n) PROVE FALSE
  <2>1. last'.call = Call("Remove", n)
    BY <1>6, RemoveTells DEF RemoveEntry
  <2> QED
    BY <1>1, <2>1 DEF Call
<1>7. ASSUME NEW n \in FileNames, RemoveAll(n) PROVE FALSE
  <2>1. last'.call = Call("RemoveAll", n)
    BY <1>7, RemoveTells DEF RemoveAll
  <2> QED
    BY <1>1, <2>1 DEF Call
<1>8. ASSUME NEW n \in FileNames, Chmod(n) PROVE FALSE
  BY <1>1, <1>8, ChmodTells DEF Call
<1>9. ASSUME NEW n \in FileNames, LstatIfPossible(n) PROVE FALSE
  <2>1. last'.call = Call("Lstat", n)
    BY <1>9 DEF LstatIfPossible, Answer
  <2> QED
    BY <1>1, <2>1 DEF Call
<1>10. ASSUME NEW n \in FileNames, NEW flags \in SUBSET Flags, OpenFile(n, flags) PROVE FALSE
  BY <1>1, <1>2, <1>10 DEF OpenFile
<1>11. ASSUME NEW from \in FileNames, NEW to \in FileNames, SymlinkIfPossible(from, to)
       PROVE  FALSE
  <2> DEFINE call == CallTo("Symlink", from, to)
  <2>1. CASE \E res : Answer(call, res)
    BY <1>1, <2>1 DEF Answer, CallTo
  <2>2. CASE \E liberty, hdrs : Perform(call, liberty, hdrs)
    <3>1. last'.call = call
      BY <2>2, PerformTells
    <3> QED
      BY <1>1, <3>1 DEF CallTo
  <2> QED
    BY <1>11, <2>1, <2>2 DEF SymlinkIfPossible, MakeLink, Mknode
<1>12. ASSUME NEW from \in FileNames, NEW to \in FileNames, Rename(from, to)
       PROVE  last'.call.name = from /\ last'.call.to = to
  <2>1. last'.call = CallTo("Rename", from, to)
    BY <1>12, RenameTells
  <2> QED
    BY <2>1 DEF CallTo, CallWith
<1> QED
  BY <1>3, <1>4, <1>5, <1>6, <1>7, <1>8, <1>9, <1>10, <1>11, <1>12 DEF Next

LEMMA RenameCounted ==
  ASSUME PlainNames, RowsInv, Tidy(db), NEW from \in FileNames, NEW to \in FileNames,
         Rename(from, to), last'.res = "ok", StatName(to) = NoRow
  PROVE  /\ LiveCount(db) <= LiveCount(db')
         /\ Below(to, from) \/ Below(from, to) \/ LiveCount(db') = LiveCount(db)
<1> DEFINE call == CallTo("Rename", from, to)
<1>1. CASE db' = db
  <2>1. LiveCount(db) \in Nat
    BY FS_Subset, FS_CardinalityType DEF LiveCount, Live, RowsInv, Table
  <2> QED
    BY <1>1, <2>1
<1>2. CASE IsFound(from) /\ from # to /\ Move(call, from, to)
  <2> HIDE DEF call
  <2> QED
    BY <1>2, FoundLookup, MoveCounted
<1>3. CASE from = to /\ Move(call, from, to)
  BY <1>1, <1>3 DEF Move, Answer
<1> QED
  BY <1>1, <1>2, <1>3 DEF Rename, Answer

(* A rename to a free name loses no entry, and gains none unless one name  *)
(* lies below the other (Rename of pkg/fs/filesystem.go and                *)
(* Operations.Move), for any number of names, links and free calls, as     *)
(* long as in a LIKE pattern the components in use match only themselves.  *)
THEOREM RenameNeverLoses ==
  ASSUME PlainNames
  PROVE  TreeSpec => RenameLosesNothing
<1> DEFINE Inv == RowsInv /\ Tidy(db)
           Loses ==
             last'.call.op = "Rename" /\ last'.res = "ok" /\ StatName(last'.call.to) = NoRow =>
               /\ LiveCount(db) <= LiveCount(db')
               /\ \/ Below(last'.call.to, last'.call.name)
                  \/ Below(last'.call.name, last'.call.to)
                  \/ LiveCount(db') = LiveCount(db)
<1>1. TreeInit => Inv
  BY InitKeeps, InitTidy DEF TreeInit
<1>2. Inv /\ [TreeNext]_<<fsVars, tree>> => Inv'
  <2> SUFFICES ASSUME Inv, [TreeNext]_<<fsVars, tree>> PROVE Inv'
    OBVIOUS
  <2>1. CASE UNCHANGED <<fsVars, tree>>
    BY <2>1 DEF fsVars, RowsInv, Tidy
  <2>2. CASE TreeNext
    BY <2>2, CallsKeep, CallsTidy DEF TreeNext, PlainNames
  <2> QED
    BY <2>1, <2>2
<1>3. Inv /\ [TreeNext]_<<fsVars, tree>> => [Loses]_<<fsVars, tree>>
  <2> SUFFICES ASSUME Inv, TreeNext, last'.call.op = "Rename", last'.res = "ok",
                      StatName(last'.call.to) = NoRow
               PROVE  Loses
    OBVIOUS
  <2>1. Next
    BY DEF TreeNext
  <2>2. PICK from \in FileNames, to \in FileNames :
          Rename(from, to) /\ last'.call.name = from /\ last'.call.to = to
    BY <2>1, OnlyRename
  <2> QED
    BY <2>2, RenameCounted
<1>4. Inv /\ [TreeNext]_<<fsVars, tree>>
        => [last'.call.op = "Rename" /\ last'.res = "ok" /\ StatName(last'.call.to) = NoRow =>
              /\ Cardinality(Live(db)) <= Cardinality(Live(db'))
              /\ \/ Below(last'.call.to, last'.call.name) \/ Below(last'.call.name, last'.call.to)
                 \/ Cardinality(Live(db')) = Cardinality(Live(db))]_<<fsVars, tree>>
  BY <1>3 DEF LiveCount
<1> QED
  BY <1>1, <1>2, <1>4, PTL DEF TreeSpec, RenameLosesNothing

-----------------------------------------------------------------------------
(* Trees.                                                                  *)

(* Every entry but the root lies in a directory.                           *)
Rooted(f) ==
  /\ Root \in DOMAIN f /\ f[Root].type = "dir"
  /\ \A n \in DOMAIN f : n # Root => Parent(n) \in DOMAIN f /\ f[Parent(n)].type = "dir"

(* So do all directories above it.                                         *)
LEMMA AllAbove ==
  ASSUME NEW f, Rooted(f), DOMAIN f \subseteq Name, NEW n \in DOMAIN f, NEW k \in 0 .. Len(n)
  PROVE  /\ SubSeq(n, 1, k) \in DOMAIN f
         /\ k < Len(n) => f[SubSeq(n, 1, k)].type = "dir"
<1> DEFINE Above(j) == SubSeq(n, 1, Len(n) - j)
           S == {j \in 0 .. Len(n) : /\ Above(j) \in DOMAIN f
                                     /\ j > 0 => f[Above(j)].type = "dir"}
<1>0. n \in Name /\ Len(n) \in Nat
  BY DEF Name
<1>1. 0 \in S
  <2>1. SubSeq(n, 1, Len(n)) \in Name /\ Len(SubSeq(n, 1, Len(n))) = Len(n)
        /\ \A i \in 1 .. Len(n) : SubSeq(n, 1, Len(n))[i] = n[i]
    BY <1>0, PrefixOf
  <2>2. SubSeq(n, 1, Len(n)) = n
    BY <1>0, <2>1, SeqEqual DEF Name
  <2>3. Above(0) = n
    BY <1>0, <2>2
  <2> HIDE DEF Above
  <2> QED
    BY <1>0, <2>3
<1>2. ASSUME NEW j \in 1 .. Len(n), j - 1 \in S PROVE j \in S
  <2> DEFINE x == Above(j - 1)
  <2>1. Len(n) - (j - 1) \in 0 .. Len(n) /\ Len(n) - (j - 1) = Len(n) - j + 1 /\ Len(n) - j \in 0 .. Len(n)
    BY <1>0
  <2>2. /\ x \in Name /\ Len(x) = Len(n) - j + 1
        /\ \A i \in 1 .. Len(n) - j + 1 : x[i] = n[i]
    BY <1>0, <2>1, PrefixOf
  <2>3. x \in DOMAIN f
    BY <1>2
  <2> HIDE DEF x
  <2>4. x # Root
    BY <2>1, <2>2 DEF Root
  <2>5. Parent(x) \in DOMAIN f /\ f[Parent(x)].type = "dir"
    BY <2>3, <2>4 DEF Rooted
  <2>6. Parent(x) = Above(j)
    <3>1. Len(x) - 1 = Len(n) - j /\ Len(n) - j \in 0 .. Len(x)
      BY <2>1, <2>2
    <3>2. /\ SubSeq(x, 1, Len(n) - j) \in Name /\ Len(SubSeq(x, 1, Len(n) - j)) = Len(n) - j
          /\ \A i \in 1 .. Len(n) - j : SubSeq(x, 1, Len(n) - j)[i] = x[i]
      BY <2>2, <3>1, PrefixOf
    <3>3. /\ Above(j) \in Name /\ Len(Above(j)) = Len(n) - j
          /\ \A i \in 1 .. Len(n) - j : Above(j)[i] = n[i]
      BY <1>0, <2>1, PrefixOf
    <3>4. \A i \in 1 .. Len(n) - j : i \in 1 .. Len(n) - j + 1
      BY <2>1
    <3> HIDE DEF Above
    <3>5. SubSeq(x, 1, Len(n) - j) = Above(j)
      BY <2>2, <3>2, <3>3, <3>4, SeqEqual DEF Name
    <3> QED
      BY <3>1, <3>5 DEF Parent
  <2> QED
    BY <2>5, <2>6
<1>3. \A j \in 0 .. Len(n) : j \in S
  <2> HIDE DEF S
  <2> QED
    BY <1>0, <1>1, <1>2, UpTo
<1>4. Len(n) - k \in S /\ Len(n) - (Len(n) - k) = k
  BY <1>0, <1>3
<1> QED
  BY <1>0, <1>4

(* What something lies below is there, and is a directory.                 *)
LEMMA AboveIsDir ==
  ASSUME NEW f, Rooted(f), DOMAIN f \subseteq Name, NEW m \in DOMAIN f, NEW n \in Name, Below(m, n)
  PROVE  n \in DOMAIN f /\ f[n].type = "dir"
<1>1. Len(n) \in 0 .. Len(m) /\ Len(n) < Len(m) /\ SubSeq(m, 1, Len(n)) = n
  BY DEF Below, Name
<1> QED
  BY <1>1, AllAbove

(* Then something lies directly in it.                                     *)
LEMMA ChildAbove ==
  ASSUME NEW f, Rooted(f), DOMAIN f \subseteq Name, NEW m \in DOMAIN f, NEW n \in Name, Below(m, n)
  PROVE  \E c \in DOMAIN f : Below(c, n) /\ Len(c) = Len(n) + 1
<1> DEFINE k == Len(n) + 1
           c == SubSeq(m, 1, k)
<1>1. m \in Name /\ Len(n) \in Nat /\ Len(m) \in Nat /\ k \in 0 .. Len(m)
  BY DEF Below, Name
<1>2. /\ c \in Name /\ Len(c) = k
      /\ \A i \in 1 .. k : c[i] = m[i]
  BY <1>1, PrefixOf
<1>3. c \in DOMAIN f
  BY <1>1, AllAbove
<1> HIDE DEF c
<1>4. \A i \in 1 .. Len(n) : m[i] = n[i]
  BY <1>1, BelowIs
<1>5. Below(c, n)
  BY <1>1, <1>2, <1>4, BelowIs
<1> QED
  BY <1>2, <1>3, <1>5

-----------------------------------------------------------------------------
(* The index as clients leave it that take no liberty.                     *)

(* There are no links, and no row keeps that it was renamed.               *)
Simple(t) ==
  /\ Table(t) /\ KeysUnique(t) /\ Tidy(t)
  /\ \A r \in t : r.link = NoName /\ r.from = NoName /\ r.type # "link"

(* Rows are told apart by name.                                            *)
LEMMA SimpleByName ==
  ASSUME NEW t, Simple(t), NEW r \in t, NEW s \in t, r.name = s.name
  PROVE  r = s
  BY DEF Simple, KeysUnique, SameKey

(* What a row of a tidy table without links is.                            *)
LEMMA SimpleRow ==
  ASSUME NEW t, Simple(t), NEW r \in t
  PROVE  /\ r \in Row /\ r.name \in Name /\ r.type \in {"dir", "reg"} /\ r.mode \in Modes
         /\ r.deleted \in BOOLEAN /\ ~r.replaces /\ r.link = NoName /\ r.from = NoName
  BY DEF Simple, Table, Row, Types, Tidy, TidyEntry

(* Such a row, when live, is found under its name, and is an entry of the  *)
(* tree.                                                                   *)
LEMMA SimpleLive ==
  ASSUME NEW t, Simple(t), NEW r \in Live(t)
  PROVE  /\ GetHeader(t, r.name) = r /\ r # NoRow
         /\ r.name \in DOMAIN TreeOf(t) /\ TreeOf(t)[r.name] = Seen(r)
<1>1. IsReal(t, r) /\ t \in SUBSET Row /\ KeysUnique(t)
  BY DEF IsReal, Live, Simple, Table
<1> QED
  BY <1>1, RealIsFound, TreeAt

(* A name is found in the index when it is in the tree.                    *)
LEMMA SimpleFound ==
  ASSUME NEW t, Simple(t), NEW n
  PROVE  /\ n \in DOMAIN TreeOf(t) <=> GetHeader(t, n) # NoRow
         /\ n \in DOMAIN TreeOf(t) =>
              /\ GetHeader(t, n) \in Live(t) /\ GetHeader(t, n).name = n
              /\ TreeOf(t)[n] = Seen(GetHeader(t, n))
         /\ n \in Name => GetHeaderByLinkname(t, n) = NoRow
<1>1. ASSUME n \in DOMAIN TreeOf(t)
      PROVE  /\ GetHeader(t, n) # NoRow /\ GetHeader(t, n) \in Live(t) /\ GetHeader(t, n).name = n
             /\ TreeOf(t)[n] = Seen(GetHeader(t, n))
  <2>1. t \in SUBSET Row /\ KeysUnique(t)
    BY DEF Simple, Table
  <2>2. PICK r : IsReal(t, r) /\ r.name = n
    BY <1>1, <2>1, TreeAt
  <2> QED
    BY <2>2, SimpleLive DEF IsReal
<1>2. ASSUME GetHeader(t, n) # NoRow
      PROVE  n \in DOMAIN TreeOf(t)
  <2>1. GetHeader(t, n) \in Live(t) /\ GetHeader(t, n).name = n
    BY <1>2, GetHeaderFound
  <2> QED
    BY <2>1, SimpleLive
<1>3. ASSUME n \in Name PROVE GetHeaderByLinkname(t, n) = NoRow
  <2>1. {r \in Live(t) : r.link = n} = {}
    BY <1>3, PathsAssumption DEF Live, Simple
  <2> QED
    BY <2>1 DEF GetHeaderByLinkname, First
<1> QED
  BY <1>1, <1>2, <1>3

(* The names of the tree are plain, its entries directories or files.      *)
LEMMA SimpleNames ==
  ASSUME NEW t, Simple(t)
  PROVE  /\ DOMAIN TreeOf(t) \subseteq Name
         /\ \A n \in DOMAIN TreeOf(t) :
              PlainOver(Used, n) /\ TreeOf(t)[n].type \in {"dir", "reg"} /\ TreeOf(t)[n].mode \in Modes
<1> SUFFICES ASSUME NEW n \in DOMAIN TreeOf(t)
             PROVE  /\ n \in Name /\ PlainOver(Used, n)
                    /\ TreeOf(t)[n].type \in {"dir", "reg"} /\ TreeOf(t)[n].mode \in Modes
  OBVIOUS
<1> DEFINE r == GetHeader(t, n)
<1>1. r \in t /\ r.name = n /\ TreeOf(t)[n] = Seen(r)
  BY SimpleFound DEF Live
<1> HIDE DEF r
<1>2. PlainOver(Used, r.name)
  BY <1>1 DEF Simple, Tidy, TidyEntry
<1> QED
  BY <1>1, <1>2, SimpleRow DEF Seen

(* What the calls look up.                                                 *)
LEMMA SimpleLooks ==
  ASSUME Simple(db), NEW n \in Name
  PROVE  /\ StatName(n) = GetHeader(db, n) /\ StatLink(n) = NoRow
         /\ IsFound(n) <=> n \in DOMAIN Tree
         /\ Found(n) = GetHeader(db, n) /\ Target(n) = GetHeader(db, n)
         /\ Lookup(db, n) = GetHeader(db, n)
         /\ \A flags : Opened(n, flags) = GetHeader(db, n)
         /\ n \in DOMAIN Tree <=> GetHeader(db, n) # NoRow
         /\ n \in DOMAIN Tree =>
              /\ GetHeader(db, n) \in Live(db) /\ GetHeader(db, n).name = n
              /\ Tree[n] = Seen(GetHeader(db, n))
<1>1. Tree = TreeOf(db)
  BY TreeIsOf
<1>2. /\ n \in DOMAIN Tree <=> GetHeader(db, n) # NoRow
      /\ n \in DOMAIN Tree =>
           /\ GetHeader(db, n) \in Live(db) /\ GetHeader(db, n).name = n
           /\ Tree[n] = Seen(GetHeader(db, n))
      /\ GetHeaderByLinkname(db, n) = NoRow
  BY <1>1, SimpleFound
<1>3. GetHeader(db, n) # NoRow => GetHeader(db, n).link = NoName
  BY <1>2 DEF Live, Simple
<1>4. StatName(n) = GetHeader(db, n) /\ StatLink(n) = NoRow
  BY <1>2, <1>3 DEF StatName, StatLink
<1>5. Target(n) = GetHeader(db, n)
  BY <1>4 DEF Target
<1> QED
  BY <1>2, <1>4, <1>5 DEF IsFound, Found, Lookup, Opened

(* A tree that has what is in the index is the tree of the index.          *)
LEMMA SameTree ==
  ASSUME NEW t, Simple(t), NEW f, f = [n \in DOMAIN f |-> f[n]],
         \A r \in Live(t) : r.name \in DOMAIN f /\ f[r.name] = Seen(r),
         \A n \in DOMAIN f : \E r \in Live(t) : r.name = n
  PROVE  TreeOf(t) = f
<1> DEFINE g == TreeOf(t)
<1>1. g = [n \in DOMAIN g |-> g[n]]
  BY DEF TreeOf
<1>2. ASSUME NEW n \in DOMAIN g PROVE n \in DOMAIN f /\ f[n] = g[n]
  <2>1. GetHeader(t, n) \in Live(t) /\ GetHeader(t, n).name = n /\ g[n] = Seen(GetHeader(t, n))
    BY SimpleFound
  <2> QED
    BY <2>1
<1>3. ASSUME NEW n \in DOMAIN f PROVE n \in DOMAIN g
  <2>1. PICK r \in Live(t) : r.name = n
    OBVIOUS
  <2> QED
    BY <2>1, SimpleLive
<1> HIDE DEF g
<1>4. g = f
  BY <1>1, <1>2, <1>3
<1> QED
  BY <1>4 DEF g

-----------------------------------------------------------------------------
(* An operation.                                                           *)

(* Setting the positions back leaves the tree as it is.                    *)
LEMMA SimpleUnplaced ==
  ASSUME NEW t, Simple(t)
  PROVE  Simple(Unplaced(t)) /\ TreeOf(Unplaced(t)) = TreeOf(t)
<1> DEFINE u == Unplaced(t)
<1>1. u = {PlacedRow(r) : r \in t}
  BY UnplacedDef
<1>2. Table(u) /\ KeysUnique(u)
  BY UnplacedKeeps DEF Simple
<1>3. \A r \in t : r \in Row
  BY DEF Simple, Table
<1>4. ASSUME NEW r \in t
      PROVE  TidyEntry(PlacedRow(r)) /\ PlacedRow(r).link = NoName /\ PlacedRow(r).from = NoName
             /\ PlacedRow(r).type # "link"
  <2>1. TidyEntry(r)
    BY DEF Simple, Tidy
  <2>2. TidyEntry(PlacedRow(r))
    BY <2>1 DEF TidyEntry, PlacedRow
  <2> QED
    BY <1>3, <2>2, UnplacedRow, SimpleRow
<1>5. Simple(u)
  BY <1>1, <1>2, <1>4 DEF Simple, Tidy
<1>6. ASSUME NEW r \in t
      PROVE  /\ PlacedRow(r) \in u /\ PlacedRow(r).name = r.name
             /\ Seen(PlacedRow(r)) = Seen(r) /\ PlacedRow(r).deleted = r.deleted
  BY <1>1, <1>3, UnplacedRow DEF Seen
<1> HIDE DEF u
<1>7. TreeOf(t) = [n \in DOMAIN TreeOf(t) |-> TreeOf(t)[n]]
  BY DEF TreeOf
<1>8. ASSUME NEW q \in Live(u) PROVE q.name \in DOMAIN TreeOf(t) /\ TreeOf(t)[q.name] = Seen(q)
  <2>1. PICK r \in t : q = PlacedRow(r)
    BY <1>1 DEF u, Live
  <2>2. r \in Live(t)
    BY <1>6, <2>1 DEF Live
  <2> QED
    BY <1>6, <2>1, <2>2, SimpleLive
<1>9. ASSUME NEW n \in DOMAIN TreeOf(t) PROVE \E q \in Live(u) : q.name = n
  <2>1. GetHeader(t, n) \in Live(t) /\ GetHeader(t, n).name = n
    BY SimpleFound
  <2> QED
    BY <1>6, <2>1 DEF Live
<1> QED
  BY <1>5, <1>7, <1>8, <1>9, SameTree DEF u

(* An operation whose headers are all indexed.                             *)
LEMMA PerformDone ==
  ASSUME NEW call, NEW liberty, NEW hdrs, Perform(call, liberty, hdrs), NEW t,
         IndexAll(hdrs) = Indexed(t), Simple(t)
  PROVE  /\ last' = [call |-> call, res |-> "ok"]
         /\ Simple(db') /\ Tree' = TreeOf(t)
         /\ free = 0 /\ liberty => free' # 0
<1>1. last' = [call |-> call, res |-> "ok"] /\ db' = Unplaced(t)
  BY DEF Perform, Operate, Indexed
<1>2. free = 0 /\ liberty => free' # 0
  BY DEF Perform, Operate
<1> QED
  BY <1>1, <1>2, SimpleUnplaced, TreeIsOf

-----------------------------------------------------------------------------
(* Indexing a header keeps the index a tidy table.                         *)

Whole(t) == Table(t) /\ Bounded(t) /\ KeysUnique(t) /\ Tidy(t)

LEMMA IndexedWhole ==
  ASSUME Suffixless, NEW t, Whole(t), NEW pos \in Position, NEW h \in Header, TidyEntry(h)
  PROVE  Whole(IndexHeader(t, pos, h).db)
<1> DEFINE d == IndexHeader(t, pos, h).db
<1>1. Table(d) /\ Bounded(d)
  BY IndexedBounded DEF Whole
<1>2. Tidy(d)
  <2>1. h.action \in Actions
    BY DEF Header
  <2> QED
    BY <2>1, TidyIndexed DEF Whole
<1>3. KeysUnique(d)
  <2>1. PICK k \in Nat : Within(t, k, k)
    BY DEF Whole, Bounded
  <2>2. PICK m \in Nat : k <= m /\ pos <= m
    BY DEF Position
  <2>3. Within(t, m, m)
    BY <2>1, <2>2 DEF Within, Whole, Table, Row, Position
  <2> QED
    BY <2>2, <2>3, IndexedUnique DEF Whole
<1> QED
  BY <1>1, <1>2, <1>3 DEF Whole

(* Between calls a tidy table can take more headers.                       *)
LEMMA SimpleWhole ==
  /\ RowsInv => Bounded(db)
  /\ \A t : Simple(t) <=> Table(t) /\ KeysUnique(t) /\ Tidy(t)
                          /\ \A r \in t : r.link = NoName /\ r.from = NoName /\ r.type # "link"
  /\ \A t : Simple(t) /\ Bounded(t) => Whole(t)
<1>1. RowsInv => Bounded(db)
  <2>1. RowsInv => Within(db, 1, 1) /\ 1 \in Nat
    BY DEF RowsInv, Placed, Within
  <2> QED
    BY <2>1 DEF Bounded
<1> QED
  BY <1>1 DEF Simple, Whole

-----------------------------------------------------------------------------
(* Some live entries, each once, and their names.                          *)

Listing(t, all, names) ==
  /\ all \in Seq(Row) /\ \A i \in 1 .. Len(all) : all[i] \in Live(t)
  /\ \A i, j \in 1 .. Len(all) : all[i].name = all[j].name => i = j
  /\ names = {all[i].name : i \in 1 .. Len(all)}

(* Entries are deleted one after the other.                                *)
Lessened(x, y, names) ==
  /\ \A s \in x : \E r \in y : /\ r.name = s.name /\ Seen(r) = Seen(s)
                               /\ r.deleted <=> s.deleted \/ s.name \in names
  /\ \A r \in y : \E s \in x : /\ r.name = s.name /\ Seen(r) = Seen(s)
                               /\ r.deleted <=> s.deleted \/ s.name \in names

(* The next deletion of a list fails at nothing and takes away its name.   *)
LEMMA DeletionStep ==
  ASSUME PlainNames, NEW x, NEW t, Simple(t), Bounded(t), NEW names, Lessened(x, t, names),
         NEW r \in Live(x), r \in Row, r.name \notin names, TidyEntry(r), NEW pos \in Position
  PROVE  LET done == IndexHeader(t, pos, DeletionHeader(r))
         IN  /\ done = Indexed(done.db) /\ Simple(done.db) /\ Bounded(done.db)
             /\ Lessened(x, done.db, names \cup {r.name})
<1> DEFINE h == DeletionHeader(r)
           d == IndexHeader(t, pos, h).db
           n == r.name
           hit == GetHeader(t, n)
           f(q) == IF q = hit THEN [q EXCEPT !.deleted = TRUE, !.last = pos] ELSE q
<1>1. h \in Header /\ TidyEntry(h) /\ h.action = "delete" /\ h.name = n
  <2>1. TidyEntry(h)
    BY DEF TidyEntry, DeletionHeader, HeaderOfRow
  <2>2. h \in Header
    <3>1. r.name \in Name /\ r.link \in NameOrNone /\ r.type \in Types /\ r.mode \in Modes
          /\ r.size \in Sizes /\ r.replaces \in BOOLEAN /\ r.from \in NameOrNone
      BY DEF Row
    <3>2. Empty \in Sizes /\ "delete" \in Actions
      BY DEF Sizes, Actions
    <3> QED
      BY <3>1, <3>2 DEF Header, DeletionHeader, HeaderOfRow
  <2> QED
    BY <2>1, <2>2 DEF DeletionHeader, HeaderOfRow
<1> HIDE DEF h
<1>2. IndexedName(h) = n
  BY <1>1, TidyName DEF PlainNames
<1>3. hit # NoRow /\ hit \in Live(t) /\ hit.name = n
  <2>1. PICK q \in t : q.name = r.name /\ (q.deleted <=> r.deleted \/ r.name \in names)
    BY DEF Lessened, Live
  <2>2. q \in Live(t)
    BY <2>1 DEF Live
  <2> QED
    BY <2>1, <2>2, SimpleLive
<1>4. IndexHeader(t, pos, h) = Indexed(DeleteHeader(t, n, pos))
  BY <1>1, <1>2, <1>3 DEF IndexHeader, IndexDelete
<1>5. d = {f(q) : q \in t}
  <2>1. d = DeleteHeader(t, n, pos)
    BY <1>4 DEF Indexed
  <2> QED
    BY <2>1 DEF DeleteHeader
<1>6. Whole(d)
  <2>1. Whole(t)
    BY SimpleWhole
  <2> QED
    BY <1>1, <2>1, IndexedWhole DEF PlainNames
<1>7. ASSUME NEW q \in t
      PROVE  /\ f(q).name = q.name /\ Seen(f(q)) = Seen(q) /\ f(q).link = q.link
             /\ f(q).from = q.from /\ f(q).type = q.type
             /\ f(q).deleted <=> q.deleted \/ q.name = n
  <2>1. q \in Row
    BY SimpleRow
  <2>2. CASE q = hit
    <3>1. f(q) = [q EXCEPT !.deleted = TRUE, !.last = pos]
      BY <2>2
    <3>2. /\ f(q).name = q.name /\ f(q).type = q.type /\ f(q).mode = q.mode /\ f(q).link = q.link
          /\ f(q).from = q.from /\ f(q).deleted = TRUE
      BY <2>1, <3>1 DEF Row
    <3> QED
      BY <1>3, <2>2, <3>2 DEF Seen
  <2>3. CASE q # hit
    <3>1. q.name # n
      BY <1>3, <2>3, SimpleByName DEF Live
    <3> QED
      BY <2>3, <3>1
  <2> QED
    BY <2>2, <2>3
<1> HIDE DEF f, d, hit
<1>8. Simple(d)
  <2>1. \A q \in d : q.link = NoName /\ q.from = NoName /\ q.type # "link"
    BY <1>5, <1>7 DEF Simple
  <2> QED
    BY <1>6, <2>1 DEF Simple, Whole
<1>9. Lessened(x, d, names \cup {n})
  <2>1. ASSUME NEW s \in x
        PROVE  \E q \in d : /\ q.name = s.name /\ Seen(q) = Seen(s)
                            /\ q.deleted <=> s.deleted \/ s.name \in names \cup {n}
    <3>1. PICK q \in t : /\ q.name = s.name /\ Seen(q) = Seen(s)
                         /\ q.deleted <=> s.deleted \/ s.name \in names
      BY DEF Lessened
    <3> QED
      BY <1>5, <1>7, <3>1
  <2>2. ASSUME NEW p \in d
        PROVE  \E s \in x : /\ p.name = s.name /\ Seen(p) = Seen(s)
                            /\ p.deleted <=> s.deleted \/ s.name \in names \cup {n}
    <3>1. PICK q \in t : p = f(q)
      BY <1>5
    <3>2. PICK s \in x : /\ q.name = s.name /\ Seen(q) = Seen(s)
                         /\ q.deleted <=> s.deleted \/ s.name \in names
      BY DEF Lessened
    <3> QED
      BY <1>7, <3>1, <3>2
  <2> QED
    BY <2>1, <2>2 DEF Lessened
<1> QED
  BY <1>4, <1>6, <1>8, <1>9 DEF d, h, Whole, Indexed

(* A tree without some entries.                                            *)
Pruned(f, names) == [m \in DOMAIN f \ names |-> f[m]]

(* Without some of the rows, the tree is without these names.              *)
LEMMA LessenedTree ==
  ASSUME NEW x, Simple(x), NEW y, Simple(y), NEW names, Lessened(x, y, names)
  PROVE  TreeOf(y) = Pruned(TreeOf(x), names)
<1> DEFINE f == [m \in DOMAIN TreeOf(x) \ names |-> TreeOf(x)[m]]
<1>1. ASSUME NEW r \in Live(y) PROVE r.name \in DOMAIN f /\ f[r.name] = Seen(r)
  <2>1. PICK s \in x : /\ r.name = s.name /\ Seen(r) = Seen(s)
                       /\ r.deleted <=> s.deleted \/ s.name \in names
    BY DEF Lessened, Live
  <2>2. s \in Live(x) /\ s.name \notin names
    BY <2>1 DEF Live
  <2> QED
    BY <2>1, <2>2, SimpleLive
<1>2. ASSUME NEW n \in DOMAIN f PROVE \E r \in Live(y) : r.name = n
  <2> DEFINE s == GetHeader(x, n)
  <2>1. s \in Live(x) /\ s.name = n /\ n \notin names
    BY SimpleFound
  <2> HIDE DEF s
  <2>2. PICK r \in y : r.name = s.name /\ (r.deleted <=> s.deleted \/ s.name \in names)
    BY <2>1 DEF Lessened, Live
  <2> QED
    BY <2>1, <2>2 DEF Live
<1>3. f = [n \in DOMAIN f |-> f[n]]
  OBVIOUS
<1> HIDE DEF f
<1>4. TreeOf(y) = f
  BY <1>1, <1>2, <1>3, SameTree
<1> QED
  BY <1>4 DEF f, Pruned

(* The deletions of a listing prune the tree by the names listed.          *)
LEMMA DeletionsDone ==
  ASSUME PlainNames, RowsInv, Simple(db), NEW all, NEW names, Listing(db, all, names)
  PROVE  \E t : /\ IndexAll([i \in DOMAIN all |-> DeletionHeader(all[i])]) = Indexed(t)
                /\ Simple(t) /\ TreeOf(t) = Pruned(Tree, names)
<1> DEFINE hdrs == [i \in DOMAIN all |-> DeletionHeader(all[i])]
           U == IndexedUpTo(db, 1, hdrs)
           Gone(n) == {all[i].name : i \in 1 .. n}
           Good(n) == /\ U[n] = Indexed(U[n].db) /\ Simple(U[n].db) /\ Bounded(U[n].db)
                      /\ Lessened(db, U[n].db, Gone(n))
           S == {n \in 0 .. Len(all) : Good(n)}
<1>0. Len(all) \in Nat /\ DOMAIN all = 1 .. Len(all)
  BY DEF Listing
<1>1. ASSUME NEW i \in 1 .. Len(all)
      PROVE  all[i] \in Live(db) /\ all[i] \in Row /\ TidyEntry(all[i]) /\ all[i] \in db
  <2>1. all[i] \in Live(db) /\ all[i] \in db
    BY DEF Listing, Live
  <2> QED
    BY <2>1, SimpleRow DEF Simple, Tidy
<1>2. hdrs \in Seq(Header) /\ Len(hdrs) = Len(all) /\ \A i \in 1 .. Len(all) : hdrs[i] = DeletionHeader(all[i])
  <2>1. hdrs \in Seq(Header)
    BY HeadersOf DEF Listing
  <2>2. DOMAIN hdrs = 1 .. Len(all)
    BY <1>0
  <2> QED
    BY <1>0, <2>1, <2>2
<1> HIDE DEF hdrs
<1>3. U[0] = Indexed(db) /\ \A i \in 1 .. Len(all) : U[i] = After(U[i - 1], 1 + i, hdrs[i])
  BY <1>2, IndexedUpToDef
<1> HIDE DEF U
<1>4. 0 \in S
  <2>1. U[0].db = db /\ U[0] = Indexed(U[0].db) /\ Bounded(db)
    BY <1>3, SimpleWhole DEF Indexed
  <2>2. Gone(0) = {}
    OBVIOUS
  <2>3. Lessened(db, db, {})
    BY DEF Lessened
  <2> HIDE DEF Gone
  <2> QED
    BY <1>0, <2>1, <2>2, <2>3
<1>5. ASSUME NEW n \in 1 .. Len(all), n - 1 \in S PROVE n \in S
  <2> DEFINE t == U[n - 1].db
             r == all[n]
             done == IndexHeader(t, 1 + n, DeletionHeader(r))
  <2>1. U[n - 1] = Indexed(t) /\ Simple(t) /\ Bounded(t) /\ Lessened(db, t, Gone(n - 1))
    BY <1>5
  <2>2. U[n] = done
    BY <1>2, <1>3, <2>1 DEF After, Indexed
  <2>3. r.name \notin Gone(n - 1)
    <3>1. \A i \in 1 .. n - 1 : i \in 1 .. Len(all) /\ i # n
      BY <1>0
    <3> QED
      BY <3>1 DEF Listing
  <2>4. 1 + n \in Position
    BY DEF Position
  <2>5. r \in Live(db) /\ r \in Row /\ TidyEntry(r)
    BY <1>1
  <2> HIDE DEF Gone, t, r
  <2>6. /\ done = Indexed(done.db) /\ Simple(done.db) /\ Bounded(done.db)
        /\ Lessened(db, done.db, Gone(n - 1) \cup {r.name})
    BY <2>1, <2>3, <2>4, <2>5, DeletionStep
  <2>7. Gone(n - 1) \cup {r.name} = Gone(n)
    <3>1. \A i : i \in 1 .. n <=> i \in 1 .. n - 1 \/ i = n
      BY <1>0
    <3> QED
      BY <3>1 DEF Gone, r
  <2> HIDE DEF done
  <2>8. Good(n)
    BY <2>2, <2>6, <2>7
  <2> HIDE DEF Good
  <2> QED
    BY <1>0, <2>8
<1>6. Good(Len(all))
  <2> HIDE DEF Good
  <2>1. \A n \in 0 .. Len(all) : n \in S
    <3> HIDE DEF S
    <3> QED
      BY <1>0, <1>4, <1>5, UpTo
  <2> QED
    BY <1>0, <2>1
<1>7. Gone(Len(all)) = names
  BY DEF Listing
<1> HIDE DEF Gone
<1>8. TreeOf(U[Len(all)].db) = Pruned(Tree, names)
  <2> DEFINE y == U[Len(all)].db
  <2>1. Simple(y) /\ Lessened(db, y, names)
    BY <1>6, <1>7
  <2> HIDE DEF y
  <2>2. TreeOf(y) = Pruned(TreeOf(db), names)
    BY <2>1, LessenedTree
  <2> QED
    BY <2>2, TreeIsOf DEF y
<1>9. IndexAll(hdrs) = U[Len(all)]
  BY <1>2 DEF IndexAll, U
<1> QED
  BY <1>6, <1>8, <1>9 DEF hdrs

-----------------------------------------------------------------------------
(* Entries are renamed one after the other.                                *)

NewName(n, names, from, to) == IF n \in names THEN Rebase(n, from, to) ELSE n

Moved(x, y, names, from, to) ==
  /\ \A s \in x : \E r \in y : /\ r.name = NewName(s.name, names, from, to)
                               /\ Seen(r) = Seen(s) /\ r.deleted = s.deleted
  /\ \A r \in y : \E s \in x : /\ r.name = NewName(s.name, names, from, to)
                               /\ Seen(r) = Seen(s) /\ r.deleted = s.deleted

(* Names below one that can be moved below another: no row has such a name *)
(* there.                                                                  *)
Movable(x, names, from, to) ==
  /\ names \subseteq Name
  /\ \A n \in names : n = from \/ Below(n, from)
  /\ \A n \in names, s \in x : s.name # Rebase(n, from, to)

(* The header finds its entry and finds nothing where it puts it.          *)
LEMMA MoveIndexed ==
  ASSUME PlainNames, NEW t, Simple(t), NEW from \in FileNames, NEW to \in FileNames,
         NEW r \in Row, TidyEntry(r), r.link = NoName, NEW pos \in Position,
         \A q \in t : q.name # Rebase(r.name, from, to)
  PROVE  LET h == RenameHeader(r, from, to)
         IN  /\ h \in Header /\ TidyEntry(h)
             /\ IndexHeader(t, pos, h)
                  = Indexed(MoveHeader(t, r.name, Rebase(r.name, from, to), pos))
<1> DEFINE h == RenameHeader(r, from, to)
           new == Rebase(r.name, from, to)
<1>0. from \in Name /\ to \in Name /\ r.name \in Name
  BY FileSystemAssumption DEF Row
<1>1. TidyEntry(h)
  BY TidyHeaders DEF PlainNames
<1>2. h \in Header
  <2>1. /\ r.name \in Name /\ r.link \in NameOrNone /\ r.type \in Types /\ r.mode \in Modes
        /\ r.size \in Sizes /\ r.replaces \in BOOLEAN
    BY DEF Row
  <2>2. new \in Name
    BY <1>0, RebaseType
  <2>3. Empty \in Sizes /\ "update" \in Actions
    BY DEF Sizes, Actions
  <2> HIDE DEF new
  <2>4. h = HeaderOfRow(r, "update", new, r.name)
    BY DEF RenameHeader, new
  <2> QED
    BY <2>1, <2>2, <2>3, <2>4 DEF Header, HeaderOfRow, NameOrNone
<1>3. /\ h.action = "update" /\ h.name = new /\ h.from = r.name /\ h.link = NoName
  BY DEF RenameHeader, HeaderOfRow
<1>4. ~h.replaces
  BY <1>1 DEF TidyEntry
<1> HIDE DEF h, new
<1>5. IndexedName(h) = new
  BY <1>1, <1>3, TidyName DEF PlainNames
<1>6. OldName(h) = r.name /\ h.from # NoName
  BY <1>0, <1>3, PathsAssumption DEF OldName
<1>7. \A record : UpdateHeaderMetadata(t, TarHeaderToDBHeader(h, record, pos)) = t
  <2> SUFFICES ASSUME NEW record
               PROVE  UpdateHeaderMetadata(t, TarHeaderToDBHeader(h, record, pos)) = t
    OBVIOUS
  <2> DEFINE row == TarHeaderToDBHeader(h, record, pos)
  <2>1. row.name = new
    BY <1>5 DEF TarHeaderToDBHeader
  <2> HIDE DEF row
  <2>2. \A q \in t : ~SameKey(q, row)
    BY <2>1 DEF SameKey, new
  <2>3. UpdateHeaderMetadata(t, row) = {q : q \in t}
    BY <2>2 DEF UpdateHeaderMetadata
  <2> QED
    BY <2>3 DEF row
<1>8. IndexEdit(t, pos, h) = t
  BY <1>4, <1>7 DEF IndexEdit
<1>9. ~MoveConflict(t, r.name, new)
  BY DEF MoveConflict, new
<1>10. IndexHeader(t, pos, h) = Indexed(MoveHeader(t, r.name, new, pos))
  BY <1>3, <1>5, <1>6, <1>8, <1>9 DEF IndexHeader, IndexUpdate
<1> QED
  BY <1>1, <1>2, <1>10 DEF h, new

(* The next rename of a list fails at nothing and moves its name.          *)
LEMMA MoveStep ==
  ASSUME PlainNames, NEW x, Simple(x), NEW t, Simple(t), Bounded(t),
         NEW from \in FileNames, NEW to \in FileNames, NEW names, Moved(x, t, names, from, to),
         NEW r \in Live(x), r.name \notin names, NEW pos \in Position,
         Movable(x, names \cup {r.name}, from, to)
  PROVE  LET done == IndexHeader(t, pos, RenameHeader(r, from, to))
         IN  /\ done = Indexed(done.db) /\ Simple(done.db) /\ Bounded(done.db)
             /\ Moved(x, done.db, names \cup {r.name}, from, to)
<1> DEFINE h == RenameHeader(r, from, to)
           d == IndexHeader(t, pos, h).db
           old == r.name
           new == Rebase(old, from, to)
           f(q) == IF q.name = old THEN [q EXCEPT !.name = new, !.last = pos] ELSE q
           all == names \cup {old}
<1>0. from \in Name /\ to \in Name /\ r \in Row /\ r \in x /\ old \in Name /\ TidyEntry(r) /\ r.link = NoName
  BY FileSystemAssumption, SimpleRow DEF Live, Simple, Tidy
<1>1. ASSUME NEW s \in x
      PROVE  /\ NewName(s.name, names, from, to) # new
             /\ NewName(s.name, names, from, to) = old <=> s.name = old
             /\ NewName(s.name, all, from, to)
                  = IF s.name = old THEN new ELSE NewName(s.name, names, from, to)
  <2>1. old = from \/ Below(old, from)
    BY DEF Movable
  <2>2. s.name # new
    BY DEF Movable
  <2> HIDE DEF new, old
  <2>3. CASE s.name \in names
    <3>1. s.name \in Name /\ (s.name = from \/ Below(s.name, from)) /\ Rebase(s.name, from, to) # old
      BY <1>0, <2>3 DEF Movable, old
    <3>2. s.name # old
      BY <2>3 DEF old
    <3>3. Rebase(s.name, from, to) # new
      BY <1>0, <2>1, <3>1, <3>2, RebaseApart DEF new
    <3> QED
      BY <2>3, <3>1, <3>2, <3>3 DEF NewName
  <2>4. CASE s.name \notin names
    BY <2>2, <2>4 DEF NewName, new
  <2> QED
    BY <2>3, <2>4
<1>2. \A q \in t : q.name # new
  BY <1>1 DEF Moved
<1>3. /\ h \in Header /\ TidyEntry(h)
      /\ IndexHeader(t, pos, h) = Indexed(MoveHeader(t, old, new, pos))
  <2> HIDE DEF new, h, old
  <2> QED
    BY <1>0, <1>2, MoveIndexed DEF new, h, old
<1> HIDE DEF h
<1>4. d = {f(q) : q \in t}
  <2>1. d = MoveHeader(t, old, new, pos)
    BY <1>3 DEF Indexed
  <2> QED
    BY <2>1 DEF MoveHeader
<1>5. Whole(d)
  <2>1. Whole(t)
    BY SimpleWhole
  <2> QED
    BY <1>3, <2>1, IndexedWhole DEF PlainNames
<1> HIDE DEF new
<1>6. ASSUME NEW q \in t
      PROVE  /\ f(q).name = (IF q.name = old THEN new ELSE q.name)
             /\ Seen(f(q)) = Seen(q) /\ f(q).link = q.link
             /\ f(q).from = q.from /\ f(q).type = q.type /\ f(q).deleted = q.deleted
  <2>1. q \in Row
    BY SimpleRow
  <2>2. CASE q.name = old
    <3>1. f(q) = [q EXCEPT !.name = new, !.last = pos]
      BY <2>2
    <3>2. /\ f(q).name = new /\ f(q).type = q.type /\ f(q).mode = q.mode /\ f(q).link = q.link
          /\ f(q).from = q.from /\ f(q).deleted = q.deleted
      BY <2>1, <3>1 DEF Row
    <3> QED
      BY <2>2, <3>2 DEF Seen
  <2>3. CASE q.name # old
    BY <2>3
  <2> QED
    BY <2>2, <2>3
<1> HIDE DEF f, d, old, all
<1>7. Simple(d)
  <2>1. \A q \in d : q.link = NoName /\ q.from = NoName /\ q.type # "link"
    BY <1>4, <1>6 DEF Simple
  <2> QED
    BY <1>5, <2>1 DEF Simple, Whole
<1>8. Moved(x, d, all, from, to)
  <2>1. ASSUME NEW s \in x, NEW q \in t,
               q.name = NewName(s.name, names, from, to), Seen(q) = Seen(s), q.deleted = s.deleted
        PROVE  /\ f(q).name = NewName(s.name, all, from, to)
               /\ Seen(f(q)) = Seen(s) /\ f(q).deleted = s.deleted
    BY <1>1, <1>6, <2>1
  <2>2. ASSUME NEW s \in x
        PROVE  \E q \in d : /\ q.name = NewName(s.name, all, from, to)
                            /\ Seen(q) = Seen(s) /\ q.deleted = s.deleted
    <3>1. PICK q \in t : /\ q.name = NewName(s.name, names, from, to)
                         /\ Seen(q) = Seen(s) /\ q.deleted = s.deleted
      BY DEF Moved
    <3> QED
      BY <1>4, <2>1, <3>1
  <2>3. ASSUME NEW p \in d
        PROVE  \E s \in x : /\ p.name = NewName(s.name, all, from, to)
                            /\ Seen(p) = Seen(s) /\ p.deleted = s.deleted
    <3>1. PICK q \in t : p = f(q)
      BY <1>4
    <3>2. PICK s \in x : /\ q.name = NewName(s.name, names, from, to)
                         /\ Seen(q) = Seen(s) /\ q.deleted = s.deleted
      BY DEF Moved
    <3> QED
      BY <2>1, <3>1, <3>2
  <2> QED
    BY <2>2, <2>3 DEF Moved
<1> QED
  BY <1>3, <1>5, <1>7, <1>8 DEF d, h, all, old, Whole, Indexed

(* A tree in which names have been moved.                                  *)
Grafted(f, names, from, to) ==
  LET moved == {Rebase(k, from, to) : k \in names}
  IN  [m \in (DOMAIN f \ names) \cup moved |->
         IF m \in moved THEN f[Rebase(m, to, from)] ELSE f[m]]

(* With some of the rows moved, the tree has these names moved.            *)
LEMMA MovedTree ==
  ASSUME NEW x, Simple(x), NEW y, Simple(y), NEW names, NEW from \in Name, NEW to \in Name,
         Moved(x, y, names, from, to), Movable(x, names, from, to), names \subseteq DOMAIN TreeOf(x)
  PROVE  TreeOf(y) = Grafted(TreeOf(x), names, from, to)
<1> DEFINE g == TreeOf(x)
           moved == {Rebase(k, from, to) : k \in names}
           f == [m \in (DOMAIN g \ names) \cup moved |->
                   IF m \in moved THEN g[Rebase(m, to, from)] ELSE g[m]]
<1>1. ASSUME NEW k \in names PROVE Rebase(Rebase(k, from, to), to, from) = k
  <2>1. k \in Name /\ (k = from \/ Below(k, from))
    BY DEF Movable
  <2> QED
    BY <2>1, RebasedBack
<1>2. ASSUME NEW s \in Live(x)
      PROVE  /\ s.name \in DOMAIN g /\ g[s.name] = Seen(s)
             /\ s.name \in names => Rebase(s.name, from, to) \in moved
             /\ s.name \notin moved
  <2>1. s \in x
    BY DEF Live
  <2> QED
    BY <2>1, SimpleLive DEF Movable
<1> HIDE DEF g
<1>3. ASSUME NEW r \in Live(y) PROVE r.name \in DOMAIN f /\ f[r.name] = Seen(r)
  <2>1. PICK s \in x : /\ r.name = NewName(s.name, names, from, to)
                       /\ Seen(r) = Seen(s) /\ r.deleted = s.deleted
    BY DEF Moved, Live
  <2>2. s \in Live(x)
    BY <2>1 DEF Live
  <2>3. CASE s.name \in names
    <3>1. r.name = Rebase(s.name, from, to)
      BY <2>1, <2>3 DEF NewName
    <3>2. r.name \in moved /\ Rebase(r.name, to, from) = s.name
      BY <1>1, <1>2, <2>2, <2>3, <3>1
    <3> HIDE DEF moved
    <3> QED
      BY <1>2, <2>1, <2>2, <3>2
  <2>4. CASE s.name \notin names
    <3>1. r.name = s.name
      BY <2>1, <2>4 DEF NewName
    <3> HIDE DEF moved
    <3> QED
      BY <1>2, <2>1, <2>2, <2>4, <3>1
  <2> QED
    BY <2>3, <2>4
<1>4. ASSUME NEW n \in DOMAIN f PROVE \E r \in Live(y) : r.name = n
  <2>1. PICK k \in DOMAIN g : n = NewName(k, names, from, to)
    <3>1. CASE n \in moved
      BY <3>1 DEF NewName, g
    <3>2. CASE n \notin moved
      <4>1. n \in DOMAIN g /\ n \notin names
        BY <3>2
      <4> QED
        BY <4>1 DEF NewName
    <3> QED
      BY <3>1, <3>2
  <2> DEFINE s == GetHeader(x, k)
  <2>2. s \in Live(x) /\ s.name = k
    BY <2>1, SimpleFound DEF g
  <2> HIDE DEF s
  <2>3. PICK r \in y : r.name = NewName(s.name, names, from, to) /\ r.deleted = s.deleted
    BY <2>2 DEF Moved, Live
  <2> QED
    BY <2>1, <2>2, <2>3 DEF Live
<1>5. f = [n \in DOMAIN f |-> f[n]]
  OBVIOUS
<1>6. Grafted(g, names, from, to) = f
  BY DEF Grafted
<1> HIDE DEF f
<1>7. TreeOf(y) = f
  BY <1>3, <1>4, <1>5, SameTree
<1> QED
  BY <1>6, <1>7 DEF g

(* The renames of a listing graft the names listed to the new place.       *)
LEMMA MovesDone ==
  ASSUME PlainNames, RowsInv, Simple(db), NEW all, NEW names, Listing(db, all, names),
         NEW from \in FileNames, NEW to \in FileNames, Movable(db, names, from, to)
  PROVE  \E t : /\ IndexAll([i \in DOMAIN all |-> RenameHeader(all[i], from, to)]) = Indexed(t)
                /\ Simple(t) /\ TreeOf(t) = Grafted(Tree, names, from, to)
<1> DEFINE hdrs == [i \in DOMAIN all |-> RenameHeader(all[i], from, to)]
           U == IndexedUpTo(db, 1, hdrs)
           Done(n) == {all[i].name : i \in 1 .. n}
           Good(n) == /\ U[n] = Indexed(U[n].db) /\ Simple(U[n].db) /\ Bounded(U[n].db)
                      /\ Moved(db, U[n].db, Done(n), from, to)
           S == {n \in 0 .. Len(all) : Good(n)}
<1>0. /\ Len(all) \in Nat /\ DOMAIN all = 1 .. Len(all)
      /\ from \in Name /\ to \in Name
  BY FileSystemAssumption DEF Listing
<1>1. ASSUME NEW i \in 1 .. Len(all)
      PROVE  all[i] \in Live(db) /\ all[i] \in db /\ all[i] \in Row
  <2>1. all[i] \in Live(db) /\ all[i] \in db
    BY DEF Listing, Live
  <2> QED
    BY <2>1, SimpleRow
<1>2. hdrs \in Seq(Header) /\ Len(hdrs) = Len(all)
      /\ \A i \in 1 .. Len(all) : hdrs[i] = RenameHeader(all[i], from, to)
  <2>1. hdrs \in Seq(Header)
    BY <1>0, HeadersOf DEF Listing
  <2>2. DOMAIN hdrs = 1 .. Len(all)
    BY <1>0
  <2> QED
    BY <1>0, <2>1, <2>2
<1> HIDE DEF hdrs
<1>3. U[0] = Indexed(db) /\ \A i \in 1 .. Len(all) : U[i] = After(U[i - 1], 1 + i, hdrs[i])
  BY <1>2, IndexedUpToDef
<1> HIDE DEF U
<1>4. 0 \in S
  <2>1. U[0].db = db /\ U[0] = Indexed(U[0].db) /\ Bounded(db)
    BY <1>3, SimpleWhole DEF Indexed
  <2>2. Done(0) = {}
    OBVIOUS
  <2>3. Moved(db, db, {}, from, to)
    BY DEF Moved, NewName
  <2>4. Moved(db, U[0].db, Done(0), from, to)
    <3> HIDE DEF Done
    <3> QED
      BY <2>1, <2>2, <2>3
  <2> HIDE DEF Done
  <2>5. Good(0)
    BY <2>1, <2>4
  <2>6. 0 \in 0 .. Len(all)
    BY <1>0
  <2> HIDE DEF Good
  <2> QED
    BY <2>5, <2>6
<1>5. ASSUME NEW n \in 1 .. Len(all), n - 1 \in S PROVE n \in S
  <2> DEFINE t == U[n - 1].db
             r == all[n]
             done == IndexHeader(t, 1 + n, RenameHeader(r, from, to))
  <2>1. U[n - 1] = Indexed(t) /\ Simple(t) /\ Bounded(t) /\ Moved(db, t, Done(n - 1), from, to)
    BY <1>5
  <2>2. U[n] = done
    BY <1>2, <1>3, <2>1 DEF After, Indexed
  <2>3. r.name \notin Done(n - 1)
    <3>1. \A i \in 1 .. n - 1 : i \in 1 .. Len(all) /\ i # n
      BY <1>0
    <3> QED
      BY <3>1 DEF Listing
  <2>4. 1 + n \in Position
    BY DEF Position
  <2>5. r \in Live(db)
    BY <1>1
  <2>6. Done(n - 1) \cup {r.name} = Done(n)
    <3>1. \A i : i \in 1 .. n <=> i \in 1 .. n - 1 \/ i = n
      BY <1>0
    <3> QED
      BY <3>1
  <2>7. Done(n) \subseteq names
    <3>1. \A i \in 1 .. n : i \in 1 .. Len(all)
      BY <1>0
    <3> QED
      BY <3>1 DEF Listing
  <2> HIDE DEF Done, t, r
  <2>8. Movable(db, Done(n - 1) \cup {r.name}, from, to)
    BY <2>6, <2>7 DEF Movable
  <2>9. /\ done = Indexed(done.db) /\ Simple(done.db) /\ Bounded(done.db)
        /\ Moved(db, done.db, Done(n - 1) \cup {r.name}, from, to)
    BY <2>1, <2>3, <2>4, <2>5, <2>8, MoveStep
  <2> HIDE DEF done
  <2>10. Good(n)
    BY <2>2, <2>6, <2>9
  <2> HIDE DEF Good
  <2> QED
    BY <1>0, <2>10
<1>6. Good(Len(all))
  <2> HIDE DEF Good
  <2>1. \A n \in 0 .. Len(all) : n \in S
    <3> HIDE DEF S
    <3> QED
      BY <1>0, <1>4, <1>5, UpTo
  <2> QED
    BY <1>0, <2>1
<1>7. Done(Len(all)) = names
  BY DEF Listing
<1>8. names \subseteq DOMAIN TreeOf(db)
  BY <1>1, SimpleLive DEF Listing
<1> HIDE DEF Done
<1>9. TreeOf(U[Len(all)].db) = Grafted(Tree, names, from, to)
  <2> DEFINE y == U[Len(all)].db
  <2>1. Simple(y) /\ Moved(db, y, names, from, to)
    BY <1>6, <1>7
  <2> HIDE DEF y
  <2>2. TreeOf(y) = Grafted(TreeOf(db), names, from, to)
    BY <1>0, <1>8, <2>1, MovedTree
  <2> QED
    BY <2>2, TreeIsOf DEF y
<1>10. IndexAll(hdrs) = U[Len(all)]
  BY <1>2 DEF IndexAll, U
<1> QED
  BY <1>6, <1>9, <1>10 DEF hdrs

-----------------------------------------------------------------------------
(* A tree with an entry that is new or changed.                            *)

WithEntry(f, n, entry) == [m \in DOMAIN f \cup {n} |-> IF m = n THEN entry ELSE f[m]]

(* A row that is no link takes the place of the one of its name.           *)
LEMMA EntryPut ==
  ASSUME NEW x, Simple(x), NEW y, Table(y), KeysUnique(y), Tidy(y),
         NEW row \in Live(y), row.link = NoName, row.from = NoName, row.type # "link",
         \A r \in y : r = row \/ r \in x,
         \A s \in x : s.name # row.name => s \in y
  PROVE  Simple(y) /\ TreeOf(y) = WithEntry(TreeOf(x), row.name, Seen(row))
<1>0. Simple(y)
  BY DEF Simple
<1> DEFINE f == WithEntry(TreeOf(x), row.name, Seen(row))
           g == TreeOf(x)
<1>1. f = [m \in DOMAIN g \cup {row.name} |-> IF m = row.name THEN Seen(row) ELSE g[m]]
  BY DEF WithEntry
<1> HIDE DEF f
<1>2. ASSUME NEW r \in Live(y) PROVE r.name \in DOMAIN f /\ f[r.name] = Seen(r)
  <2>1. CASE r.name = row.name
    <3>1. r = row
      BY <1>0, <2>1, SimpleByName DEF Live
    <3> QED
      BY <1>1, <3>1
  <2>2. CASE r.name # row.name
    <3>1. r \in Live(x)
      BY <2>2 DEF Live
    <3>2. r.name \in DOMAIN g /\ g[r.name] = Seen(r)
      BY <3>1, SimpleLive
    <3> HIDE DEF g
    <3> QED
      BY <1>1, <2>2, <3>2
  <2> QED
    BY <2>1, <2>2
<1>3. ASSUME NEW n \in DOMAIN f PROVE \E r \in Live(y) : r.name = n
  <2>1. CASE n = row.name
    BY <2>1
  <2>2. CASE n # row.name
    <3>1. n \in DOMAIN g
      BY <1>1, <2>2
    <3>2. GetHeader(x, n) \in Live(x) /\ GetHeader(x, n).name = n
      BY <3>1, SimpleFound
    <3> QED
      BY <2>2, <3>2 DEF Live
  <2> QED
    BY <2>1, <2>2
<1>4. f = [n \in DOMAIN f |-> f[n]]
  BY <1>1
<1> QED
  BY <1>0, <1>2, <1>3, <1>4, SameTree DEF f

(* What making an entry does to the tree.                                  *)
LEMMA MknodeDone ==
  ASSUME Suffixless, RowsInv, Simple(db), NEW call, NEW liberty, NEW type \in {"dir", "reg"},
         NEW n \in FileNames, Mknode(call, liberty, type, n, NoName)
  PROVE  /\ last' = [call |-> call, res |-> "ok"]
         /\ Simple(db') /\ Tree' = WithEntry(Tree, n, [type |-> type, mode |-> NewMode])
         /\ free = 0 /\ liberty => free' # 0
<1>0. type \in Types /\ n \in Name /\ NoName \in NameOrNone
  BY FileSystemAssumption DEF Types, NameOrNone
<1>1. last' = [call |-> call, res |-> "ok"]
  BY <1>0, MknodeMakes
<1>2. PICK row : NewRow(row, type, n, NoName) /\ db' = UpsertHeader(db, row)
  BY <1>0, MknodeMakes
<1>3. Table(db') /\ KeysUnique(db')
  <2>1. RowsInv'
    BY <1>0, MknodeKeeps
  <2> QED
    BY <2>1 DEF RowsInv, Table, KeysUnique
<1>4. Tidy(db')
  <2>1. Tidy(db)'
    BY <1>0, MknodeTidies DEF Simple
  <2> QED
    BY <2>1 DEF Tidy
<1>5. /\ row \in Live(db') /\ row.link = NoName /\ row.from = NoName /\ row.type # "link"
      /\ row.name = n /\ Seen(row) = [type |-> type, mode |-> NewMode]
  BY <1>2 DEF NewRow, UpsertHeader, Live, Seen
<1>6. /\ \A r \in db' : r = row \/ r \in db
      /\ \A s \in db : s.name # row.name => s \in db'
  BY <1>2 DEF UpsertHeader, SameKey
<1>7. Simple(db') /\ TreeOf(db') = WithEntry(TreeOf(db), row.name, Seen(row))
  BY <1>3, <1>4, <1>5, <1>6, EntryPut
<1>8. free = 0 /\ liberty => free' # 0
  BY DEF Mknode, Perform, Operate
<1> QED
  BY <1>1, <1>5, <1>7, <1>8, TreeIsOf

(* What changing one does.                                                 *)
LEMMA ChangeDone ==
  ASSUME Suffixless, RowsInv, Simple(db), NEW call, NEW n \in DOMAIN Tree, n \in Name,
         NEW mode \in Modes, Perform(call, FALSE, <<MetadataHeader(GetHeader(db, n), mode)>>)
  PROVE  /\ last' = [call |-> call, res |-> "ok"]
         /\ Simple(db') /\ Tree' = WithEntry(Tree, n, [type |-> Tree[n].type, mode |-> mode])
<1> DEFINE r == GetHeader(db, n)
           h == MetadataHeader(r, mode)
           row == TarHeaderToDBHeader(h, r.record, 2)
           t == UpdateHeaderMetadata(db, row)
<1>1. r \in Live(db) /\ r \in db /\ r.name = n /\ r # NoRow /\ Tree[n] = Seen(r)
  BY SimpleLooks DEF Live
<1>2. /\ r \in Row /\ TidyEntry(r) /\ ~r.replaces /\ r.link = NoName /\ r.from = NoName
      /\ r.type # "link" /\ r.record = 1
  <2>1. r \in Row /\ ~r.replaces /\ r.link = NoName /\ r.from = NoName /\ r.type \in {"dir", "reg"}
    BY <1>1, SimpleRow
  <2> QED
    BY <1>1, <2>1 DEF Simple, Tidy, RowsInv, Placed
<1> HIDE DEF r
<1>3. /\ h.action = "update" /\ h.name = n /\ h.link = NoName /\ h.from = NoName
      /\ h.type = r.type /\ h.mode = mode /\ ~h.replaces
  BY <1>1, <1>2 DEF MetadataHeader
<1>4. h \in Header /\ TidyEntry(h)
  <2>1. h \in Header
    BY <1>1, <1>2, RowHeaders
  <2>2. TidyEntry(h)
    BY <1>2, <1>3, UsedNames DEF TidyEntry, MetadataHeader
  <2> QED
    BY <2>1, <2>2
<1>5. Perform(call, FALSE, <<h>>)
  BY DEF r
<1> HIDE DEF h
<1>6. IndexedName(h) = n
  BY <1>3, <1>4, TidyName
<1>7. IndexAll(<<h>>) = Indexed(t)
  <2>1. IndexAll(<<h>>) = IndexHeader(db, 2, h)
    <3>1. 1 + 1 = 2
      OBVIOUS
    <3> QED
      BY <3>1, OneIndexed DEF IndexAll
  <2>2. IndexEdit(db, 2, h) = t
    <3>1. GetHeader(db, OldName(h)) = r
      BY <1>3, <1>6 DEF OldName, r
    <3> QED
      BY <1>1, <1>3, <3>1 DEF IndexEdit
  <2> QED
    BY <1>3, <2>1, <2>2 DEF IndexHeader, IndexUpdate
<1>8. /\ row.name = n /\ row.link = NoName /\ row.from = NoName /\ row.type = r.type
      /\ Seen(row) = [type |-> r.type, mode |-> mode] /\ ~row.deleted
  BY <1>3, <1>6 DEF TarHeaderToDBHeader, Seen
<1>9. Whole(t)
  <2>1. Whole(db) /\ 2 \in Position
    BY SimpleWhole DEF Position
  <2>2. Whole(IndexHeader(db, 2, h).db)
    BY <1>4, <2>1, IndexedWhole
  <2>3. IndexAll(<<h>>) = IndexHeader(db, 2, h)
    <3>1. 1 + 1 = 2
      OBVIOUS
    <3> QED
      BY <3>1, OneIndexed DEF IndexAll
  <2> HIDE DEF t
  <2> QED
    BY <1>7, <2>2, <2>3 DEF Indexed
<1> HIDE DEF row
<1>10. /\ row \in Live(t) /\ (\A q \in t : q = row \/ q \in db)
       /\ \A s \in db : s.name # row.name => s \in t
  BY <1>1, <1>2, <1>8 DEF UpdateHeaderMetadata, SameKey, Live
<1> HIDE DEF t
<1>11. Simple(t) /\ TreeOf(t) = WithEntry(TreeOf(db), row.name, Seen(row))
  BY <1>2, <1>8, <1>9, <1>10, EntryPut DEF Whole
<1>12. last' = [call |-> call, res |-> "ok"] /\ Simple(db') /\ Tree' = TreeOf(t)
  <2> DEFINE hdrs == <<h>>
  <2>1. Perform(call, FALSE, hdrs) /\ IndexAll(hdrs) = Indexed(t)
    BY <1>5, <1>7
  <2> HIDE DEF hdrs
  <2> QED
    BY <1>11, <2>1, PerformDone
<1> QED
  BY <1>1, <1>8, <1>11, <1>12, TreeIsOf DEF Seen

-----------------------------------------------------------------------------
(* What lies below an entry.                                               *)

Under(f, n) == {m \in DOMAIN f : m = n \/ Below(m, n)}

(* Among plain names the pattern of GetHeaderChildren finds what is below. *)
LEMMA LikeIsBelow ==
  ASSUME PlainNames, Simple(db), NEW n \in DOMAIN Tree, NEW m \in DOMAIN Tree
  PROVE  LikeBelow(m, n) <=> Below(m, n)
<1>1. n \in Name /\ m \in Name /\ PlainOver(Used, n) /\ PlainOver(Used, m)
  BY SimpleNames, TreeIsOf
<1>2. LikeBelow(m, n) => Below(m, n)
  BY <1>1, LikeIsBelowOver DEF PlainNames
<1>3. Below(m, n) => LikeBelow(m, n)
  BY <1>1, BelowIsLike
<1> QED
  BY <1>2, <1>3

(* The rows of an entry and of what lies below it, as Operations.Delete    *)
(* and Operations.Move take them.                                          *)
LEMMA RowsUnder ==
  ASSUME PlainNames, Simple(db), Rooted(Tree), NEW n \in DOMAIN Tree, NEW rows,
         rows = IF GetHeader(db, n).type = "dir" THEN GetHeaderChildren(db, n) ELSE {},
         NEW children \in SetToSeqs(rows)
  PROVE  /\ Listing(db, <<GetHeader(db, n)>> \o children, Under(Tree, n))
         /\ \A m \in Under(Tree, n) : \E r \in rows \cup {GetHeader(db, n)} : r.name = m
<1> DEFINE src == GetHeader(db, n)
           all == <<src>> \o children
<1>0. DOMAIN Tree \subseteq Name /\ n \in Name
  BY SimpleNames, TreeIsOf
<1>1. /\ src \in Live(db) /\ src \in db /\ src \in Row /\ src.name = n /\ Tree[n] = Seen(src)
  <2>1. src \in Live(db) /\ src.name = n /\ Tree[n] = Seen(src)
    BY <1>0, SimpleLooks
  <2> QED
    BY <2>1, SimpleRow DEF Live
<1>2. ASSUME NEW r \in Live(db)
      PROVE  /\ r \in db /\ r \in Row /\ r.name \in DOMAIN Tree /\ r.name \in Name
             /\ Tree[r.name] = Seen(r) /\ GetHeader(db, r.name) = r
             /\ LikeBelow(r.name, n) <=> Below(r.name, n)
  <2>1. r \in db
    BY DEF Live
  <2>2. r.name \in DOMAIN Tree /\ Tree[r.name] = Seen(r) /\ GetHeader(db, r.name) = r
    BY SimpleLive, TreeIsOf
  <2> QED
    BY <2>1, <2>2, SimpleRow, LikeIsBelow
<1> HIDE DEF src
<1>3. /\ rows \subseteq Live(db)
      /\ \A r \in rows : Below(r.name, n)
  BY <1>2 DEF GetHeaderChildren, src
<1>4. rows \in SUBSET Row /\ IsFiniteSet(rows)
  <2>1. rows \subseteq db
    BY <1>2, <1>3
  <2>2. IsFiniteSet(db)
    BY DEF Simple, Table
  <2> QED
    BY <1>2, <1>3, <2>1, <2>2, FS_Subset
<1>5. src \notin rows
  <2>1. ~Below(n, n)
    BY <1>0 DEF Below, Name
  <2> QED
    BY <1>1, <1>3, <2>1
<1>6. ASSUME NEW m \in Under(Tree, n) PROVE \E r \in rows \cup {src} : r.name = m
  <2>1. CASE m = n
    BY <1>1, <2>1
  <2>2. CASE m # n
    <3>1. m \in DOMAIN Tree /\ Below(m, n)
      BY <2>2 DEF Under
    <3>2. src.type = "dir"
      <4>1. Tree[n].type = "dir"
        <5> DEFINE g == Tree
        <5> HIDE DEF g
        <5>1. Rooted(g) /\ DOMAIN g \subseteq Name /\ m \in DOMAIN g /\ Below(m, n)
          BY <1>0, <3>1 DEF g
        <5>2. g[n].type = "dir"
          BY <1>0, <5>1, AboveIsDir
        <5> QED
          BY <5>2 DEF g
      <4> QED
        BY <1>1, <4>1 DEF Seen
    <3>3. GetHeader(db, m) \in Live(db) /\ GetHeader(db, m).name = m
      BY <1>0, <3>1, SimpleLooks
    <3>4. LikeBelow(m, n)
      BY <1>2, <3>1, <3>3
    <3>5. GetHeader(db, m) \in rows
      BY <3>2, <3>3, <3>4 DEF GetHeaderChildren, src
    <3> QED
      BY <3>3, <3>5
  <2> QED
    BY <2>1, <2>2
<1>7. ASSUME NEW r \in rows \cup {src} PROVE r \in Live(db) /\ r.name \in Under(Tree, n)
  BY <1>1, <1>2, <1>3 DEF Under
<1> DEFINE InOrder(s, R) ==
             /\ s \in Seq(Row) /\ Len(s) \in Nat
             /\ \A i \in 1 .. Len(s) : s[i] \in R \cup {src}
             /\ \A r \in R \cup {src} : \E i \in 1 .. Len(s) : s[i] = r
             /\ \A i, j \in 1 .. Len(s) : s[i] = s[j] => i = j
<1>8. InOrder(all, rows)
  <2>1. ASSUME NEW R \in SUBSET Row, IsFiniteSet(R), src \notin R, NEW C \in SetToSeqs(R)
        PROVE  InOrder(<<src>> \o C, R)
    BY <1>1, <2>1, TreeInOrder
  <2> HIDE DEF InOrder
  <2> QED
    BY <1>4, <1>5, <2>1
<1> HIDE DEF all
<1>9. \A i, j \in 1 .. Len(all) : all[i].name = all[j].name => i = j
  <2> SUFFICES ASSUME NEW i \in 1 .. Len(all), NEW j \in 1 .. Len(all), all[i].name = all[j].name
               PROVE  all[i] = all[j]
    BY <1>8
  <2>1. all[i] \in db /\ all[j] \in db
    BY <1>2, <1>7, <1>8
  <2> QED
    BY <2>1, SimpleByName
<1>10. Under(Tree, n) = {all[i].name : i \in 1 .. Len(all)}
  <2>1. ASSUME NEW m \in Under(Tree, n) PROVE \E i \in 1 .. Len(all) : all[i].name = m
    BY <1>6, <1>8
  <2>2. ASSUME NEW i \in 1 .. Len(all) PROVE all[i].name \in Under(Tree, n)
    BY <1>7, <1>8
  <2> QED
    BY <2>1, <2>2
<1>11. Listing(db, all, Under(Tree, n))
  BY <1>7, <1>8, <1>9, <1>10 DEF Listing
<1> QED
  BY <1>6, <1>11 DEF all, src

(* What a removal does to the tree.                                        *)
LEMMA DeleteDone ==
  ASSUME PlainNames, RowsInv, Simple(db), Rooted(Tree), NEW call, NEW liberty,
         NEW n \in DOMAIN Tree, Delete(call, liberty, n)
  PROVE  /\ last' = [call |-> call, res |-> "ok"]
         /\ Simple(db') /\ Tree' = Pruned(Tree, Under(Tree, n))
         /\ free = 0 /\ liberty => free' # 0
<1> DEFINE src == GetHeader(db, n)
           rows == IF src.type = "dir" THEN GetHeaderChildren(db, n) ELSE {}
<1>0. n \in Name
  BY SimpleNames, TreeIsOf
<1>1. Lookup(db, n) = src /\ src.link = NoName
  <2>1. Lookup(db, n) = src /\ src \in db
    BY <1>0, SimpleLooks DEF Live
  <2> QED
    BY <2>1, SimpleRow
<1>2. PICK children \in SetToSeqs(rows) :
        LET deleted == <<src>> \o children
        IN  Perform(call, liberty, [i \in DOMAIN deleted |-> DeletionHeader(deleted[i])])
  BY <1>1 DEF Delete
<1> DEFINE all == <<src>> \o children
<1>3. Listing(db, all, Under(Tree, n))
  BY RowsUnder
<1>4. Perform(call, liberty, [i \in DOMAIN all |-> DeletionHeader(all[i])])
  BY <1>2
<1> HIDE DEF all
<1>5. PICK t : /\ IndexAll([i \in DOMAIN all |-> DeletionHeader(all[i])]) = Indexed(t)
               /\ Simple(t) /\ TreeOf(t) = Pruned(Tree, Under(Tree, n))
  BY <1>3, DeletionsDone
<1> QED
  BY <1>4, <1>5, PerformDone

(* What a rename to a free name does.                                      *)
LEMMA MoveDone ==
  ASSUME PlainNames, RowsInv, Simple(db), Rooted(Tree), NEW call, NEW from \in DOMAIN Tree,
         NEW to, from \in FileNames, to \in FileNames, from # to, Move(call, from, to),
         free = 0, free' = 0
  PROVE  /\ last' = [call |-> call, res |-> "ok"] /\ ~Below(to, from) /\ ~Astray(to)
         /\ Movable(db, Under(Tree, from), from, to)
         /\ Simple(db') /\ Tree' = Grafted(Tree, Under(Tree, from), from, to)
<1> DEFINE src == GetHeader(db, from)
           rows == IF src.type = "dir" THEN GetHeaderChildren(db, from) ELSE {}
           liberty == ~PlainRename(rows \cup {src}, from, to)
<1>0. from \in Name /\ to \in Name /\ DOMAIN Tree \subseteq Name
  BY SimpleNames, TreeIsOf, FileSystemAssumption
<1>1. Lookup(db, from) = src
  BY <1>0, SimpleLooks
<1>2. PICK children \in SetToSeqs(rows) :
        LET moved == <<src>> \o children
        IN  Perform(call, liberty, [i \in DOMAIN moved |-> RenameHeader(moved[i], from, to)])
  BY <1>1 DEF Move
<1> DEFINE all == <<src>> \o children
<1>3. /\ Listing(db, all, Under(Tree, from))
      /\ \A m \in Under(Tree, from) : \E r \in rows \cup {src} : r.name = m
  BY RowsUnder
<1>4. Perform(call, liberty, [i \in DOMAIN all |-> RenameHeader(all[i], from, to)])
  BY <1>2
<1> HIDE DEF all, rows, src, liberty
<1>5. ~liberty
  BY <1>4 DEF Perform, Operate
<1>6. PlainRename(rows \cup {src}, from, to)
  BY <1>5 DEF liberty
<1>7. Movable(db, Under(Tree, from), from, to)
  <2>1. Under(Tree, from) \subseteq Name /\ \A m \in Under(Tree, from) : m = from \/ Below(m, from)
    BY <1>0 DEF Under
  <2>2. \A m \in Under(Tree, from), s \in db : s.name # Rebase(m, from, to)
    BY <1>3, <1>6 DEF PlainRename
  <2> QED
    BY <2>1, <2>2 DEF Movable
<1>8. PICK t : /\ IndexAll([i \in DOMAIN all |-> RenameHeader(all[i], from, to)]) = Indexed(t)
               /\ Simple(t) /\ TreeOf(t) = Grafted(Tree, Under(Tree, from), from, to)
  BY <1>3, <1>7, MovesDone
<1>9. /\ last' = [call |-> call, res |-> "ok"]
      /\ Simple(db') /\ Tree' = TreeOf(t)
  BY <1>4, <1>8, PerformDone
<1> QED
  BY <1>6, <1>7, <1>8, <1>9 DEF PlainRename

(* A directory is found empty when it is.                                  *)
LEMMA EmptyIsEmpty ==
  ASSUME PlainNames, Simple(db), Rooted(Tree), NEW n \in DOMAIN Tree
  PROVE  IsEmpty(n) <=> Under(Tree, n) = {n}
<1> DEFINE src == GetHeader(db, n)
<1>0. DOMAIN Tree \subseteq Name /\ n \in Name
  BY SimpleNames, TreeIsOf
<1>1. src = StatName(n) /\ src # NoRow /\ Tree[n] = Seen(src)
  BY <1>0, SimpleLooks
<1> HIDE DEF src
<1>2. ASSUME NEW r \in Live(db)
      PROVE  r.name \in DOMAIN Tree /\ r.name \in Name /\ r.link = NoName /\ Len(r.name) \in Nat
  <2>1. r.name \in DOMAIN Tree
    BY SimpleLive, TreeIsOf
  <2>2. r.name \in Name
    BY <1>0, <2>1
  <2> QED
    BY <2>1, <2>2 DEF Live, Simple, Name
<1>3. ASSUME NEW m \in DOMAIN Tree, Below(m, n)
      PROVE  /\ src.type = "dir"
             /\ \E r \in Live(db) : Below(r.name, n) /\ Len(r.name) = Len(n) + 1
  <2> DEFINE g == Tree
  <2>1. Rooted(g) /\ DOMAIN g \subseteq Name /\ m \in DOMAIN g
    BY <1>0
  <2> HIDE DEF g
  <2>2. g[n].type = "dir"
    BY <1>0, <1>3, <2>1, AboveIsDir
  <2>3. PICK c \in DOMAIN g : Below(c, n) /\ Len(c) = Len(n) + 1
    BY <1>0, <1>3, <2>1, ChildAbove
  <2>4. c \in DOMAIN Tree /\ c \in Name
    BY <1>0, <2>3 DEF g
  <2>5. GetHeader(db, c) \in Live(db) /\ GetHeader(db, c).name = c
    BY <2>4, SimpleLooks
  <2> QED
    BY <1>1, <2>2, <2>3, <2>5 DEF g, Seen
<1>4. ASSUME Under(Tree, n) = {n} PROVE IsEmpty(n)
  <2> SUFFICES ASSUME NEW r \in GetHeaderDirectChildren(db, n) PROVE FALSE
    BY DEF IsEmpty
  <2>1. r \in Live(db) /\ DirectChild(db, r.name, n)
    BY <1>2 DEF GetHeaderDirectChildren
  <2>2. Below(r.name, n)
    <3>1. CASE n = Root
      <4>1. r.name # Root
        BY <2>1, <3>1 DEF DirectChild, AtRootDepth
      <4>2. Len(r.name) > 0 /\ Len(n) = 0
        BY <1>2, <2>1, <3>1, <4>1 DEF Root, Name
      <4> QED
        BY <1>0, <1>2, <2>1, <4>2, BelowIs
    <3>2. CASE n # Root
      BY <2>1, <3>2 DEF DirectChild, DirectlyBelow
    <3> QED
      BY <3>1, <3>2
  <2>3. r.name \in Under(Tree, n)
    BY <1>2, <2>1, <2>2 DEF Under
  <2>4. r.name = n
    BY <1>4, <2>3
  <2> QED
    BY <1>0, <2>2, <2>4 DEF Below, Name
<1>5. ASSUME Under(Tree, n) # {n} PROVE ~IsEmpty(n)
  <2>1. PICK m \in DOMAIN Tree : Below(m, n)
    BY <1>5 DEF Under
  <2>2. PICK r \in Live(db) : Below(r.name, n) /\ Len(r.name) = Len(n) + 1
    BY <1>3, <2>1
  <2>3. src.type = "dir"
    BY <1>3, <2>1
  <2>4. DirectChild(db, r.name, n)
    <3>1. CASE n = Root
      <4>1. Len(r.name) = 1 /\ r.name # Root
        BY <2>2, <3>1 DEF Root
      <4>2. \A s \in Live(db) : Len(s.name) >= 1 \/ s.name = Root
        BY <1>2 DEF Name, Root
      <4>3. \A s \in Live(db) : Len(r.name) <= Len(s.name) \/ s.name = Root
        BY <1>2, <4>1, <4>2
      <4> QED
        BY <3>1, <4>1, <4>3 DEF DirectChild, AtRootDepth
    <3>2. CASE n # Root
      <4>1. Repeats(r.name, n) = 0
        BY <1>0, <1>2, <2>2, <3>2, OnceInChild
      <4>2. Len(r.name) = (Len(n) + 1) * (0 + 1)
        <5>1. Len(n) \in Nat
          BY <1>0 DEF Name
        <5> QED
          BY <2>2, <5>1
      <4> QED
        BY <2>2, <3>2, <4>1, <4>2 DEF DirectChild, DirectlyBelow
    <3> QED
      BY <3>1, <3>2
  <2>5. r \in GetHeaderDirectChildren(db, n)
    BY <1>2, <2>4 DEF GetHeaderDirectChildren
  <2> QED
    BY <1>1, <2>3, <2>5 DEF IsEmpty
<1> QED
  BY <1>4, <1>5

-----------------------------------------------------------------------------
(* Entries go on lying in directories.                                     *)

(* An entry can be added in a directory, or be changed.                    *)
LEMMA RootedPut ==
  ASSUME NEW f, Rooted(f), DOMAIN f \subseteq Name, NEW n \in Name, NEW entry,
         \/ n \in DOMAIN f /\ entry.type = f[n].type
         \/ n \notin DOMAIN f /\ Parent(n) \in DOMAIN f /\ f[Parent(n)].type = "dir"
  PROVE  Rooted(WithEntry(f, n, entry))
<1> DEFINE g == WithEntry(f, n, entry)
<1>1. g = [m \in DOMAIN f \cup {n} |-> IF m = n THEN entry ELSE f[m]]
  BY DEF WithEntry
<1> HIDE DEF g
<1>2. ASSUME NEW m \in DOMAIN f PROVE m \in DOMAIN g /\ g[m].type = f[m].type
  BY <1>1
<1>3. Root \in DOMAIN g /\ g[Root].type = "dir"
  BY <1>2 DEF Rooted
<1>4. ASSUME NEW m \in DOMAIN g, m # Root PROVE Parent(m) \in DOMAIN g /\ g[Parent(m)].type = "dir"
  <2>1. Parent(m) \in DOMAIN f /\ f[Parent(m)].type = "dir"
    BY <1>1, <1>4 DEF Rooted
  <2> QED
    BY <1>2, <2>1
<1> QED
  BY <1>3, <1>4 DEF Rooted, g

(* An entry can be taken away with all that is below it.                   *)
LEMMA RootedPruned ==
  ASSUME NEW f, Rooted(f), DOMAIN f \subseteq Name, NEW n \in Name, n # Root
  PROVE  Rooted(Pruned(f, Under(f, n)))
<1> DEFINE g == Pruned(f, Under(f, n))
<1>1. g = [m \in DOMAIN f \ Under(f, n) |-> f[m]]
  BY DEF Pruned
<1> HIDE DEF g
<1>2. Root \in DOMAIN g /\ g[Root].type = "dir"
  <2>1. Root \notin Under(f, n)
    BY DEF Under, Below, Root, Name
  <2> QED
    BY <1>1, <2>1 DEF Rooted
<1>3. ASSUME NEW m \in DOMAIN g, m # Root PROVE Parent(m) \in DOMAIN g /\ g[Parent(m)].type = "dir"
  <2>1. m \in DOMAIN f /\ m \notin Under(f, n) /\ m \in Name
    BY <1>1
  <2>2. Parent(m) \in DOMAIN f /\ f[Parent(m)].type = "dir" /\ Parent(m) \in Name /\ Below(m, Parent(m))
    BY <1>3, <2>1, ParentOf DEF Rooted
  <2>3. Parent(m) \notin Under(f, n)
    BY <2>1, <2>2, BelowTrans DEF Under
  <2> QED
    BY <1>1, <2>2, <2>3
<1> QED
  BY <1>2, <1>3 DEF Rooted, g

(* An entry can be moved, with what is below it, to a directory it is not  *)
(* an ancestor of.                                                         *)
LEMMA GraftedIs ==
  ASSUME NEW f, Rooted(f), DOMAIN f \subseteq Name, NEW from \in DOMAIN f, from # Root,
         NEW to \in Name, ~Below(to, from), Parent(to) \in DOMAIN f, f[Parent(to)].type = "dir",
         \A k \in Under(f, from) : Rebase(k, from, to) \notin DOMAIN f
  PROVE  /\ to \notin DOMAIN f
         /\ Grafted(f, Under(f, from), from, to)
              = [m \in (DOMAIN f \ Under(f, from)) \cup
                         {Rebase(k, from, to) : k \in Under(f, from)} |->
                   IF m = to \/ Below(m, to) THEN f[Rebase(m, to, from)] ELSE f[m]]
         /\ Rooted(Grafted(f, Under(f, from), from, to))
<1> DEFINE u == Under(f, from)
           New(k) == Rebase(k, from, to)
           moved == {New(k) : k \in u}
           g == Grafted(f, u, from, to)
<1>0. from \in Name /\ \A k \in u : k \in DOMAIN f /\ k \in Name /\ (k = from \/ Below(k, from))
  BY DEF Under
<1>1. from \in u
  BY DEF Under
<1>2. g = [m \in (DOMAIN f \ u) \cup moved |-> IF m \in moved THEN f[Rebase(m, to, from)] ELSE f[m]]
  BY DEF Grafted
<1> HIDE DEF g
<1>3. ASSUME NEW k \in Name, k = from \/ Below(k, from)
      PROVE  /\ New(k) \in Name /\ (New(k) = to \/ Below(New(k), to))
             /\ Rebase(New(k), to, from) = k /\ Len(New(k)) = Len(to) + (Len(k) - Len(from))
  BY <1>0, <1>3, RebasedBack DEF Replaces
<1>4. New(from) = to
  <2>1. Len(New(from)) = Len(to)
    <3>1. Len(from) \in Nat /\ Len(to) \in Nat /\ Len(New(from)) = Len(to) + (Len(from) - Len(from))
      BY <1>0, <1>3 DEF Name
    <3> QED
      BY <3>1
  <2>2. ~Below(New(from), to)
    <3> HIDE DEF New
    <3>1. Len(to) \in Nat
      BY DEF Name
    <3> QED
      BY <2>1, <3>1 DEF Below
  <2> QED
    BY <1>0, <1>3, <2>2
<1>5. \A m \in moved : m \notin DOMAIN f
  OBVIOUS
<1>6. to \notin DOMAIN f
  BY <1>1, <1>4, <1>5
<1> HIDE DEF New
<1>7. ASSUME NEW m \in (DOMAIN f \ u) \cup moved
      PROVE  m \in moved <=> m = to \/ Below(m, to)
  <2>1. ASSUME m \in moved PROVE m = to \/ Below(m, to)
    BY <1>0, <1>3, <2>1
  <2>2. ASSUME m \notin moved PROVE ~(m = to \/ Below(m, to))
    <3>1. m \in DOMAIN f
      BY <2>2
    <3> QED
      BY <1>6, <3>1, AboveIsDir
  <2> QED
    BY <2>1, <2>2
<1>8. g = [m \in (DOMAIN f \ u) \cup moved |->
             IF m = to \/ Below(m, to) THEN f[Rebase(m, to, from)] ELSE f[m]]
  <2> HIDE DEF u, moved
  <2> QED
    BY <1>2, <1>7
<1>9. ASSUME NEW m \in DOMAIN f, m \notin u PROVE m \in DOMAIN g /\ g[m] = f[m]
  <2> HIDE DEF u, moved
  <2> QED
    BY <1>2, <1>5, <1>9
<1>10. ASSUME NEW k \in u PROVE New(k) \in DOMAIN g /\ g[New(k)] = f[k]
  <2>1. New(k) \in moved /\ Rebase(New(k), to, from) = k
    BY <1>0, <1>3
  <2> HIDE DEF u, moved
  <2> QED
    BY <1>2, <2>1
<1>11. ASSUME NEW m \in DOMAIN f, m # Root, m \notin u
       PROVE  Parent(m) \in DOMAIN f /\ f[Parent(m)].type = "dir" /\ Parent(m) \notin u
  <2>1. Parent(m) \in DOMAIN f /\ f[Parent(m)].type = "dir" /\ m \in Name /\ Below(m, Parent(m))
    BY <1>11, ParentOf DEF Rooted
  <2>2. Parent(m) \notin u
    BY <1>0, <1>11, <2>1, BelowTrans DEF Under
  <2> QED
    BY <2>1, <2>2
<1>12. Rooted(g)
  <2>1. Root \in DOMAIN g /\ g[Root].type = "dir"
    <3>1. Root \notin u
      BY <1>0 DEF Below, Root, Name
    <3> QED
      BY <1>9, <3>1 DEF Rooted
  <2>2. ASSUME NEW m \in DOMAIN g, m # Root
        PROVE  Parent(m) \in DOMAIN g /\ g[Parent(m)].type = "dir"
    <3>1. CASE m \in DOMAIN f /\ m \notin u
      BY <1>9, <1>11, <2>2, <3>1
    <3>2. CASE ~(m \in DOMAIN f /\ m \notin u)
      <4>1. PICK k \in u : m = New(k)
        BY <1>2, <3>2
      <4>2. CASE k = from
        <5>1. m = to
          BY <1>4, <4>1, <4>2
        <5>2. Below(to, Parent(to))
          BY <2>2, <5>1, ParentOf
        <5>3. Parent(to) \notin u
          BY <1>0, <5>2, BelowTrans
        <5> QED
          BY <1>9, <5>1, <5>3
      <4>3. CASE k # from
        <5>1. k \in DOMAIN f /\ k \in Name /\ Below(k, from)
          BY <1>0, <4>3
        <5>2. k # Root
          BY <1>0, <5>1 DEF Below, Root, Name
        <5>3. Parent(k) \in DOMAIN f /\ f[Parent(k)].type = "dir"
          BY <5>1, <5>2 DEF Rooted
        <5>4. Parent(k) \in u /\ Parent(New(k)) = New(Parent(k))
          BY <1>0, <5>1, <5>3, ParentRebased DEF Under, New
        <5> HIDE DEF u
        <5> QED
          BY <1>10, <4>1, <5>3, <5>4
      <4> QED
        BY <4>2, <4>3
    <3> QED
      BY <3>1, <3>2
  <2> QED
    BY <2>1, <2>2 DEF Rooted
<1> QED
  BY <1>6, <1>8, <1>12 DEF g, New

-----------------------------------------------------------------------------
(* The outcome of a call is the one it has on the tree.                    *)

(* Between two calls of clients that take no liberty.                      *)
PlainState == RowsInv /\ Simple(db) /\ tree = Tree /\ Rooted(tree) /\ free = 0
PlainStep == PlainNames /\ PlainState /\ tree' = Tree' /\ free' = 0

Stays == Simple(db') /\ Rooted(tree')

(* Every lookup of the code finds the entry of the tree.                   *)
LEMMA PlainLooks ==
  ASSUME PlainState, NEW n \in Name
  PROVE  /\ DOMAIN tree \subseteq Name
         /\ StatName(n) = GetHeader(db, n) /\ StatLink(n) = NoRow /\ Target(n) = GetHeader(db, n)
         /\ Found(n) = GetHeader(db, n) /\ Lookup(db, n) = GetHeader(db, n)
         /\ \A flags : Opened(n, flags) = GetHeader(db, n)
         /\ (IsFound(n) <=> n \in DOMAIN tree) /\ (GetHeader(db, n) # NoRow <=> n \in DOMAIN tree)
         /\ n \in DOMAIN tree =>
              /\ GetHeader(db, n).type = tree[n].type
              /\ tree[n].type = "dir" \/ tree[n].type = "reg"
              /\ tree[n].mode \in Modes
<1>1. Simple(db) /\ tree = TreeOf(db) /\ tree = Tree
  BY TreeIsOf DEF PlainState
<1>2. /\ DOMAIN tree \subseteq Name
      /\ n \in DOMAIN tree =>
           (tree[n].type = "dir" \/ tree[n].type = "reg") /\ tree[n].mode \in Modes
  <2>1. Simple(db) /\ tree = TreeOf(db)
    BY <1>1
  <2> DEFINE f == TreeOf(db)
  <2>2. /\ DOMAIN f \subseteq Name
        /\ \A m \in DOMAIN f : f[m].type \in {"dir", "reg"} /\ f[m].mode \in Modes
    BY <2>1, SimpleNames
  <2> HIDE DEF f
  <2>3. tree = f
    BY <2>1 DEF f
  <2> QED
    BY <2>2, <2>3
<1>3. n \in DOMAIN tree => GetHeader(db, n).type = tree[n].type
  <2>1. Simple(db) /\ tree = Tree
    BY <1>1
  <2> DEFINE r == GetHeader(db, n)
  <2>2. n \in DOMAIN tree => tree[n] = Seen(r)
    BY <2>1, SimpleLooks
  <2> HIDE DEF r
  <2>3. Seen(r).type = r.type
    BY DEF Seen
  <2> QED
    BY <2>2, <2>3 DEF r
<1>4. /\ StatName(n) = GetHeader(db, n) /\ StatLink(n) = NoRow /\ Target(n) = GetHeader(db, n)
      /\ Found(n) = GetHeader(db, n) /\ Lookup(db, n) = GetHeader(db, n)
      /\ \A flags : Opened(n, flags) = GetHeader(db, n)
      /\ (IsFound(n) <=> n \in DOMAIN tree) /\ (GetHeader(db, n) # NoRow <=> n \in DOMAIN tree)
  BY <1>1, SimpleLooks
<1> QED
  BY <1>2, <1>3, <1>4

(* A call that only answers leaves the tree as it is.                      *)
LEMMA Answered ==
  ASSUME PlainStep, NEW call, NEW res, Answer(call, res)
  PROVE  /\ Stays /\ tree' = tree
         /\ res # "ok" => Files!Refuse(call)
         /\ res = "ok" => Files!Succeed(call)
<1>1. db' = db /\ last' = [call |-> call, res |-> res]
  BY DEF Answer
<1>2. tree' = tree
  BY <1>1, TreeIsOf DEF PlainStep, PlainState
<1> QED
  BY <1>1, <1>2 DEF PlainStep, PlainState, Stays, Files!Refuse, Files!Succeed

(* FileTree and the file system mean the same by a name.                   *)
LEMMA FilesNames ==
  /\ Files!Root = Root
  /\ \A n : /\ Files!Parent(n) = Parent(n) /\ Files!Subtree(n) = Under(tree, n)
            /\ Files!Exists(n) <=> n \in DOMAIN tree
            /\ Files!IsDir(n) <=> n \in DOMAIN tree /\ tree[n].type = "dir"
            /\ Files!IsFile(n) <=> n \in DOMAIN tree /\ tree[n].type = "reg"
  /\ \A m, n : Files!Below(m, n) <=> Below(m, n)
  /\ \A n, from, to : Files!Rebase(n, from, to) = Rebase(n, from, to)
<1>1. \A m, n : Files!Below(m, n) <=> Below(m, n)
  BY DEF Files!Below, Below
<1>2. Files!Root = Root /\ \A n : Files!Parent(n) = Parent(n)
  BY DEF Files!Root, Root, Files!Parent, Parent
<1>3. \A n : Files!Subtree(n) = Under(tree, n)
  BY <1>1 DEF Files!Subtree, Under
<1>4. \A n : /\ Files!Exists(n) <=> n \in DOMAIN tree
             /\ Files!IsDir(n) <=> n \in DOMAIN tree /\ tree[n].type = "dir"
             /\ Files!IsFile(n) <=> n \in DOMAIN tree /\ tree[n].type = "reg"
  BY DEF Files!Exists, Files!IsDir, Files!IsFile
<1>5. \A n, from, to : Files!Rebase(n, from, to) = Rebase(n, from, to)
  BY <1>1 DEF Files!Rebase, Rebase
<1> QED
  BY <1>1, <1>2, <1>3, <1>4, <1>5

(* Nothing is below what is not there.                                     *)
LEMMA WhatIsUnder ==
  ASSUME PlainNames, PlainState, NEW n \in Name
  PROVE  /\ n \notin DOMAIN tree => Under(tree, n) = {}
         /\ n \in DOMAIN tree => (IsEmpty(n) <=> Under(tree, n) = {n})
<1>1. ASSUME n \notin DOMAIN tree PROVE Under(tree, n) = {}
  <2>1. Rooted(tree) /\ DOMAIN tree \subseteq Name
    BY PlainLooks DEF PlainState
  <2>2. \A m \in DOMAIN tree : ~Below(m, n)
    BY <1>1, <2>1, AboveIsDir
  <2> QED
    BY <1>1, <2>2 DEF Under
<1>2. n \in DOMAIN tree => (IsEmpty(n) <=> Under(tree, n) = {n})
  BY EmptyIsEmpty DEF PlainState
<1> QED
  BY <1>1, <1>2

(* Without its directory an entry is not there.                            *)
LEMMA WithoutParent ==
  ASSUME PlainState, NEW n \in Name
  PROVE  /\ Parent(n) \in Name
         /\ n \in DOMAIN tree => Parent(n) \in DOMAIN tree /\ tree[Parent(n)].type = "dir"
         /\ Astray(n) <=> ~(Parent(n) \in DOMAIN tree /\ tree[Parent(n)].type = "dir")
<1>1. Parent(n) \in Name /\ (n = Root => Parent(n) = Root)
  BY ParentOf
<1>2. n \in DOMAIN tree => Parent(n) \in DOMAIN tree /\ tree[Parent(n)].type = "dir"
  BY <1>1 DEF PlainState, Rooted
<1>3. Astray(n) <=> ~(Parent(n) \in DOMAIN tree /\ tree[Parent(n)].type = "dir")
  BY <1>1, PlainLooks DEF Astray
<1> QED
  BY <1>1, <1>2, <1>3

(* A new entry.                                                            *)
LEMMA MknodeOutcome ==
  ASSUME PlainStep, NEW call, NEW type \in {"dir", "reg"}, NEW n \in FileNames,
         n \notin DOMAIN tree, Mknode(call, Astray(n), type, n, NoName)
  PROVE  Stays /\ Files!Succeed(call) /\ Files!Put(n, type) /\ Files!IsDir(Parent(n))
<1>0. n \in Name /\ DOMAIN tree \subseteq Name
  BY FileSystemAssumption, PlainLooks DEF PlainStep
<1>1. /\ last' = [call |-> call, res |-> "ok"]
      /\ Simple(db') /\ Tree' = WithEntry(Tree, n, [type |-> type, mode |-> NewMode])
      /\ free = 0 /\ Astray(n) => free' # 0
  BY MknodeDone DEF PlainStep, PlainState, PlainNames
<1>2. tree' = WithEntry(tree, n, [type |-> type, mode |-> NewMode])
  BY <1>1 DEF PlainStep, PlainState
<1>3. Parent(n) \in DOMAIN tree /\ tree[Parent(n)].type = "dir"
  BY <1>0, <1>1, WithoutParent DEF PlainStep, PlainState
<1>4. Rooted(tree')
  BY <1>0, <1>2, <1>3, RootedPut DEF PlainStep, PlainState
<1>5. Files!Put(n, type)
  BY <1>2, FileSystemAssumption DEF Files!Put, WithEntry
<1> QED
  BY <1>1, <1>3, <1>4, <1>5, FilesNames DEF Stays, Files!Succeed

(* Entries that are gone.                                                  *)
LEMMA DeleteOutcome ==
  ASSUME PlainStep, NEW call, NEW n \in DOMAIN tree, Delete(call, n = Root, n)
  PROVE  Stays /\ Files!Succeed(call) /\ Files!Without(Under(tree, n))
<1>0. n \in Name /\ DOMAIN tree \subseteq Name
  BY SimpleNames, TreeIsOf DEF PlainStep, PlainState
<1>1. /\ last' = [call |-> call, res |-> "ok"]
      /\ Simple(db') /\ Tree' = Pruned(Tree, Under(Tree, n))
      /\ free = 0 /\ n = Root => free' # 0
  BY DeleteDone DEF PlainStep, PlainState
<1>2. tree' = Pruned(tree, Under(tree, n))
  BY <1>1 DEF PlainStep, PlainState
<1>3. Rooted(tree')
  BY <1>0, <1>1, <1>2, RootedPruned DEF PlainStep, PlainState
<1> QED
  BY <1>1, <1>2, <1>3 DEF Stays, Files!Succeed, Files!Without, Pruned

-----------------------------------------------------------------------------
(* One call after the other.                                               *)

(* Each call does to the tree what FileTree says.                          *)
LEMMA OpenOutcome ==
  ASSUME PlainStep, NEW call, NEW n \in FileNames, NEW flags, Open(call, n, flags)
  PROVE  Stays /\ Files!OpenFile(call, n, flags)
<1>0. PlainState /\ n \in Name
  BY FileSystemAssumption DEF PlainStep
<1>1. CASE n \in DOMAIN tree
  <2> DEFINE r == GetHeader(db, n)
             res == IF r.type = "dir" /\ "write" \in flags THEN "isdir" ELSE "ok"
  <2>1. Opened(n, flags) = r /\ r # NoRow
    BY <1>0, <1>1, PlainLooks
  <2>2. r.type = tree[n].type /\ (tree[n].type = "dir" \/ tree[n].type = "reg")
    BY <1>0, <1>1, PlainLooks
  <2> HIDE DEF r
  <2>3. Answer(call, res)
    BY <2>1 DEF Open
  <2>4. Stays /\ tree' = tree /\ (res # "ok" => Files!Refuse(call)) /\ (res = "ok" => Files!Succeed(call))
    <3> HIDE DEF res
    <3> QED
      BY <2>3, Answered
  <2> QED
    BY <1>1, <2>2, <2>4, FilesNames DEF Files!OpenFile
<1>2. CASE n \notin DOMAIN tree
  <2>1. CreateFile(call, n, flags)
    BY <1>0, <1>2, PlainLooks DEF Open
  <2>2. StatLink(n) = NoRow /\ Parent(n) \in Name
    BY <1>0, PlainLooks, WithoutParent
  <2>3. CASE /\ "create" \notin flags \/ StatName(Parent(n)) = NoRow
             /\ Answer(call, "notexist")
    <3>1. Stays /\ Files!Refuse(call)
      BY <2>3, Answered
    <3>2. "create" \notin flags \/ Parent(n) \notin DOMAIN tree
      BY <1>0, <2>2, <2>3, PlainLooks
    <3> QED
      BY <1>2, <3>1, <3>2, FilesNames DEF Files!OpenFile
  <2>4. CASE "create" \in flags /\ MakeFile(call, n)
    <3>1. Stays /\ Files!Succeed(call) /\ Files!Put(n, "reg") /\ Files!IsDir(Parent(n))
      BY <1>2, <2>4, FileIsMade, MknodeOutcome DEF PlainStep, PlainState, PlainNames
    <3> QED
      BY <1>2, <2>4, <3>1, FilesNames DEF Files!OpenFile
  <2> QED
    BY <2>1, <2>2, <2>3, <2>4 DEF CreateFile
<1> QED
  BY <1>1, <1>2

LEMMA CreateOutcome ==
  ASSUME PlainStep, NEW n \in FileNames, Create(n)
  PROVE  Stays /\ Files!OpenFile(Call("Create", n), n, Flags)
<1> DEFINE call == Call("Create", n)
<1>0. PlainState /\ n \in Name
  BY FileSystemAssumption DEF PlainStep
<1>1. CASE StatName(Parent(n)) = NoRow /\ Answer(call, "notexist")
  <2>1. Stays /\ Files!Refuse(call)
    <3> HIDE DEF call
    <3> QED
      BY <1>1, Answered
  <2>2. Parent(n) \notin DOMAIN tree /\ n \notin DOMAIN tree
    BY <1>0, <1>1, PlainLooks, WithoutParent
  <2> QED
    BY <2>1, <2>2, FilesNames DEF Files!OpenFile
<1>2. CASE Open(call, n, Flags)
  <2> HIDE DEF call
  <2> QED
    BY <1>2, OpenOutcome DEF call
<1> QED
  BY <1>1, <1>2 DEF Create

LEMMA MkdirOutcome ==
  ASSUME PlainStep, NEW n \in FileNames, Mkdir(n)
  PROVE  Stays /\ Files!Mkdir(Call("Mkdir", n), n)
<1> DEFINE call == Call("Mkdir", n)
<1>0. PlainState /\ n \in Name
  BY FileSystemAssumption DEF PlainStep
<1>1. ASSUME NEW res, res # "ok", Answer(call, res), StatName(Parent(n)) = NoRow \/ IsFound(n)
      PROVE  Stays /\ Files!Mkdir(call, n)
  <2> HIDE DEF call
  <2>1. Stays /\ Files!Refuse(call)
    BY <1>1, Answered
  <2>2. Parent(n) \notin DOMAIN tree \/ n \in DOMAIN tree
    BY <1>0, <1>1, PlainLooks, WithoutParent
  <2> QED
    BY <2>1, <2>2, FilesNames DEF Files!Mkdir
<1>2. CASE ~IsFound(n) /\ Mknode(call, Astray(n), "dir", n, NoName)
  <2> HIDE DEF call
  <2>1. n \notin DOMAIN tree
    BY <1>0, <1>2, PlainLooks
  <2>2. Stays /\ Files!Succeed(call) /\ Files!Put(n, "dir") /\ Files!IsDir(Parent(n))
    BY <1>2, <2>1, MknodeOutcome
  <2> QED
    BY <2>1, <2>2, FilesNames DEF Files!Mkdir, call
<1> QED
  BY <1>1, <1>2 DEF Mkdir

LEMMA MkdirAllOutcome ==
  ASSUME PlainStep, NEW n \in FileNames, MkdirAll(n)
  PROVE  Stays /\ Files!MkdirAll(Call("MkdirAll", n), n)
<1> DEFINE call == Call("MkdirAll", n)
           res == IF Found(n).type = "dir" THEN "ok" ELSE "isfile"
<1>0. PlainState /\ n \in Name
  BY FileSystemAssumption DEF PlainStep
<1>1. CASE IsFound(n) /\ Answer(call, res)
  <2>1. Stays /\ tree' = tree /\ (res # "ok" => Files!Refuse(call)) /\ (res = "ok" => Files!Succeed(call))
    <3> HIDE DEF call, res
    <3> QED
      BY <1>1, Answered
  <2>2. /\ n \in DOMAIN tree /\ Found(n).type = tree[n].type
        /\ tree[n].type = "dir" \/ tree[n].type = "reg"
    BY <1>0, <1>1, PlainLooks
  <2> HIDE DEF call
  <2> QED
    BY <2>1, <2>2, FilesNames DEF Files!MkdirAll, call, res
<1>2. CASE ~IsFound(n) /\ Mknode(call, Astray(n), "dir", n, NoName)
  <2> HIDE DEF call
  <2>1. n \notin DOMAIN tree
    BY <1>0, <1>2, PlainLooks
  <2>2. Stays /\ Files!Succeed(call) /\ Files!Put(n, "dir") /\ Files!IsDir(Parent(n))
    BY <1>2, <2>1, MknodeOutcome
  <2> QED
    BY <2>1, <2>2, FilesNames DEF Files!MkdirAll, call
<1> QED
  BY <1>1, <1>2 DEF MkdirAll

LEMMA RemoveOutcome ==
  ASSUME PlainStep, NEW n \in FileNames, RemoveEntry(n)
  PROVE  Stays /\ Files!Remove(Call("Remove", n), n)
<1> DEFINE call == Call("Remove", n)
<1>0. PlainState /\ PlainNames /\ n \in Name /\ (IsFound(n) <=> n \in DOMAIN tree)
  BY FileSystemAssumption, PlainLooks DEF PlainStep
<1>1. ASSUME NEW res, res # "ok", Answer(call, res), ~(IsFound(n) /\ IsEmpty(n))
      PROVE  Stays /\ Files!Remove(call, n)
  <2> HIDE DEF call
  <2>1. Stays /\ Files!Refuse(call)
    BY <1>1, Answered
  <2>2. Under(tree, n) # {n}
    BY <1>0, <1>1, WhatIsUnder
  <2> QED
    BY <2>1, <2>2, FilesNames DEF Files!Remove
<1>2. CASE IsFound(n) /\ IsEmpty(n) /\ Delete(call, n = Root, n)
  <2> HIDE DEF call
  <2>1. Under(tree, n) = {n}
    BY <1>0, <1>2, WhatIsUnder
  <2>2. Stays /\ Files!Succeed(call) /\ Files!Without(Under(tree, n))
    BY <1>0, <1>2, DeleteOutcome
  <2> QED
    BY <2>1, <2>2, FilesNames DEF Files!Remove, call
<1> QED
  BY <1>1, <1>2 DEF RemoveEntry, RemoveWithoutLocking

LEMMA RemoveAllOutcome ==
  ASSUME PlainStep, NEW n \in FileNames, RemoveAll(n)
  PROVE  Stays /\ Files!RemoveAll(Call("RemoveAll", n), n)
<1> DEFINE call == Call("RemoveAll", n)
<1>0. /\ PlainState /\ PlainNames /\ n \in Name
      /\ Lookup(db, n) # NoRow <=> n \in DOMAIN tree
  BY FileSystemAssumption, PlainLooks DEF PlainStep
<1>1. CASE Lookup(db, n) = NoRow /\ db' = db /\ last' = [call |-> call, res |-> "ok"]
  <2>1. tree' = tree /\ tree = [m \in DOMAIN tree |-> tree[m]]
    BY <1>1, TreeIsOf DEF PlainStep, PlainState, TreeOf
  <2>2. Under(tree, n) = {}
    BY <1>0, <1>1, WhatIsUnder
  <2>3. Stays /\ Files!Succeed(call)
    BY <1>1, <2>1 DEF PlainStep, PlainState, Stays, Files!Succeed
  <2>4. Files!Without({})
    BY <2>1 DEF Files!Without
  <2> QED
    BY <2>2, <2>3, <2>4, FilesNames DEF Files!RemoveAll
<1>2. CASE Lookup(db, n) # NoRow /\ Delete(call, n = Root, n)
  <2> HIDE DEF call
  <2>1. Stays /\ Files!Succeed(call) /\ Files!Without(Under(tree, n))
    BY <1>0, <1>2, DeleteOutcome
  <2> QED
    BY <2>1, FilesNames DEF Files!RemoveAll, call
<1> QED
  BY <1>1, <1>2 DEF RemoveAll

LEMMA ChmodOutcome ==
  ASSUME PlainStep, NEW n \in FileNames, Chmod(n)
  PROVE  Stays /\ Files!Chmod(Call("Chmod", n), n)
<1> DEFINE call == Call("Chmod", n)
<1>0. /\ PlainState /\ PlainNames /\ n \in Name /\ DOMAIN tree \subseteq Name
      /\ (Target(n) # NoRow <=> n \in DOMAIN tree) /\ Target(n) = GetHeader(db, n)
  BY FileSystemAssumption, PlainLooks DEF PlainStep
<1>1. CASE Target(n) = NoRow /\ Answer(call, "notexist")
  <2> HIDE DEF call
  <2>1. Stays /\ Files!Refuse(call)
    BY <1>1, Answered
  <2> QED
    BY <1>0, <1>1, <2>1, FilesNames DEF Files!Chmod, call
<1>2. ASSUME NEW mode \in Modes, Target(n) # NoRow,
             Perform(call, FALSE, <<MetadataHeader(Target(n), mode)>>)
      PROVE  Stays /\ Files!Chmod(call, n)
  <2> HIDE DEF call
  <2>1. /\ last' = [call |-> call, res |-> "ok"]
        /\ Simple(db') /\ Tree' = WithEntry(Tree, n, [type |-> Tree[n].type, mode |-> mode])
    BY <1>0, <1>2, ChangeDone DEF PlainState, PlainNames
  <2>2. tree' = WithEntry(tree, n, [type |-> tree[n].type, mode |-> mode]) /\ n \in DOMAIN tree
    BY <1>0, <1>2, <2>1 DEF PlainStep, PlainState
  <2>3. Rooted(tree')
    BY <1>0, <2>2, RootedPut DEF PlainState
  <2>4. Files!Put(n, tree[n].type)
    BY <2>2 DEF Files!Put, WithEntry
  <2> QED
    BY <2>1, <2>2, <2>3, <2>4, FilesNames DEF Stays, Files!Chmod, Files!Succeed
<1> QED
  BY <1>1, <1>2 DEF Chmod

LEMMA SymlinkOutcome ==
  ASSUME PlainStep, NEW old \in FileNames, NEW n \in FileNames, SymlinkIfPossible(old, n)
  PROVE  Stays /\ Files!Symlink(CallTo("Symlink", old, n), n)
<1> DEFINE call == CallTo("Symlink", old, n)
<1>0. PlainState /\ n \in Name /\ Parent(n) \in Name
  BY FileSystemAssumption, WithoutParent DEF PlainStep
<1>1. ASSUME NEW res, res # "ok", Answer(call, res),
             StatName(Parent(n)) = NoRow \/ n = Root \/ StatName(n) # NoRow
      PROVE  Stays /\ Files!Symlink(call, n)
  <2> HIDE DEF call
  <2>1. Stays /\ Files!Refuse(call)
    BY <1>1, Answered
  <2>2. Parent(n) \notin DOMAIN tree \/ n = Root \/ n \in DOMAIN tree
    BY <1>0, <1>1, PlainLooks
  <2> QED
    BY <2>1, <2>2, FilesNames DEF Files!Symlink
<1>2. ~MakeLink(call, old, n)
  BY DEF MakeLink, Mknode, Perform, Operate, PlainStep, PlainState
<1> HIDE DEF call
<1> QED
  BY <1>1, <1>2 DEF SymlinkIfPossible, call

LEMMA RenameOutcome ==
  ASSUME PlainStep, NEW from \in FileNames, NEW to \in FileNames, Rename(from, to)
  PROVE  Stays /\ Files!Rename(CallTo("Rename", from, to), from, to)
<1> DEFINE call == CallTo("Rename", from, to)
<1>0. /\ PlainState /\ PlainNames /\ from \in Name /\ to \in Name /\ Parent(to) \in Name
      /\ DOMAIN tree \subseteq Name
      /\ (IsFound(from) <=> from \in DOMAIN tree) /\ (StatName(to) # NoRow <=> to \in DOMAIN tree)
      /\ (StatName(Parent(to)) # NoRow <=> Parent(to) \in DOMAIN tree)
  BY FileSystemAssumption, PlainLooks, WithoutParent DEF PlainStep
<1>1. ASSUME NEW res, res # "ok", Answer(call, res),
             \/ from = Root \/ ~IsFound(from) \/ StatName(Parent(to)) = NoRow
             \/ StatName(to) # NoRow
      PROVE  Stays /\ Files!Rename(call, from, to)
  <2> HIDE DEF call
  <2>1. Stays /\ Files!Refuse(call)
    BY <1>1, Answered
  <2>2. from = Root \/ from \notin DOMAIN tree \/ Parent(to) \notin DOMAIN tree \/ to \in DOMAIN tree
    BY <1>0, <1>1
  <2> QED
    BY <2>1, <2>2, FilesNames DEF Files!Rename
<1>2. CASE StatName(to) # NoRow /\ RenameOnto(call, from, to)
  <2> HIDE DEF call
  <2>1. ~Delete(call, TRUE, to)
    BY DEF Delete, Perform, Operate, PlainStep, PlainState
  <2>2. PICK res \in {"exist", "notexist", "notempty"} : Answer(call, res)
    BY <1>2, <2>1 DEF RenameOnto, RemoveWithoutLocking
  <2> QED
    BY <1>1, <1>2, <2>2 DEF call
<1>3. CASE from # Root /\ IsFound(from) /\ StatName(to) = NoRow /\ Move(call, from, to)
  <2>1. from # to /\ from \in DOMAIN tree
    BY <1>0, <1>3
  <2> HIDE DEF call
  <2>2. /\ last' = [call |-> call, res |-> "ok"] /\ ~Below(to, from) /\ ~Astray(to)
        /\ Movable(db, Under(tree, from), from, to)
        /\ Simple(db') /\ tree' = Grafted(tree, Under(tree, from), from, to)
    BY <1>0, <1>3, <2>1, MoveDone DEF PlainStep, PlainState
  <2>3. Parent(to) \in DOMAIN tree /\ tree[Parent(to)].type = "dir"
    BY <1>0, <2>2, WithoutParent
  <2>4. \A k \in Under(tree, from) : Rebase(k, from, to) \notin DOMAIN tree
    <3> SUFFICES ASSUME NEW k \in Under(tree, from), Rebase(k, from, to) \in DOMAIN tree
                 PROVE  FALSE
      OBVIOUS
    <3>1. Rebase(k, from, to) \in Name
      BY <1>0
    <3>2. GetHeader(db, Rebase(k, from, to)) \in db
          /\ GetHeader(db, Rebase(k, from, to)).name = Rebase(k, from, to)
      BY <1>0, <3>1, SimpleLooks DEF PlainState, Live
    <3> QED
      BY <2>2, <3>2 DEF Movable
  <2>5. /\ to \notin DOMAIN tree /\ Rooted(tree')
        /\ tree' = [m \in (DOMAIN tree \ Under(tree, from)) \cup
                            {Rebase(k, from, to) : k \in Under(tree, from)} |->
                      IF m = to \/ Below(m, to) THEN tree[Rebase(m, to, from)] ELSE tree[m]]
    <3> DEFINE f == tree
    <3>1. Rooted(f) /\ DOMAIN f \subseteq Name /\ from \in DOMAIN f /\ f[Parent(to)].type = "dir"
          /\ Parent(to) \in DOMAIN f /\ \A k \in Under(f, from) : Rebase(k, from, to) \notin DOMAIN f
      BY <1>0, <2>1, <2>3, <2>4 DEF PlainState
    <3> HIDE DEF f
    <3>2. /\ to \notin DOMAIN f /\ Rooted(Grafted(f, Under(f, from), from, to))
          /\ Grafted(f, Under(f, from), from, to)
               = [m \in (DOMAIN f \ Under(f, from)) \cup
                          {Rebase(k, from, to) : k \in Under(f, from)} |->
                    IF m = to \/ Below(m, to) THEN f[Rebase(m, to, from)] ELSE f[m]]
      BY <1>0, <1>3, <2>2, <3>1, GraftedIs
    <3> QED
      BY <2>2, <3>2 DEF f
  <2>6. tree' = [m \in (DOMAIN tree \ Files!Subtree(from)) \cup
                         {Files!Rebase(k, from, to) : k \in Files!Subtree(from)} |->
                   IF m = to \/ Files!Below(m, to) THEN tree[Files!Rebase(m, to, from)] ELSE tree[m]]
    BY <2>5, FilesNames
  <2>7. /\ from # Files!Root /\ Files!Exists(from) /\ ~Files!Exists(to)
        /\ ~Files!Below(to, from) /\ Files!IsDir(Files!Parent(to))
    BY <1>3, <2>1, <2>2, <2>3, <2>5, FilesNames
  <2>8. Files!Succeed(call)
    BY <2>2 DEF Files!Succeed
  <2> QED
    BY <2>2, <2>5, <2>6, <2>7, <2>8 DEF Stays, Files!Rename, call
<1> QED
  BY <1>1, <1>2, <1>3 DEF Rename

-----------------------------------------------------------------------------
(* Every call.                                                             *)

(* The outcome FileTree gives a call is that of its operation.             *)
LEMMA OutcomeOf ==
  ASSUME NEW k,
         \/ k.op = "Create" /\ Files!OpenFile(k, k.name, Flags)
         \/ k.op = "OpenFile" /\ Files!OpenFile(k, k.name, k.flags)
         \/ k.op = "Mkdir" /\ Files!Mkdir(k, k.name)
         \/ k.op = "MkdirAll" /\ Files!MkdirAll(k, k.name)
         \/ k.op = "Remove" /\ Files!Remove(k, k.name)
         \/ k.op = "RemoveAll" /\ Files!RemoveAll(k, k.name)
         \/ k.op = "Rename" /\ Files!Rename(k, k.name, k.to)
         \/ k.op = "Symlink" /\ Files!Symlink(k, k.to)
         \/ k.op = "Chmod" /\ Files!Chmod(k, k.name)
         \/ k.op = "Lstat" /\ Files!Refuse(k)
  PROVE  Files!Outcome(k)
<1>1. CASE k.op = "Create" /\ Files!OpenFile(k, k.name, Flags)
  BY <1>1 DEF Files!Outcome
<1>2. CASE k.op = "OpenFile" /\ Files!OpenFile(k, k.name, k.flags)
  BY <1>2 DEF Files!Outcome
<1>3. CASE k.op = "Mkdir" /\ Files!Mkdir(k, k.name)
  BY <1>3 DEF Files!Outcome
<1>4. CASE k.op = "MkdirAll" /\ Files!MkdirAll(k, k.name)
  BY <1>4 DEF Files!Outcome
<1>5. CASE k.op = "Remove" /\ Files!Remove(k, k.name)
  BY <1>5 DEF Files!Outcome
<1>6. CASE k.op = "RemoveAll" /\ Files!RemoveAll(k, k.name)
  BY <1>6 DEF Files!Outcome
<1>7. CASE k.op = "Rename" /\ Files!Rename(k, k.name, k.to)
  BY <1>7 DEF Files!Outcome
<1>8. CASE k.op = "Symlink" /\ Files!Symlink(k, k.to)
  BY <1>8 DEF Files!Outcome
<1>9. CASE k.op = "Chmod" /\ Files!Chmod(k, k.name)
  BY <1>9 DEF Files!Outcome
<1>10. CASE k.op = "Lstat" /\ Files!Refuse(k)
  BY <1>10 DEF Files!Outcome
<1> QED
  BY <1>1, <1>2, <1>3, <1>4, <1>5, <1>6, <1>7, <1>8, <1>9, <1>10

(* A tree's call tells which one it was.                                   *)
LEMMA FilesTell ==
  ASSUME NEW call, NEW n, NEW to, NEW flags,
         \/ Files!OpenFile(call, n, flags) \/ Files!Mkdir(call, n) \/ Files!MkdirAll(call, n)
         \/ Files!Remove(call, n) \/ Files!RemoveAll(call, n) \/ Files!Rename(call, n, to)
         \/ Files!Symlink(call, n) \/ Files!Chmod(call, n) \/ Files!Refuse(call)
  PROVE  last'.call = call
<1>1. ASSUME Files!Succeed(call) \/ Files!Refuse(call) PROVE last'.call = call
  <2>1. \E ok : [call |-> last'.call, ok |-> last'.res = "ok"] = [call |-> call, ok |-> ok]
    BY <1>1 DEF Files!Succeed, Files!Refuse
  <2> QED
    BY <2>1
<1>2. Files!Succeed(call) \/ Files!Refuse(call)
  BY DEF Files!OpenFile, Files!Mkdir, Files!MkdirAll, Files!Remove, Files!RemoveAll,
         Files!Rename, Files!Symlink, Files!Chmod
<1> QED
  BY <1>1, <1>2

(* Every call a client makes has the outcome FileTree gives it.            *)
LEMMA CallsOutcome ==
  ASSUME PlainStep, Next
  PROVE  Stays /\ Files!Outcome(last'.call)
<1>1. ASSUME NEW n \in FileNames, Create(n)
      PROVE  Stays /\ Files!Outcome(last'.call)
  <2> DEFINE call == Call("Create", n)
  <2>1. Stays /\ Files!OpenFile(call, n, Flags)
    BY <1>1, CreateOutcome
  <2>2. call.op = "Create" /\ call.name = n
    BY DEF Call, CallWith
  <2> HIDE DEF call
  <2>3. last'.call = call
    BY <2>1, FilesTell
  <2> QED
    BY <2>1, <2>2, <2>3, OutcomeOf
<1>2. ASSUME NEW n \in FileNames, Mkdir(n)
      PROVE  Stays /\ Files!Outcome(last'.call)
  <2> DEFINE call == Call("Mkdir", n)
  <2>1. Stays /\ Files!Mkdir(call, n)
    BY <1>2, MkdirOutcome
  <2>2. call.op = "Mkdir" /\ call.name = n
    BY DEF Call, CallWith
  <2> HIDE DEF call
  <2>3. last'.call = call
    BY <2>1, FilesTell
  <2> QED
    BY <2>1, <2>2, <2>3, OutcomeOf
<1>3. ASSUME NEW n \in FileNames, MkdirAll(n)
      PROVE  Stays /\ Files!Outcome(last'.call)
  <2> DEFINE call == Call("MkdirAll", n)
  <2>1. Stays /\ Files!MkdirAll(call, n)
    BY <1>3, MkdirAllOutcome
  <2>2. call.op = "MkdirAll" /\ call.name = n
    BY DEF Call, CallWith
  <2> HIDE DEF call
  <2>3. last'.call = call
    BY <2>1, FilesTell
  <2> QED
    BY <2>1, <2>2, <2>3, OutcomeOf
<1>4. ASSUME NEW n \in FileNames, RemoveEntry(n)
      PROVE  Stays /\ Files!Outcome(last'.call)
  <2> DEFINE call == Call("Remove", n)
  <2>1. Stays /\ Files!Remove(call, n)
    BY <1>4, RemoveOutcome
  <2>2. call.op = "Remove" /\ call.name = n
    BY DEF Call, CallWith
  <2> HIDE DEF call
  <2>3. last'.call = call
    BY <2>1, FilesTell
  <2> QED
    BY <2>1, <2>2, <2>3, OutcomeOf
<1>5. ASSUME NEW n \in FileNames, RemoveAll(n)
      PROVE  Stays /\ Files!Outcome(last'.call)
  <2> DEFINE call == Call("RemoveAll", n)
  <2>1. Stays /\ Files!RemoveAll(call, n)
    BY <1>5, RemoveAllOutcome
  <2>2. call.op = "RemoveAll" /\ call.name = n
    BY DEF Call, CallWith
  <2> HIDE DEF call
  <2>3. last'.call = call
    BY <2>1, FilesTell
  <2> QED
    BY <2>1, <2>2, <2>3, OutcomeOf
<1>6. ASSUME NEW n \in FileNames, Chmod(n)
      PROVE  Stays /\ Files!Outcome(last'.call)
  <2> DEFINE call == Call("Chmod", n)
  <2>1. Stays /\ Files!Chmod(call, n)
    BY <1>6, ChmodOutcome
  <2>2. call.op = "Chmod" /\ call.name = n
    BY DEF Call, CallWith
  <2> HIDE DEF call
  <2>3. last'.call = call
    BY <2>1, FilesTell
  <2> QED
    BY <2>1, <2>2, <2>3, OutcomeOf
<1>7. ASSUME NEW n \in FileNames, LstatIfPossible(n)
      PROVE  Stays /\ Files!Outcome(last'.call)
  <2> DEFINE call == Call("Lstat", n)
  <2>1. StatLink(n) = NoRow
    BY FileSystemAssumption, PlainLooks DEF PlainStep
  <2>2. Answer(call, "notexist") /\ call.op = "Lstat"
    BY <1>7, <2>1 DEF LstatIfPossible, Call, CallWith
  <2> HIDE DEF call
  <2>3. Stays /\ Files!Refuse(call)
    BY <2>2, Answered
  <2>4. last'.call = call
    BY <2>3, FilesTell
  <2> QED
    BY <2>2, <2>3, <2>4, OutcomeOf
<1>8. ASSUME NEW n \in FileNames, NEW flags \in SUBSET Flags, OpenFile(n, flags)
      PROVE  Stays /\ Files!Outcome(last'.call)
  <2> DEFINE call == CallWith("OpenFile", n, n, flags)
  <2>1. Open(call, n, flags)
    BY <1>8 DEF OpenFile
  <2>2. call.op = "OpenFile" /\ call.name = n /\ call.flags = flags
    BY DEF CallWith
  <2> HIDE DEF call
  <2>3. Stays /\ Files!OpenFile(call, n, flags)
    BY <2>1, OpenOutcome
  <2>4. last'.call = call
    BY <2>3, FilesTell
  <2> QED
    BY <2>2, <2>3, <2>4, OutcomeOf
<1>9. ASSUME NEW from \in FileNames, NEW to \in FileNames, Rename(from, to)
      PROVE  Stays /\ Files!Outcome(last'.call)
  <2> DEFINE call == CallTo("Rename", from, to)
  <2>1. Stays /\ Files!Rename(call, from, to)
    BY <1>9, RenameOutcome
  <2>2. call.op = "Rename" /\ call.name = from /\ call.to = to
    BY DEF CallTo, CallWith
  <2> HIDE DEF call
  <2>3. last'.call = call
    BY <2>1, FilesTell
  <2> QED
    BY <2>1, <2>2, <2>3, OutcomeOf
<1>10. ASSUME NEW old \in FileNames, NEW n \in FileNames, SymlinkIfPossible(old, n)
      PROVE  Stays /\ Files!Outcome(last'.call)
  <2> DEFINE call == CallTo("Symlink", old, n)
  <2>1. Stays /\ Files!Symlink(call, n)
    BY <1>10, SymlinkOutcome
  <2>2. call.op = "Symlink" /\ call.to = n
    BY DEF CallTo, CallWith
  <2> HIDE DEF call
  <2>3. last'.call = call
    BY <2>1, FilesTell
  <2> QED
    BY <2>1, <2>2, <2>3, OutcomeOf
<1> QED
  BY <1>1, <1>2, <1>3, <1>4, <1>5, <1>6, <1>7, <1>8, <1>9, <1>10 DEF Next

-----------------------------------------------------------------------------
(* The file system implements the tree.                                    *)

TreeInv ==
  /\ RowsInv /\ tree = Tree
  /\ free \in Nat /\ (free = 0 => Simple(db) /\ Rooted(tree))

(* The count of liberties taken never goes back to none.                   *)
LEMMA FreeCounts ==
  ASSUME free \in Nat, Next
  PROVE  free' \in Nat /\ (free # 0 => free' # 0)
<1> DEFINE Counts == free' = free \/ \E liberty, hdrs : Operate(liberty, hdrs)
<1>0. ASSUME NEW call, NEW liberty, NEW hdrs, Perform(call, liberty, hdrs) PROVE Counts
  BY <1>0 DEF Perform
<1>1. ASSUME NEW call, NEW liberty, NEW n, RemoveWithoutLocking(call, liberty, n) PROVE Counts
  <2>1. CASE free' = free
    BY <2>1
  <2>2. CASE Delete(call, liberty, n)
    <3> HIDE DEF Counts
    <3> QED
      BY <1>0, <2>2 DEF Delete
  <2> QED
    BY <1>1, <2>1, <2>2 DEF RemoveWithoutLocking, Answer
<1>2. ASSUME NEW call, NEW liberty, NEW type, NEW n, NEW link, Mknode(call, liberty, type, n, link)
      PROVE  Counts
  <2> HIDE DEF Counts
  <2> QED
    BY <1>0, <1>2 DEF Mknode
<1>3. ASSUME NEW call, NEW res, Answer(call, res) PROVE Counts
  BY <1>3 DEF Answer
<1>4. ASSUME NEW call, NEW n, NEW flags, Open(call, n, flags) PROVE Counts
  <2>1. CASE MakeFile(call, n)
    BY <2>1 DEF MakeFile
  <2> HIDE DEF Counts
  <2> QED
    BY <1>3, <1>4, <2>1 DEF Open, CreateFile
<1>5. ASSUME NEW n, RemoveAll(n) \/ Chmod(n) PROVE Counts
  <2>1. CASE free' = free
    BY <2>1
  <2> HIDE DEF Counts
  <2> QED
    BY <1>0, <1>3, <1>5, <2>1 DEF RemoveAll, Delete, Chmod
<1>6. ASSUME NEW from, NEW to, Rename(from, to) PROVE Counts
  <2>1. ASSUME NEW call, Move(call, from, to) PROVE Counts
    <3> HIDE DEF Counts
    <3> QED
      BY <1>0, <1>3, <2>1 DEF Move
  <2> HIDE DEF Counts
  <2> QED
    BY <1>1, <1>3, <1>6, <2>1 DEF Rename, RenameOnto
<1> HIDE DEF Counts
<1>7. Counts
  BY <1>1, <1>2, <1>3, <1>4, <1>5, <1>6
     DEF Next, Create, OpenFile, Mkdir, MkdirAll, RemoveEntry, LstatIfPossible, SymlinkIfPossible,
         MakeLink
<1>8. CASE free' = free
  BY <1>8
<1>9. CASE \E liberty, hdrs : Operate(liberty, hdrs)
  BY <1>9 DEF Operate
<1> QED
  BY <1>7, <1>8, <1>9 DEF Counts

(* Initialize makes a tree that consists of the root.                      *)
LEMMA TreeInitInv ==
  ASSUME TreeInit
  PROVE  TreeInv /\ Files!Init
<1> DEFINE row == TarHeaderToDBHeader(RootHeader(NewMode), 1, 1)
<1>1. RowsInv /\ Tidy(db)
  BY InitKeeps, InitTidy DEF TreeInit
<1>2. db = {row}
  BY DEF TreeInit, Init, RootHeader, ArchiveHeader, IndexHeader, IndexCreate, Indexed, UpsertHeader
<1>3. /\ row.name = Root /\ row.link = NoName /\ row.from = NoName /\ row.type = "dir"
      /\ row.mode = NewMode /\ ~row.deleted
  BY DEF RootHeader, ArchiveHeader, TarHeaderToDBHeader, IndexedName
<1> HIDE DEF row
<1>4. Simple(db)
  BY <1>1, <1>2, <1>3 DEF Simple, RowsInv
<1> DEFINE f == [n \in {Root} |-> [type |-> "dir", mode |-> NewMode]]
<1>5. TreeOf(db) = f
  <2>1. ASSUME NEW r \in Live(db) PROVE r.name \in DOMAIN f /\ f[r.name] = Seen(r)
    BY <1>2, <1>3 DEF Live, Seen
  <2>2. ASSUME NEW n \in DOMAIN f PROVE \E r \in Live(db) : r.name = n
    BY <1>2, <1>3 DEF Live
  <2>3. f = [n \in DOMAIN f |-> f[n]]
    OBVIOUS
  <2> HIDE DEF f
  <2> QED
    BY <1>4, <2>1, <2>2, <2>3, SameTree
<1>6. tree = f /\ tree = Tree
  BY <1>5, TreeIsOf DEF TreeInit
<1>7. Rooted(tree)
  BY <1>6 DEF Rooted
<1>8. free = 0 /\ last.res = "ok"
  BY DEF TreeInit, Init
<1>9. Files!Init
  BY <1>6, <1>8, FileSystemAssumption, FilesNames DEF Files!Init
<1> QED
  BY <1>1, <1>4, <1>6, <1>7, <1>8, <1>9 DEF TreeInv

(* Every step keeps the invariant and is one of FileTree.                  *)
LEMMA TreeStep ==
  ASSUME PlainNames, TreeInv, TreeNext
  PROVE  TreeInv' /\ Files!Next
<1>1. RowsInv' /\ Next
  BY CallsKeep DEF TreeNext, TreeInv
<1>2. tree' = Tree'
  BY TreeIsOf DEF TreeNext, TreeInv
<1>3. free' \in Nat /\ (free # 0 => free' # 0)
  BY <1>1, FreeCounts DEF TreeInv
<1>4. CASE free' = 0
  <2>1. PlainStep
    BY <1>2, <1>3, <1>4 DEF TreeInv, PlainStep, PlainState
  <2>2. Stays /\ Files!Outcome(last'.call)
    BY <1>1, <2>1, CallsOutcome
  <2>3. Simple(db)' /\ Rooted(tree)'
    BY <2>2 DEF Stays, Simple, Table, KeysUnique, Tidy, Rooted
  <2>4. Files!Next
    BY <1>4, <2>1, <2>2 DEF Files!Next, PlainStep, PlainState
  <2> QED
    BY <1>1, <1>2, <1>3, <2>3, <2>4 DEF TreeInv
<1>5. CASE free' # 0
  <2>1. Files!Next
    BY <1>5 DEF Files!Next
  <2> QED
    BY <1>1, <1>2, <1>3, <1>5, <2>1 DEF TreeInv
<1> QED
  BY <1>4, <1>5

(* As long as clients take no liberty every call of pkg/fs/filesystem.go   *)
(* has the outcome and the effect it has on a tree of directories and      *)
(* files, for any number of names and of calls, as long as in a LIKE       *)
(* pattern the components in use match only themselves and no name ends in *)
(* the suffix of the formats: the file system implements FileTree.         *)
THEOREM TreeIsImplemented ==
  ASSUME PlainNames
  PROVE  TreeSpec => ImplementsFileTree
<1>1. TreeInit => TreeInv /\ Files!Init
  BY TreeInitInv
<1>2. TreeInv /\ [TreeNext]_<<fsVars, tree>> => TreeInv'
  <2> SUFFICES ASSUME TreeInv, [TreeNext]_<<fsVars, tree>> PROVE TreeInv'
    OBVIOUS
  <2>1. CASE UNCHANGED <<fsVars, tree>>
    BY <2>1, TreeIsOf DEF TreeInv, fsVars, RowsInv, Simple, Table, KeysUnique, Tidy, Rooted
  <2>2. CASE TreeNext
    BY <2>2, TreeStep
  <2> QED
    BY <2>1, <2>2
<1>3. TreeInv /\ [TreeNext]_<<fsVars, tree>> => [Files!Next]_(Files!treeVars)
  <2> SUFFICES ASSUME TreeInv, [TreeNext]_<<fsVars, tree>> PROVE [Files!Next]_(Files!treeVars)
    OBVIOUS
  <2>1. CASE UNCHANGED <<fsVars, tree>>
    BY <2>1 DEF fsVars, Files!treeVars
  <2>2. CASE TreeNext
    BY <2>2, TreeStep
  <2> QED
    BY <2>1, <2>2
<1> QED
  BY <1>1, <1>2, <1>3, PTL DEF TreeSpec, ImplementsFileTree, Files!Spec

-----------------------------------------------------------------------------
(* The index while files are open.                                         *)

(* What the rows are between calls, whatever contents clients have         *)
(* written; no client of OpenFiles makes a link.                           *)
Settled(t) == \A r \in t : PlacedRow(r) = r
Linkless(r) == "link" \in DOMAIN r /\ r.link = NoName
Plain(t) == IsFiniteSet(t) /\ \A r \in t : Linkless(r)
OpenInv == Settled(db) /\ Plain(db)

LEMMA PlacedTwice ==
  ASSUME NEW r
  PROVE  PlacedRow(PlacedRow(r)) = PlacedRow(r)
  BY DEF PlacedRow

LEMMA PlacedLinkless ==
  ASSUME NEW r, Linkless(r)
  PROVE  Linkless(PlacedRow(r))
  BY DEF PlacedRow, Linkless

(* The rows some operation makes of rows and of others.                    *)
LEMMA PlainImage ==
  ASSUME NEW t, Plain(t), NEW f, DOMAIN f = t, \A r \in t : Linkless(f[r])
  PROVE  Plain({f[r] : r \in t})
<1> DEFINE g == [r \in t |-> f[r]]
           T == {f[r] : r \in t}
<1>1. g \in [t -> T] /\ {g[r] : r \in t} = T
  OBVIOUS
<1>2. IsFiniteSet(t)
  BY DEF Plain
<1>3. IsFiniteSet({g[r] : r \in t})
  <2> HIDE DEF g, T
  <2> QED
    BY <1>1, <1>2, FiniteImage, SMTT(20)
<1> QED
  BY <1>1, <1>3 DEF Plain

LEMMA PlainUnplaced ==
  ASSUME NEW t, Plain(t)
  PROVE  Plain(Unplaced(t)) /\ Settled(Unplaced(t))
<1> DEFINE f == [r \in t |-> PlacedRow(r)]
<1>1. {f[r] : r \in t} = {PlacedRow(r) : r \in t} /\ DOMAIN f = t
  OBVIOUS
<1>2. \A r \in t : Linkless(f[r])
  BY PlacedLinkless DEF Plain
<1>3. Plain({f[r] : r \in t})
  <2> HIDE DEF f
  <2> QED
    BY <1>1, <1>2, PlainImage
<1> QED
  BY <1>1, <1>3, UnplacedDef, PlacedTwice DEF Settled

(* The statements keep it so.                                              *)
LEMMA PlainUpsert ==
  ASSUME NEW t, Plain(t), NEW row, Linkless(row)
  PROVE  Plain(UpsertHeader(t, row))
<1>1. IsFiniteSet({r \in t : ~SameKey(r, row)})
  BY FS_Subset DEF Plain
<1>2. IsFiniteSet(UpsertHeader(t, row))
  BY <1>1, FS_AddElement DEF UpsertHeader
<1> QED
  BY <1>2 DEF Plain, UpsertHeader

LEMMA PlainUpdate ==
  ASSUME NEW t, Plain(t), NEW row, Linkless(row)
  PROVE  Plain(UpdateHeaderMetadata(t, row))
<1> DEFINE f == [r \in t |-> IF SameKey(r, row) THEN row ELSE r]
<1>1. UpdateHeaderMetadata(t, row) = {f[r] : r \in t} /\ DOMAIN f = t
  BY DEF UpdateHeaderMetadata
<1>2. \A r \in t : Linkless(f[r])
  BY DEF Plain
<1> HIDE DEF f
<1> QED
  BY <1>1, <1>2, PlainImage

LEMMA PlainMove ==
  ASSUME NEW t, Plain(t), NEW old, NEW new, NEW pos
  PROVE  Plain(MoveHeader(t, old, new, pos))
<1> DEFINE f == [r \in t |-> IF r.name = old THEN [r EXCEPT !.name = new, !.last = pos] ELSE r]
<1>1. MoveHeader(t, old, new, pos) = {f[r] : r \in t} /\ DOMAIN f = t
  BY DEF MoveHeader
<1>2. \A r \in t : Linkless(f[r])
  BY DEF Plain, Linkless
<1> HIDE DEF f
<1> QED
  BY <1>1, <1>2, PlainImage

LEMMA PlainDelete ==
  ASSUME NEW t, Plain(t), NEW n, NEW pos
  PROVE  Plain(DeleteHeader(t, n, pos))
<1> DEFINE f == [r \in t |-> IF r = GetHeader(t, n)
                                THEN [r EXCEPT !.deleted = TRUE, !.last = pos] ELSE r]
<1>1. DeleteHeader(t, n, pos) = {f[r] : r \in t} /\ DOMAIN f = t
  BY DEF DeleteHeader
<1>2. \A r \in t : Linkless(f[r])
  BY DEF Plain, Linkless
<1> HIDE DEF f
<1> QED
  BY <1>1, <1>2, PlainImage

LEMMA PlainIndexed ==
  ASSUME NEW t, Plain(t), NEW pos, NEW h, h.link = NoName, h.action \in Actions
  PROVE  Plain(IndexHeader(t, pos, h).db)
<1>1. ASSUME NEW record, NEW at PROVE Linkless(TarHeaderToDBHeader(h, record, at))
  BY DEF TarHeaderToDBHeader, Linkless
<1>2. CASE h.action = "create"
  BY <1>1, <1>2, PlainUpsert DEF IndexHeader, IndexCreate, Indexed
<1>3. CASE h.action = "delete"
  BY <1>3, PlainDelete DEF IndexHeader, IndexDelete, Indexed, Failed
<1>4. CASE h.action = "update"
  <2> DEFINE edited == IndexEdit(t, pos, h)
             moved == MoveHeader(edited, OldName(h), IndexedName(h), pos)
  <2>1. Plain(edited)
    BY <1>1, PlainUpdate DEF IndexEdit
  <2>2. IndexHeader(t, pos, h).db \in {edited, moved}
    BY <1>4 DEF IndexHeader, IndexUpdate, Indexed, Failed
  <2> HIDE DEF edited
  <2> QED
    BY <2>1, <2>2, PlainMove
<1> QED
  BY <1>2, <1>3, <1>4 DEF Actions

LEMMA PlainIndexedUpTo ==
  ASSUME NEW rows, Plain(rows), NEW Hs, NEW t \in Seq(Hs), NEW at,
         \A h \in Hs : h.link = NoName /\ h.action \in Actions
  PROVE  Plain(IndexedUpTo(rows, at, t)[Len(t)].db)
<1> DEFINE S == {n \in 0 .. Len(t) : Plain(IndexedUpTo(rows, at, t)[n].db)}
<1>0. Len(t) \in Nat
  OBVIOUS
<1>1. 0 \in S
  <2>1. IndexedUpTo(rows, at, t)[0] = Indexed(rows) /\ Indexed(rows).db = rows
    BY IndexedUpToDef DEF Indexed
  <2> QED
    BY <1>0, <2>1
<1>2. ASSUME NEW n \in 1 .. Len(t), n - 1 \in S PROVE n \in S
  <2> DEFINE before == IndexedUpTo(rows, at, t)[n - 1]
  <2>1. Plain(before.db)
    BY <1>0, <1>2
  <2>2. IndexedUpTo(rows, at, t)[n] = After(before, at + n, t[n])
    BY IndexedUpToDef
  <2>3. t[n] \in Hs
    BY ElementOfSeq
  <2> HIDE DEF before
  <2>4. Plain(IndexHeader(before.db, at + n, t[n]).db)
    BY <2>1, <2>3, PlainIndexed
  <2> QED
    BY <2>1, <2>2, <2>4 DEF After
<1>3. \A n \in 0 .. Len(t) : n \in S
  <2> HIDE DEF S
  <2> QED
    BY <1>0, <1>1, <1>2, UpTo
<1> QED
  BY <1>0, <1>3

LEMMA OperatePlain ==
  ASSUME OpenInv, NEW liberty, NEW Hs, NEW hdrs \in Seq(Hs),
         \A h \in Hs : h.link = NoName /\ h.action \in Actions,
         Operate(liberty, hdrs)
  PROVE  OpenInv'
<1>1. db' = Unplaced(IndexAll(hdrs).db)
  BY DEF Operate
<1>2. Plain(IndexAll(hdrs).db)
  BY PlainIndexedUpTo DEF OpenInv, IndexAll
<1>3. Plain(Unplaced(IndexAll(hdrs).db)) /\ Settled(Unplaced(IndexAll(hdrs).db))
  BY <1>2, PlainUnplaced
<1> QED
  BY <1>1, <1>3 DEF OpenInv

LEMMA PerformPlain ==
  ASSUME OpenInv, NEW call, NEW liberty, NEW Hs, NEW hdrs \in Seq(Hs),
         \A h \in Hs : h.link = NoName /\ h.action \in Actions,
         Perform(call, liberty, hdrs)
  PROVE  OpenInv'
  BY OperatePlain DEF Perform

LEMMA OperateOnePlain ==
  ASSUME OpenInv, NEW liberty, NEW h, h.link = NoName, h.action \in Actions,
         Operate(liberty, <<h>>)
  PROVE  OpenInv'
<1> DEFINE Hs == {h}
           hdrs == <<h>>
<1>1. hdrs \in Seq(Hs) /\ \A g \in Hs : g.link = NoName /\ g.action \in Actions
  OBVIOUS
<1>2. Operate(liberty, hdrs)
  OBVIOUS
<1> HIDE DEF Hs, hdrs
<1> QED
  BY <1>1, <1>2, OperatePlain

LEMMA PerformOnePlain ==
  ASSUME OpenInv, NEW call, NEW liberty, NEW h, h.link = NoName, h.action \in Actions,
         Perform(call, liberty, <<h>>)
  PROVE  OpenInv'
  BY OperateOnePlain DEF Perform

(* Some rows, one of them first.                                           *)
LEMMA RowsOfPlain ==
  ASSUME Plain(db), NEW src \in db, NEW n, NEW rows,
         rows = GetHeaderChildren(db, n) \/ rows = {}, NEW rest \in SetToSeqs(rows)
  PROVE  <<src>> \o rest \in Seq(db)
<1>1. rows \in SUBSET db /\ IsFiniteSet(db)
  BY DEF GetHeaderChildren, Live, Plain
<1>2. IsFiniteSet(rows)
  BY <1>1, FS_Subset
<1> QED
  BY <1>1, <1>2, RowsInOrder

LEMMA DeletePlain ==
  ASSUME OpenInv, NEW call, NEW liberty, NEW n, Lookup(db, n) # NoRow, Delete(call, liberty, n)
  PROVE  OpenInv'
<1> DEFINE src == Lookup(db, n)
           rows == IF src.type = "dir" /\ src.link = NoName
                     THEN GetHeaderChildren(db, n) ELSE {}
           Hs == {DeletionHeader(r) : r \in db}
<1>1. src \in db /\ Plain(db)
  BY LookupPlain DEF OpenInv
<1>2. PICK children \in SetToSeqs(rows) :
        LET deleted == <<src>> \o children
        IN  Perform(call, liberty, [i \in DOMAIN deleted |-> DeletionHeader(deleted[i])])
  BY DEF Delete
<1> DEFINE deleted == <<src>> \o children
           hdrs == [i \in DOMAIN deleted |-> DeletionHeader(deleted[i])]
<1>3. deleted \in Seq(db)
  <2>1. rows = GetHeaderChildren(db, n) \/ rows = {}
    OBVIOUS
  <2> HIDE DEF src, rows
  <2> QED
    BY <1>1, <2>1, RowsOfPlain
<1>4. \A h \in Hs : h.link = NoName /\ h.action \in Actions
  BY <1>1 DEF DeletionHeader, HeaderOfRow, Plain, Linkless, Actions
<1>5. hdrs \in Seq(Hs)
  <2> HIDE DEF deleted
  <2>1. Len(deleted) \in Nat /\ DOMAIN deleted = 1 .. Len(deleted)
    BY <1>3
  <2>2. \A i \in 1 .. Len(deleted) : deleted[i] \in db
    BY <1>3, ElementOfSeq
  <2>3. hdrs \in [1 .. Len(deleted) -> Hs]
    BY <2>1, <2>2
  <2> HIDE DEF hdrs, Hs
  <2> QED
    BY <2>1, <2>3, FunctionIsSeq
<1>6. Perform(call, liberty, hdrs)
  BY <1>2
<1> HIDE DEF hdrs, Hs
<1> QED
  BY <1>4, <1>5, <1>6, PerformPlain

LEMMA MovePlain ==
  ASSUME OpenInv, NEW call, NEW from, NEW to, Lookup(db, from) # NoRow, Move(call, from, to)
  PROVE  OpenInv'
<1> DEFINE src == Lookup(db, from)
           rows == IF src.type = "dir" THEN GetHeaderChildren(db, from) ELSE {}
           Hs == {RenameHeader(r, from, to) : r \in db}
<1>1. src \in db /\ Plain(db)
  BY LookupPlain DEF OpenInv
<1>2. CASE Answer(call, "ok")
  BY <1>2 DEF Answer, OpenInv
<1>3. CASE ~Answer(call, "ok")
  <2>2. PICK children \in SetToSeqs(rows) :
          LET moved == <<src>> \o children
          IN  Perform(call, ~PlainRename(rows \cup {src}, from, to),
                      [i \in DOMAIN moved |-> RenameHeader(moved[i], from, to)])
    BY <1>3 DEF Move
  <2> DEFINE moved == <<src>> \o children
             hdrs == [i \in DOMAIN moved |-> RenameHeader(moved[i], from, to)]
             liberty == ~PlainRename(rows \cup {src}, from, to)
  <2>3. moved \in Seq(db)
    <3>1. rows = GetHeaderChildren(db, from) \/ rows = {}
      OBVIOUS
    <3> HIDE DEF src, rows
    <3> QED
      BY <1>1, <3>1, RowsOfPlain
  <2>4. \A h \in Hs : h.link = NoName /\ h.action \in Actions
    BY <1>1 DEF RenameHeader, HeaderOfRow, Plain, Linkless, Actions
  <2>5. hdrs \in Seq(Hs)
    <3> HIDE DEF moved
    <3>1. Len(moved) \in Nat /\ DOMAIN moved = 1 .. Len(moved)
      BY <2>3
    <3>2. \A i \in 1 .. Len(moved) : moved[i] \in db
      BY <2>3, ElementOfSeq
    <3>3. hdrs \in [1 .. Len(moved) -> Hs]
      BY <3>1, <3>2
    <3> HIDE DEF hdrs, Hs
    <3> QED
      BY <3>1, <3>3, FunctionIsSeq
  <2>6. Perform(call, liberty, hdrs)
    BY <2>2
  <2> HIDE DEF hdrs, Hs, liberty
  <2> QED
    BY <2>4, <2>5, <2>6, PerformPlain
<1> QED
  BY <1>2, <1>3

LEMMA RemovePlain ==
  ASSUME OpenInv, NEW call, NEW liberty, NEW n, RemoveWithoutLocking(call, liberty, n)
  PROVE  OpenInv'
<1>1. CASE db' = db
  BY <1>1 DEF OpenInv
<1>2. CASE IsFound(n) /\ Delete(call, liberty, n)
  BY <1>2, FoundLookup, DeletePlain
<1> QED
  BY <1>1, <1>2 DEF RemoveWithoutLocking, Answer

LEMMA RenamePlain ==
  ASSUME OpenInv, NEW from, NEW to, Rename(from, to)
  PROVE  OpenInv'
<1> DEFINE call == CallTo("Rename", from, to)
<1>1. CASE db' = db
  BY <1>1 DEF OpenInv
<1>2. CASE IsFound(from) /\ Move(call, from, to)
  <2> HIDE DEF call
  <2> QED
    BY <1>2, FoundLookup, MovePlain
<1>3. CASE RemoveWithoutLocking(call, TRUE, to)
  <2> HIDE DEF call
  <2> QED
    BY <1>3, RemovePlain
<1> QED
  BY <1>1, <1>2, <1>3 DEF Rename, RenameOnto, Answer

LEMMA ChmodPlain ==
  ASSUME OpenInv, NEW n, Chmod(n)
  PROVE  OpenInv'
<1>1. CASE db' = db
  BY <1>1 DEF OpenInv
<1>2. CASE db' # db
  <2>1. Target(n) # NoRow
    BY <1>2 DEF Chmod, Answer
  <2>2. PICK mode \in Modes : Perform(Call("Chmod", n), FALSE, <<MetadataHeader(Target(n), mode)>>)
    BY <1>2 DEF Chmod, Answer
  <2>3. Linkless(Target(n))
    BY <2>1, TargetPlain DEF OpenInv, Plain
  <2> DEFINE h == MetadataHeader(Target(n), mode)
  <2>4. h.link = NoName /\ h.action \in Actions
    BY <2>3 DEF MetadataHeader, Linkless, Actions
  <2> HIDE DEF h
  <2> QED
    BY <2>2, <2>4, PerformOnePlain DEF h
<1> QED
  BY <1>1, <1>2

LEMMA OpenPlain ==
  ASSUME OpenInv, NEW n, NEW flags, OpenFile(n, flags)
  PROVE  OpenInv'
<1>1. CASE db' = db
  BY <1>1 DEF OpenInv
<1>2. ASSUME NEW call, MakeFile(call, n) PROVE OpenInv'
  <2> DEFINE h == NewEntry("reg", n, NoName)
  <2>1. Operate(Astray(n), <<h>>)
    BY <1>2 DEF MakeFile
  <2>2. h.link = NoName /\ h.action \in Actions
    BY DEF NewEntry, ArchiveHeader, Actions
  <2> HIDE DEF h
  <2> QED
    BY <2>1, <2>2, OperateOnePlain
<1> QED
  BY <1>1, <1>2 DEF OpenFile, Open, CreateFile, Answer

-----------------------------------------------------------------------------
(* What syncing and closing a handle store.                                *)

(* The rows of other names stay, and rows of the name, if there are any,   *)
(* get the content.                                                        *)
LEMMA SyncStores ==
  ASSUME OpenInv, NEW h, NEW call, SyncWithoutLocking(h, call)
  PROVE  LET n == handles[h].path
         IN  /\ OpenInv'
             /\ {r \in db' : r.name # n} = {r \in db : r.name # n}
             /\ (\E r \in db : r.name = n) =>
                  \E r \in Live(db') : r.name = n /\ r.size = handles[h].data
             /\ last'.call = call
<1> DEFINE f == handles[h]
           n == handles[h].path
           hdr == ContentHeader([name |-> f.path, link |-> NoName, type |-> "reg",
                                 mode |-> f.mode, data |-> f.data], TRUE)
           row == TarHeaderToDBHeader(hdr, 2, 2)
           stored == UpdateHeaderMetadata(db, row)
<1>1. Perform(call, FALSE, <<hdr>>)
  BY DEF SyncWithoutLocking
<1>2. /\ hdr.action = "update" /\ hdr.name = n /\ hdr.link = NoName /\ hdr.replaces = TRUE
      /\ hdr.from = NoName /\ hdr.suffixed = TRUE /\ hdr.size = f.data /\ hdr.type = "reg"
  BY DEF ContentHeader
<1> HIDE DEF hdr
<1>3. OpenInv'
  BY <1>1, <1>2, PerformOnePlain DEF Actions
<1>4. IndexedName(hdr) = n
  BY <1>2 DEF IndexedName
<1>5. IndexHeader(db, 2, hdr) = Indexed(stored)
  BY <1>2 DEF IndexHeader, IndexUpdate, IndexEdit
<1>6. IndexAll(<<hdr>>) = Indexed(stored)
  <2>1. 1 + 1 = 2
    OBVIOUS
  <2> QED
    BY <1>5, <2>1, OneIndexed DEF IndexAll
<1>7. db' = {PlacedRow(r) : r \in stored}
  BY <1>1, <1>6, UnplacedDef DEF Perform, Operate, Indexed
<1>8. /\ PlacedRow(row).name = n /\ PlacedRow(row).size = f.data /\ PlacedRow(row).deleted = FALSE
      /\ row.name = n /\ row.link = NoName
  BY <1>2, <1>4 DEF PlacedRow, TarHeaderToDBHeader
<1>9. last'.call = call
  BY <1>1, PerformTells
<1> HIDE DEF row, n
<1>10. \A r \in db : PlacedRow(r) = r /\ r.link = NoName
  BY DEF OpenInv, Settled, Plain, Linkless
<1>11. \A r \in db : SameKey(r, row) <=> r.name = n
  BY <1>8, <1>10 DEF SameKey
<1>12. ASSUME NEW r \in db, r.name # n PROVE r \in db'
  <2>1. r \in stored
    BY <1>11, <1>12 DEF UpdateHeaderMetadata
  <2> QED
    BY <1>7, <1>10, <2>1
<1>13. ASSUME NEW r \in db', r.name # n PROVE r \in db
  <2>1. PICK s \in stored : r = PlacedRow(s)
    BY <1>7
  <2>2. s # row
    BY <1>8, <1>13, <2>1
  <2>3. s \in db
    BY <2>2 DEF UpdateHeaderMetadata
  <2> QED
    BY <1>10, <2>1, <2>3
<1>14. ASSUME NEW r \in db, r.name = n
       PROVE  \E s \in Live(db') : s.name = n /\ s.size = f.data
  <2>1. row \in stored
    BY <1>11, <1>14 DEF UpdateHeaderMetadata
  <2>2. PlacedRow(row) \in db'
    BY <1>7, <2>1
  <2> QED
    BY <1>8, <2>2 DEF Live
<1> QED
  BY <1>3, <1>9, <1>12, <1>13, <1>14 DEF n

(* Calls by name are no calls on a handle.                                 *)
LEMMA NoHandle ==
  ASSUME NEW op, NEW n, NEW to, NEW flags
  PROVE  "handle" \notin DOMAIN CallWith(op, n, to, flags)
  BY DEF CallWith

LEMMA OpenTells ==
  ASSUME NEW n, NEW flags, OpenFile(n, flags)
  PROVE  last'.call = CallWith("OpenFile", n, n, flags)
<1> DEFINE call == CallWith("OpenFile", n, n, flags)
<1>1. CASE \E res : Answer(call, res)
  BY <1>1 DEF Answer
<1>2. CASE MakeFile(call, n)
  BY <1>2 DEF MakeFile
<1> QED
  BY <1>1, <1>2 DEF OpenFile, Open, CreateFile

LEMMA ByNameStep ==
  ASSUME OpenInv,
         \/ \E h \in Handles, n \in FileNames, flags \in OpenFlags : OpenHandle(h, n, flags)
         \/ ByName \/ Lstat
  PROVE  OpenInv' /\ \A h : ~OnHandle(h)
<1>1. ASSUME NEW op, NEW n, NEW to, NEW flags, last'.call = CallWith(op, n, to, flags)
      PROVE  \A h : ~OnHandle(h)
  BY <1>1, NoHandle DEF OnHandle
<1>2. ASSUME NEW h, NEW n, NEW flags, OpenHandle(h, n, flags)
      PROVE  OpenInv' /\ \A g : ~OnHandle(g)
  BY <1>1, <1>2, OpenPlain, OpenTells DEF OpenHandle
<1>3. ASSUME NEW n, RemoveEntry(n) PROVE OpenInv' /\ \A g : ~OnHandle(g)
  BY <1>1, <1>3, RemovePlain, RemoveTells DEF RemoveEntry, Call
<1>4. ASSUME NEW n, Chmod(n) PROVE OpenInv' /\ \A g : ~OnHandle(g)
  BY <1>1, <1>4, ChmodPlain, ChmodTells DEF Call
<1>5. ASSUME NEW from, NEW to, Rename(from, to) PROVE OpenInv' /\ \A g : ~OnHandle(g)
  BY <1>1, <1>5, RenamePlain, RenameTells DEF CallTo
<1>6. ASSUME NEW n, LstatIfPossible(n) PROVE OpenInv' /\ \A g : ~OnHandle(g)
  <2>1. db' = db /\ last'.call = Call("Lstat", n)
    BY <1>6 DEF LstatIfPossible, Answer
  <2> QED
    BY <1>1, <2>1 DEF OpenInv, Call
<1>7. CASE \E h \in Handles, n \in FileNames, flags \in OpenFlags : OpenHandle(h, n, flags)
  BY <1>2, <1>7
<1>8. CASE ByName
  BY <1>3, <1>4, <1>5, <1>8 DEF ByName
<1>9. CASE Lstat
  BY <1>6, <1>9 DEF Lstat
<1> QED
  BY <1>7, <1>8, <1>9

(* A call on a handle leaves the index alone, unless it stores a buffer.   *)
Idle(h, op) == \E args : db' = db /\ last'.call = Doing(op, h, args)
Stores(h) ==
  \/ \E op \in {"Read", "ReadAt", "Seek", "Write", "WriteAt", "Truncate", "Stat"} : Idle(h, op)
  \/ \E op \in {"Sync", "Close"} : Idle(h, op) /\ handles[h].io # "buffer"
  \/ \E op, args : SyncWithoutLocking(h, Doing(op, h, args))

LEMMA GiveIdle ==
  ASSUME NEW h, NEW op, NEW args,
         \/ \E res, out : Give(Doing(op, h, args), res, out)
         \/ \E res : Fail(Doing(op, h, args), res)
         \/ \E dst : Panic(h, Doing(op, h, args), dst)
  PROVE  Idle(h, op)
<1>1. db' = db /\ last'.call = Doing(op, h, args)
  BY DEF Give, Fail, Panic
<1> QED
  BY <1>1 DEF Idle

LEMMA ReadIdle ==
  ASSUME NEW h, NEW op, NEW args, NEW dst, NEW k, ReadTo(h, Doing(op, h, args), dst, k)
  PROVE  Idle(h, op)
  BY GiveIdle DEF ReadTo, ReadFrom

LEMMA WriteIdle ==
  ASSUME NEW h, NEW op, NEW args, NEW f, NEW at, NEW bytes,
         Refused(h, Doing(op, h, args)) \/ WriteTo(h, Doing(op, h, args), f, at, bytes)
  PROVE  Idle(h, op)
  BY GiveIdle DEF Refused, WriteTo

LEMMA SyncIdle ==
  ASSUME NEW h, NEW op, NEW args, SyncClosed(h, Doing(op, h, args))
  PROVE  Idle(h, op) /\ handles[h].io # "buffer"
<1>1. db' = db /\ last'.call = Doing(op, h, args) /\ handles[h].io = "closed"
  BY DEF SyncClosed
<1> QED
  BY <1>1 DEF Idle

LEMMA UsingStep ==
  ASSUME NEW h, Using(h)
  PROVE  Stores(h)
<1>1. ASSUME NEW k, Read(h, k) PROVE Stores(h)
  BY <1>1, ReadIdle DEF Read, Stores
<1>2. ASSUME NEW k, NEW off, ReadAt(h, k, off) PROVE Stores(h)
  BY <1>2, ReadIdle DEF ReadAt, Stores
<1>3. ASSUME NEW off, NEW whence, Seek(h, off, whence) PROVE Stores(h)
  <2>1. Idle(h, "Seek")
    BY <1>3, GiveIdle DEF Seek
  <2> QED
    BY <2>1 DEF Stores
<1>4. ASSUME NEW bytes, Write(h, bytes) PROVE Stores(h)
  BY <1>4, WriteIdle DEF Write, Stores
<1>5. ASSUME NEW bytes, NEW off, WriteAt(h, bytes, off) PROVE Stores(h)
  BY <1>5, WriteIdle DEF WriteAt, Stores
<1>6. ASSUME NEW size, Truncate(h, size) PROVE Stores(h)
  <2>1. Idle(h, "Truncate")
    BY <1>6, GiveIdle, WriteIdle DEF Truncate
  <2> QED
    BY <2>1 DEF Stores
<1>7. ASSUME Stat(h) PROVE Stores(h)
  <2>1. Idle(h, "Stat")
    BY <1>7, GiveIdle DEF Stat
  <2> QED
    BY <2>1 DEF Stores
<1>8. ASSUME Sync(h) PROVE Stores(h)
  <2>1. ASSUME handles[h].io \in {"none", "pipe"}, Fail(Doing("Sync", h, <<>>), "ok")
        PROVE  Stores(h)
    <3>1. Idle(h, "Sync")
      BY <2>1, GiveIdle
    <3> QED
      BY <2>1, <3>1 DEF Stores
  <2>2. ASSUME SyncClosed(h, Doing("Sync", h, <<>>)) PROVE Stores(h)
    BY <2>2, SyncIdle DEF Stores
  <2>3. ASSUME SyncWithoutLocking(h, Doing("Sync", h, <<>>)) PROVE Stores(h)
    BY <2>3 DEF Stores
  <2> QED
    BY <1>8, <2>1, <2>2, <2>3 DEF Sync
<1>9. ASSUME Close(h) PROVE Stores(h)
  <2>1. ASSUME handles[h].io \in {"none", "pipe"}, Give(Doing("Close", h, <<>>), "ok", Empty)
        PROVE  Stores(h)
    <3>1. Idle(h, "Close")
      BY <2>1, GiveIdle
    <3> QED
      BY <2>1, <3>1 DEF Stores
  <2>2. ASSUME SyncClosed(h, Doing("Close", h, <<>>)) PROVE Stores(h)
    BY <2>2, SyncIdle DEF Stores
  <2>3. ASSUME SyncWithoutLocking(h, Doing("Close", h, <<>>)) PROVE Stores(h)
    BY <2>3 DEF Stores
  <2> QED
    BY <1>9, <2>1, <2>2, <2>3 DEF Close
<1> QED
  BY <1>1, <1>2, <1>3, <1>4, <1>5, <1>6, <1>7, <1>8, <1>9 DEF Using

(* What both properties say of a step.                                     *)
SparesOthers(h) ==
  LET n == handles[h].path IN {r \in db' : r.name # n} = {r \in db : r.name # n}
StoresBuffer(h) ==
  last'.call.op \in {"Sync", "Close"} =>
    LET f == handles[h]
    IN  f.io = "buffer" /\ (\E r \in db : r.name = f.path) =>
          \E r \in Live(db') : r.name = f.path /\ r.size = f.data

LEMMA HandleStep ==
  ASSUME OpenInv, OpenNext
  PROVE  /\ OpenInv'
         /\ \A h : OnHandle(h) => SparesOthers(h) /\ StoresBuffer(h)
<1>1. CASE \/ \E h \in Handles, n \in FileNames, flags \in OpenFlags : OpenHandle(h, n, flags)
           \/ ByName \/ Lstat
  BY <1>1, ByNameStep
<1>2. CASE \E h \in Handles : handles[h] # NoFile /\ Using(h)
  <2>1. PICK k \in Handles : Using(k)
    BY <1>2
  <2>2. ASSUME NEW op, NEW args, last'.call = Doing(op, k, args)
        PROVE  last'.call.op = op /\ \A h : OnHandle(h) => h = k
    BY <2>2 DEF Doing, OnHandle
  <2>3. ASSUME NEW op, Idle(k, op), op \notin {"Sync", "Close"} \/ handles[k].io # "buffer"
        PROVE  OpenInv' /\ \A h : OnHandle(h) => SparesOthers(h) /\ StoresBuffer(h)
    <3>1. db' = db /\ last'.call.op = op /\ \A h : OnHandle(h) => h = k
      BY <2>2, <2>3 DEF Idle
    <3>2. StoresBuffer(k)
      BY <2>3, <3>1 DEF StoresBuffer
    <3> QED
      BY <3>1, <3>2 DEF OpenInv, SparesOthers
  <2>4. ASSUME NEW op, NEW args, SyncWithoutLocking(k, Doing(op, k, args))
        PROVE  OpenInv' /\ \A h : OnHandle(h) => SparesOthers(h) /\ StoresBuffer(h)
    <3>1. OpenInv' /\ SparesOthers(k) /\ StoresBuffer(k) /\ last'.call = Doing(op, k, args)
      BY <2>4, SyncStores DEF SparesOthers, StoresBuffer
    <3>2. \A h : OnHandle(h) => h = k
      BY <2>2, <3>1
    <3> QED
      BY <3>1, <3>2
  <2> QED
    BY <2>1, <2>3, <2>4, UsingStep DEF Stores
<1> QED
  BY <1>1, <1>2 DEF OpenNext

LEMMA OpenInitInv ==
  ASSUME OpenInit
  PROVE  OpenInv
<1> DEFINE h == RootHeader(NewMode)
           row == TarHeaderToDBHeader(h, 1, 1)
<1>1. h.name = Root /\ h.link = NoName /\ h.type = "dir" /\ h.action = "create"
  BY DEF RootHeader, ArchiveHeader
<1>2. db = {row}
  BY <1>1 DEF OpenInit, Init, IndexHeader, IndexCreate, Indexed, UpsertHeader
<1> HIDE DEF h
<1>3. Linkless(row)
  BY <1>1 DEF Linkless, TarHeaderToDBHeader
<1> HIDE DEF row
<1>4. PlacedRow(row) = row
  <2>1. RowsInv
    BY InitKeeps DEF OpenInit
  <2>2. row \in Row /\ row.record = 1 /\ row.last = 1
    BY <1>2, <2>1 DEF RowsInv, Table, Placed
  <2> QED
    BY <2>2, UnplacedRow
<1>5. IsFiniteSet(db)
  BY <1>2, FS_Singleton
<1> QED
  BY <1>2, <1>3, <1>4, <1>5 DEF OpenInv, Plain, Settled

(* OpenInv is inductive.                                                   *)
LEMMA OpenInvariant ==
  OpenSpec => [][OpenInv /\ OpenInv' /\ \A h : OnHandle(h) => SparesOthers(h) /\ StoresBuffer(h)]_openVars
<1>1. OpenInit => OpenInv
  BY OpenInitInv
<1>2. OpenInv /\ [OpenNext]_openVars => OpenInv'
  <2>1. ASSUME OpenInv, UNCHANGED openVars PROVE OpenInv'
    BY <2>1 DEF openVars, fsVars, OpenInv
  <2> QED
    BY <2>1, HandleStep
<1>3. OpenInv /\ [OpenNext]_openVars
        => [OpenInv /\ OpenInv' /\ \A h : OnHandle(h) => SparesOthers(h) /\ StoresBuffer(h)]_openVars
  BY HandleStep
<1> QED
  BY <1>1, <1>2, <1>3, PTL DEF OpenSpec

(* Whatever clients do, no call on a handle changes anything but the row   *)
(* of the name it was opened with (Sync and Close of pkg/fs/file.go), for  *)
(* any number of handles and any contents.                                 *)
THEOREM HandleAlwaysSpares ==
  OpenSpec => HandleSparesOthers
<1>1. [OpenInv /\ OpenInv' /\ \A h : OnHandle(h) => SparesOthers(h) /\ StoresBuffer(h)]_openVars
        => [\A h \in Handles : OnHandle(h) =>
              LET n == handles[h].path
              IN  {r \in db' : r.name # n} = {r \in db : r.name # n}]_openVars
  BY DEF SparesOthers
<1> QED
  BY <1>1, OpenInvariant, PTL DEF HandleSparesOthers

(* Whatever clients do, Sync and Close (pkg/fs/file.go) make what was      *)
(* written through a handle the content of the name it was opened with,    *)
(* even when that has been removed since.                                  *)
THEOREM ClosedIsAlwaysStored ==
  OpenSpec => ClosedIsStored
<1>1. [OpenInv /\ OpenInv' /\ \A h : OnHandle(h) => SparesOthers(h) /\ StoresBuffer(h)]_openVars
        => [\A h \in Handles :
              OnHandle(h) /\ last'.call.op \in {"Sync", "Close"} /\ last'.res = "ok" =>
                LET f == handles[h]
                IN  f.io = "buffer" /\ (\E r \in db : r.name = f.path) =>
                      \E r \in Live(db') : r.name = f.path /\ r.size = f.data]_openVars
  BY DEF StoresBuffer
<1> QED
  BY <1>1, OpenInvariant, PTL DEF ClosedIsStored

-----------------------------------------------------------------------------
(* Bytes.                                                                  *)

(* What a content is.                                                      *)
LEMMA SizesAre ==
  ASSUME NEW c
  PROVE  c \in Sizes <=> c \in Seq(Byte) /\ Len(c) <= MaxSize
<1>0. MaxSize \in Nat /\ Data = Contents /\ Empty = <<>>
  BY OpenFilesAssumption
<1>1. ASSUME c \in Seq(Byte), Len(c) <= MaxSize PROVE c \in Sizes
  <2>1. Len(c) \in Nat /\ c \in [1 .. Len(c) -> Byte]
    BY <1>1, LenProperties
  <2>2. CASE Len(c) = 0
    BY <1>0, <1>1, <2>2, EmptySeq DEF Sizes
  <2>3. CASE Len(c) # 0
    <3>1. Len(c) \in 1 .. MaxSize
      BY <1>0, <1>1, <2>1, <2>3
    <3> QED
      BY <1>0, <2>1, <3>1 DEF Sizes, Contents
  <2> QED
    BY <2>2, <2>3
<1>2. ASSUME c \in Sizes PROVE c \in Seq(Byte) /\ Len(c) <= MaxSize
  <2>1. CASE c = <<>>
    BY <1>0, <2>1, EmptySeq
  <2>2. CASE c # <<>>
    <3>1. PICK n \in 1 .. MaxSize : c \in [1 .. n -> Byte]
      BY <1>0, <1>2, <2>2 DEF Sizes, Contents
    <3>2. n \in Nat /\ n <= MaxSize
      BY <1>0, <3>1
    <3> QED
      BY <3>1, <3>2, FunctionIsSeq
  <2> QED
    BY <2>1, <2>2
<1> QED
  BY <1>1, <1>2

(* How many bytes there are to read.                                       *)
Available(data, at, k) ==
  IF at >= Len(data) THEN 0 ELSE IF at + k > Len(data) THEN Len(data) - at ELSE k

(* What a read at a position yields, the end of the file or not.           *)
LEMMA SliceIs ==
  ASSUME NEW data \in Seq(Byte), NEW at \in Nat, NEW k \in Nat \ {0}, NEW from,
         from = at \/ from = Least(at, Len(data))
  PROVE  /\ Slice(data, from, k) = SubSeq(data, at + 1, at + Available(data, at, k))
         /\ Len(Slice(data, from, k)) = Available(data, at, k)
         /\ Available(data, at, k) \in 0 .. k
         /\ Slice(data, from, k) = <<>> <=> Available(data, at, k) = 0
<1> DEFINE n == Available(data, at, k)
           l == Len(data)
<1>0. l \in Nat /\ n \in 0 .. k /\ n \in Nat
  BY DEF Available
<1>1. CASE at >= l
  <2>1. n = 0
    BY <1>1 DEF Available
  <2>2. from \in Nat /\ from >= l /\ Least(from + k, l) = l
    BY <1>0, <1>1 DEF Least
  <2>3. Slice(data, from, k) = <<>>
    BY <1>0, <2>2, SubSeqEmpty DEF Slice
  <2>4. SubSeq(data, at + 1, at + n) = <<>>
    BY <1>0, <2>1, SubSeqEmpty
  <2> QED
    BY <1>0, <2>1, <2>3, <2>4
<1>2. CASE at < l
  <2>1. from = at
    BY <1>0, <1>2 DEF Least
  <2>2. n > 0 /\ at + n = Least(at + k, l) /\ at + n <= l
    BY <1>0, <1>2 DEF Available, Least
  <2>3. Slice(data, from, k) = SubSeq(data, at + 1, at + n)
    BY <2>1, <2>2 DEF Slice
  <2>4. Len(SubSeq(data, at + 1, at + n)) = n
    <3>1. \A i \in at + 1 .. at + n : data[i] \in Byte
      BY <1>0, <2>2, ElementOfSeq
    <3>2. Len(SubSeq(data, at + 1, at + n)) = IF at + 1 <= at + n THEN at + n - (at + 1) + 1 ELSE 0
      BY <1>0, <3>1, SubSeqProperties
    <3> HIDE DEF n
    <3> QED
      BY <1>0, <2>2, <3>2
  <2> HIDE DEF n
  <2> DEFINE out == SubSeq(data, at + 1, at + n)
  <2>5. out # <<>>
    <3>1. Len(out) = n
      BY <2>4
    <3> HIDE DEF out
    <3>2. out = <<>> => Len(out) = 0
      OBVIOUS
    <3> QED
      BY <1>0, <2>2, <3>1, <3>2
  <2>6. n # 0 /\ n \in 0 .. k
    BY <1>0, <2>2
  <2> QED
    BY <2>3, <2>4, <2>5, <2>6 DEF n, out
<1> QED
  BY <1>0, <1>1, <1>2

(* Writing in the middle, at the end and beyond.                           *)
LEMMA OverwrittenIs ==
  ASSUME NEW data \in Seq(Byte), NEW at \in Nat, NEW bytes \in Seq(Byte)
  PROVE  /\ Overwritten(data, at, bytes) \in Seq(Byte)
         /\ Overwritten(data, at, bytes) = Bytes!Changed(data, at, bytes)
<1> DEFINE l == Len(data)
           b == Len(bytes)
           head == IF at <= l THEN SubSeq(data, 1, at) ELSE data \o Zeros(at - l)
           tail == SubSeq(data, at + b + 1, l)
           all == head \o bytes \o tail
           end == at + b
           new == Bytes!Changed(data, at, bytes)
           total == IF end > l THEN end ELSE l
<1>0. l \in Nat /\ b \in Nat /\ end \in Nat /\ total \in Nat
  OBVIOUS
<1>1. /\ head \in Seq(Byte) /\ Len(head) = at
      /\ \A i \in 1 .. at : head[i] = IF i <= l THEN data[i] ELSE 0
  <2>1. CASE at <= l
    <3>1. \A i \in 1 .. at : data[i] \in Byte
      BY <1>0, <2>1, ElementOfSeq
    <3>2. /\ SubSeq(data, 1, at) \in Seq(Byte)
          /\ Len(SubSeq(data, 1, at)) = IF 1 <= at THEN at - 1 + 1 ELSE 0
          /\ \A i \in 1 .. at - 1 + 1 : SubSeq(data, 1, at)[i] = data[1 + i - 1]
      BY <3>1, SubSeqProperties
    <3> HIDE DEF l
    <3> QED
      BY <1>0, <2>1, <3>2
  <2>2. CASE ~(at <= l)
    <3>1. at - l \in Nat /\ 0 \in Byte
      BY <1>0, <2>2 DEF Byte
    <3>2. /\ Zeros(at - l) \in Seq(Byte) /\ Len(Zeros(at - l)) = at - l
          /\ \A i \in 1 .. at - l : Zeros(at - l)[i] = 0
      <4> DEFINE m == at - l
      <4>1. Zeros(m) \in [1 .. m -> Byte] /\ \A i \in 1 .. m : Zeros(m)[i] = 0
        BY <3>1 DEF Zeros
      <4>2. m \in Nat
        BY <3>1
      <4> HIDE DEF m
      <4>3. Zeros(m) \in Seq(Byte) /\ Len(Zeros(m)) = m
        BY <4>1, <4>2, FunctionIsSeq
      <4> QED
        BY <4>1, <4>3 DEF m
    <3> DEFINE z == Zeros(at - l)
    <3> HIDE DEF z
    <3>3. z \in Seq(Byte) /\ Len(z) = at - l /\ \A i \in 1 .. at - l : z[i] = 0
      BY <3>2 DEF z
    <3>4. /\ data \o z \in Seq(Byte) /\ Len(data \o z) = l + Len(z)
          /\ \A i \in 1 .. l + Len(z) : (data \o z)[i] = IF i <= l THEN data[i] ELSE z[i - l]
      BY <3>3, ConcatProperties
    <3>5. head = data \o z
      BY <2>2 DEF z
    <3> HIDE DEF head, l
    <3>6. Len(head) = at
      BY <1>0, <3>1, <3>3, <3>4, <3>5
    <3>7. ASSUME NEW i \in 1 .. at PROVE head[i] = IF i <= l THEN data[i] ELSE 0
      <4>1. i \in 1 .. l + Len(z) /\ (~(i <= l) => i - l \in 1 .. at - l)
        BY <1>0, <3>1, <3>3
      <4> QED
        BY <3>3, <3>4, <3>5, <4>1
    <3> QED
      BY <3>4, <3>5, <3>6, <3>7
  <2> QED
    BY <2>1, <2>2
<1>2. /\ tail \in Seq(Byte) /\ Len(tail) = total - end
      /\ \A i \in 1 .. total - end : tail[i] = data[end + i]
  <2>1. \A i \in end + 1 .. l : data[i] \in Byte
    BY <1>0, ElementOfSeq
  <2>2. /\ SubSeq(data, end + 1, l) \in Seq(Byte)
        /\ Len(SubSeq(data, end + 1, l)) = IF end + 1 <= l THEN l - (end + 1) + 1 ELSE 0
        /\ \A i \in 1 .. l - (end + 1) + 1 : SubSeq(data, end + 1, l)[i] = data[end + 1 + i - 1]
    BY <1>0, <2>1, SubSeqProperties
  <2> HIDE DEF l, b
  <2>3. at + b + 1 = end + 1
    OBVIOUS
  <2>4. Len(tail) = total - end
    BY <1>0, <2>2
  <2>5. ASSUME NEW i \in 1 .. total - end PROVE tail[i] = data[end + i]
    <3>1. i \in 1 .. l - (end + 1) + 1 /\ end + 1 + i - 1 = end + i
      BY <1>0
    <3> QED
      BY <2>2, <3>1
  <2> QED
    BY <2>2, <2>4, <2>5
<1> HIDE DEF head, tail
<1>3. /\ head \o bytes \in Seq(Byte) /\ Len(head \o bytes) = end
      /\ \A i \in 1 .. end : (head \o bytes)[i] = IF i <= at THEN head[i] ELSE bytes[i - at]
  BY <1>1, ConcatProperties
<1> DEFINE front == head \o bytes
<1> HIDE DEF front
<1>4. /\ all \in Seq(Byte) /\ Len(all) = end + (total - end)
      /\ \A i \in 1 .. end + (total - end) :
           all[i] = IF i <= end THEN front[i] ELSE tail[i - end]
  <2>1. /\ front \o tail \in Seq(Byte) /\ Len(front \o tail) = Len(front) + Len(tail)
        /\ \A i \in 1 .. Len(front) + Len(tail) :
             (front \o tail)[i] = IF i <= Len(front) THEN front[i] ELSE tail[i - Len(front)]
    BY <1>2, <1>3, ConcatProperties DEF front
  <2>2. Len(front) = end /\ Len(tail) = total - end /\ all = front \o tail
    BY <1>2, <1>3 DEF front
  <2> QED
    BY <2>1, <2>2
<1>5. new = [i \in 1 .. total |-> IF i > at /\ i <= end THEN bytes[i - at]
                                  ELSE IF i <= l THEN data[i] ELSE 0]
  BY DEF Bytes!Changed
<1> HIDE DEF all, new, l, b, end, total
<1>6. ASSUME NEW i \in 1 .. total
      PROVE  /\ i \in Nat /\ i > 0
             /\ all[i] = IF i > at /\ i <= end THEN bytes[i - at] ELSE IF i <= l THEN data[i] ELSE 0
  <2>0. i \in Nat /\ i > 0 /\ i \in 1 .. end + (total - end)
    BY <1>0
  <2>1. CASE i <= at
    <3>1. i <= end /\ i \in 1 .. end /\ i \in 1 .. at
      BY <1>0, <2>0, <2>1 DEF end
    <3> QED
      BY <1>1, <1>3, <1>4, <2>0, <2>1, <3>1 DEF front
  <2>2. CASE ~(i <= at) /\ i <= end
    <3>1. i > at /\ i \in 1 .. end
      BY <1>0, <2>0, <2>2
    <3> QED
      BY <1>3, <1>4, <2>0, <2>2, <3>1 DEF front
  <2>3. CASE ~(i <= end)
    <3>1. i - end \in 1 .. total - end /\ end + (i - end) = i /\ i <= l /\ ~(i <= end)
      BY <1>0, <2>0, <2>3 DEF total
    <3> QED
      BY <1>2, <1>4, <2>0, <3>1
  <2> QED
    BY <2>0, <2>1, <2>2, <2>3
<1>7. Len(all) = total
  BY <1>0, <1>4
<1>8. new \in Seq(Byte) /\ Len(new) = total
  <2>1. \A i \in 1 .. total : all[i] \in Byte
    BY <1>4, <1>7, ElementOfSeq
  <2>2. new \in [1 .. total -> Byte]
    BY <1>5, <1>6, <2>1
  <2> QED
    BY <1>0, <2>2, FunctionIsSeq
<1>9. \A i \in 1 .. total : all[i] = new[i]
  BY <1>5, <1>6
<1>10. all = new
  BY <1>4, <1>7, <1>8, <1>9, SeqEqual
<1> QED
  BY <1>4, <1>10 DEF all, new, Overwritten, head, tail, l, b

(* Cutting a content short.                                                *)
LEMMA CutIs ==
  ASSUME NEW data \in Seq(Byte), NEW size \in Nat, size <= Len(data)
  PROVE  /\ SubSeq(data, 1, size) \in Seq(Byte) /\ Len(SubSeq(data, 1, size)) = size
         /\ SubSeq(data, 1, size) = [i \in 1 .. size |-> IF i <= Len(data) THEN data[i] ELSE 0]
<1> DEFINE cut == SubSeq(data, 1, size)
           new == [i \in 1 .. size |-> IF i <= Len(data) THEN data[i] ELSE 0]
<1>0. Len(data) \in Nat
  OBVIOUS
<1>1. \A i \in 1 .. size : data[i] \in Byte
  BY <1>0, ElementOfSeq
<1>2. /\ cut \in Seq(Byte) /\ Len(cut) = IF 1 <= size THEN size - 1 + 1 ELSE 0
      /\ \A i \in 1 .. size - 1 + 1 : cut[i] = data[1 + i - 1]
  BY <1>1, SubSeqProperties
<1>3. new \in [1 .. size -> Byte]
  BY <1>0, <1>1
<1>4. new \in Seq(Byte) /\ Len(new) = size
  <2> HIDE DEF new
  <2> QED
    BY <1>3, FunctionIsSeq
<1> HIDE DEF cut
<1>5. Len(cut) = size /\ \A i \in 1 .. size : cut[i] = data[i]
  BY <1>2
<1>6. \A i \in 1 .. size : cut[i] = new[i]
  BY <1>0, <1>5
<1> HIDE DEF new
<1>7. cut = new
  BY <1>2, <1>4, <1>5, <1>6, SeqEqual
<1> QED
  BY <1>2, <1>5, <1>7 DEF cut, new

-----------------------------------------------------------------------------
(* The files in the index while clients take no liberty.                   *)

(* There are no links, no row keeps that it was renamed, and what has a    *)
(* name that clients use is a file.                                        *)
Filed(t) ==
  \A r \in t : r.link = NoName /\ r.from = NoName /\ (r.name \in FileNames => r.type = "reg")
OnlyFiles(t) == Table(t) /\ KeysUnique(t) /\ Filed(t)

SizeOf(t, n) ==
  LET r == GetHeader(t, n) IN IF r # NoRow /\ r.link = NoName THEN r.size ELSE <<>>
FilesIn(t) == [n \in {r.name : r \in {s \in Live(t) : s.type = "reg"}} |-> SizeOf(t, n)]

(* Two tables have the same rows of other names.                           *)
Apart(t, u, names) == {r \in t : r.name \notin names} = {r \in u : r.name \notin names}

(* What is found under a name.                                             *)
LEMMA FiledFinds ==
  ASSUME NEW t, OnlyFiles(t), NEW n
  PROVE  /\ GetHeader(t, n) # NoRow =>
              /\ GetHeader(t, n) \in Live(t) /\ GetHeader(t, n) \in Row
              /\ GetHeader(t, n).name = n /\ GetHeader(t, n).link = NoName
              /\ GetHeader(t, n).from = NoName
              /\ n \in FileNames => GetHeader(t, n).type = "reg"
         /\ \A r \in Live(t) : r.name = n => r = GetHeader(t, n) /\ r # NoRow
         /\ n \in FileNames =>
              /\ n \in DOMAIN FilesIn(t) <=> GetHeader(t, n) # NoRow
              /\ GetHeaderByLinkname(t, n) = NoRow
<1>1. ASSUME GetHeader(t, n) # NoRow
      PROVE  /\ GetHeader(t, n) \in Live(t) /\ GetHeader(t, n) \in Row
             /\ GetHeader(t, n).name = n /\ GetHeader(t, n).link = NoName
             /\ GetHeader(t, n).from = NoName
             /\ n \in FileNames => GetHeader(t, n).type = "reg"
  <2>1. GetHeader(t, n) \in Live(t) /\ GetHeader(t, n).name = n
    BY <1>1, GetHeaderFound
  <2> QED
    BY <2>1 DEF OnlyFiles, Filed, Table, Live
<1>2. ASSUME NEW r \in Live(t), r.name = n PROVE r = GetHeader(t, n) /\ r # NoRow
  <2>1. IsReal(t, r) /\ t \in SUBSET Row /\ KeysUnique(t)
    BY DEF IsReal, OnlyFiles, Filed, Table, Live
  <2> QED
    BY <1>2, <2>1, RealIsFound
<1>3. ASSUME n \in FileNames PROVE n \in DOMAIN FilesIn(t) <=> GetHeader(t, n) # NoRow
  <2>1. n \in DOMAIN FilesIn(t) <=> \E r \in Live(t) : r.type = "reg" /\ r.name = n
    BY DEF FilesIn
  <2> QED
    BY <1>1, <1>2, <1>3, <2>1
<1>4. ASSUME n \in FileNames PROVE GetHeaderByLinkname(t, n) = NoRow
  <2>1. n # NoName
    BY <1>4, PathsAssumption, FileSystemAssumption
  <2>2. {r \in Live(t) : r.link = n} = {}
    BY <2>1 DEF OnlyFiles, Filed, Live
  <2> QED
    BY <2>2 DEF GetHeaderByLinkname, First
<1> QED
  BY <1>1, <1>2, <1>3, <1>4

(* What the calls look up.                                                 *)
LEMMA FiledLooks ==
  ASSUME OnlyFiles(db), NEW n \in FileNames
  PROVE  /\ StatName(n) = GetHeader(db, n) /\ StatLink(n) = NoRow
         /\ Target(n) = GetHeader(db, n) /\ Lookup(db, n) = GetHeader(db, n)
         /\ \A flags : Opened(n, flags) = GetHeader(db, n)
         /\ IsFound(n) <=> GetHeader(db, n) # NoRow
         /\ Found(n) = GetHeader(db, n)
<1>1. StatName(n) = GetHeader(db, n)
  BY FiledFinds DEF StatName
<1>2. StatLink(n) = NoRow
  BY FiledFinds DEF StatLink
<1>3. Target(n) = GetHeader(db, n)
  BY <1>1, <1>2 DEF Target
<1>4. Lookup(db, n) = GetHeader(db, n)
  BY FiledFinds DEF Lookup
<1> QED
  BY <1>1, <1>2, <1>3, <1>4 DEF Opened, IsFound, Found

(* Rows of other names do not matter to what is found under a name.        *)
LEMMA ApartFinds ==
  ASSUME NEW t, NEW u, NEW names, Apart(t, u, names), NEW n, n \notin names
  PROVE  /\ GetHeader(u, n) = GetHeader(t, n) /\ SizeOf(u, n) = SizeOf(t, n)
         /\ n \in DOMAIN FilesIn(u) <=> n \in DOMAIN FilesIn(t)
<1>1. \A r : r.name = n => (r \in t <=> r \in u)
  BY DEF Apart
<1>2. {r \in Live(u) : r.name = n} = {r \in Live(t) : r.name = n}
  BY <1>1 DEF Live
<1>3. GetHeader(u, n) = GetHeader(t, n)
  BY <1>2 DEF GetHeader
<1>4. n \in DOMAIN FilesIn(u) <=> n \in DOMAIN FilesIn(t)
  <2>1. \A v : n \in DOMAIN FilesIn(v) <=> \E r \in {s \in Live(v) : s.name = n} : r.type = "reg"
    BY DEF FilesIn
  <2> QED
    BY <1>2, <2>1
<1> QED
  BY <1>3, <1>4 DEF SizeOf

(* A file that gets a content, new or not.                                 *)
WithFile(f, n, data) == [m \in DOMAIN f \cup {n} |-> IF m = n THEN data ELSE f[m]]

LEMMA FilePut ==
  ASSUME NEW t, OnlyFiles(t), NEW u, OnlyFiles(u), NEW n \in FileNames, Apart(t, u, {n}),
         GetHeader(u, n) # NoRow
  PROVE  FilesIn(u) = WithFile(FilesIn(t), n, SizeOf(u, n))
<1>1. DOMAIN FilesIn(u) = DOMAIN FilesIn(t) \cup {n}
  <2>1. n \in DOMAIN FilesIn(u)
    BY FiledFinds
  <2>2. \A m : m # n => (m \in DOMAIN FilesIn(u) <=> m \in DOMAIN FilesIn(t))
    BY ApartFinds
  <2> HIDE DEF FilesIn
  <2> QED
    BY <2>1, <2>2
<1>2. ASSUME NEW m \in DOMAIN FilesIn(t) \cup {n}
      PROVE  FilesIn(u)[m] = IF m = n THEN SizeOf(u, n) ELSE FilesIn(t)[m]
  <2>1. FilesIn(u)[m] = SizeOf(u, m)
    BY <1>1 DEF FilesIn
  <2>2. m # n => FilesIn(t)[m] = SizeOf(t, m)
    BY DEF FilesIn
  <2>3. m # n => SizeOf(u, m) = SizeOf(t, m)
    BY ApartFinds
  <2> QED
    BY <2>1, <2>2, <2>3
<1>3. FilesIn(u) = [m \in DOMAIN FilesIn(u) |-> FilesIn(u)[m]]
  BY DEF FilesIn
<1> QED
  BY <1>1, <1>2, <1>3 DEF WithFile

(* What marking and renaming a row keeps of it.                            *)
LEMMA MarkedRow ==
  ASSUME NEW r \in Row, NEW pos \in Position
  PROVE  LET q == [r EXCEPT !.deleted = TRUE, !.last = pos]
         IN  /\ q \in Row /\ q.name = r.name /\ q.link = r.link /\ q.from = r.from
             /\ q.type = r.type
  BY DEF Row

RowRenamed(r, n, pos) == [r EXCEPT !.name = n, !.last = pos]

LEMMA RenamedRow ==
  ASSUME NEW r \in Row, NEW n \in Name, NEW pos \in Position
  PROVE  LET q == RowRenamed(r, n, pos)
         IN  /\ q \in Row /\ q.name = n /\ q.link = r.link /\ q.from = r.from
             /\ q.type = r.type
  BY DEF Row, RowRenamed

(* An operation of a single header, which is indexed.                      *)
LEMMA OnePerformed ==
  ASSUME RowsInv, NEW call, NEW liberty, NEW h \in Header, Perform(call, liberty, <<h>>),
         NEW t, IndexHeader(db, 2, h) = Indexed(t)
  PROVE  /\ RowsInv' /\ db' = {PlacedRow(r) : r \in t}
         /\ last' = [call |-> call, res |-> "ok"]
         /\ \A r \in db : PlacedRow(r) = r
<1>1. RowsInv'
  <2>1. <<h>> \in Seq(Header)
    OBVIOUS
  <2> DEFINE hdrs == <<h>>
  <2> HIDE DEF hdrs
  <2> QED
    BY <2>1, PerformKeeps DEF hdrs
<1>2. IndexAll(<<h>>) = Indexed(t)
  <2>1. 1 + 1 = 2
    OBVIOUS
  <2> QED
    BY <2>1, OneIndexed DEF IndexAll
<1>3. db' = Unplaced(t) /\ last' = [call |-> call, res |-> "ok"]
  BY <1>2 DEF Perform, Operate, Indexed
<1>4. \A r \in db : PlacedRow(r) = r
  BY UnplacedRow DEF RowsInv, Placed, Table
<1> QED
  BY <1>1, <1>3, <1>4, UnplacedDef

(* The rows clients of files see between calls.                            *)
FilesInv == RowsInv /\ Filed(db)

LEMMA FilesInvIs ==
  /\ FilesInv => OnlyFiles(db)
  /\ FilesInv' => OnlyFiles(db')
  /\ RowsInv' /\ Filed(db') => FilesInv'
BY DEF FilesInv, OnlyFiles, RowsInv, Filed, Table, KeysUnique

(* A new file is empty.                                                    *)
LEMMA MknodeFiles ==
  ASSUME Suffixless, FilesInv, NEW call, NEW liberty, NEW n \in FileNames,
         Mknode(call, liberty, "reg", n, NoName)
  PROVE  /\ FilesInv' /\ Apart(db, db', {n}) /\ last' = [call |-> call, res |-> "ok"]
         /\ GetHeader(db', n) # NoRow /\ SizeOf(db', n) = <<>>
<1>0. n \in Name /\ "reg" \in Types /\ NoName \in NameOrNone /\ RowsInv
  BY FileSystemAssumption DEF Types, NameOrNone, FilesInv
<1>1. PICK row : NewRow(row, "reg", n, NoName) /\ db' = UpsertHeader(db, row)
  BY <1>0, MknodeMakes
<1>2. RowsInv' /\ last' = [call |-> call, res |-> "ok"]
  BY <1>0, MknodeKeeps, MknodeMakes
<1>3. FilesInv'
  <2>1. Filed(db')
    BY <1>1 DEF FilesInv, Filed, NewRow, UpsertHeader
  <2> QED
    BY <1>2, <2>1, FilesInvIs
<1>4. Apart(db, db', {n})
  BY <1>1 DEF Apart, NewRow, UpsertHeader, SameKey
<1>5. row \in Live(db') /\ row.name = n /\ row.link = NoName /\ row.size = <<>>
  BY <1>1, OpenFilesAssumption DEF NewRow, UpsertHeader, Live
<1>6. GetHeader(db', n) = row /\ row # NoRow
  BY <1>3, <1>5, FilesInvIs, FiledFinds
<1> QED
  BY <1>2, <1>3, <1>4, <1>5, <1>6 DEF SizeOf

(* A buffer becomes the content of its file.                               *)
LEMMA SyncFiles ==
  ASSUME FilesInv, NEW h, NEW call, SyncWithoutLocking(h, call), handles[h] \in Handle,
         GetHeader(db, handles[h].path) # NoRow
  PROVE  LET f == handles[h]
         IN  /\ FilesInv' /\ Apart(db, db', {f.path}) /\ last' = [call |-> call, res |-> "ok"]
             /\ GetHeader(db', f.path) # NoRow /\ SizeOf(db', f.path) = f.data
<1> DEFINE f == handles[h]
           n == f.path
           src == [name |-> n, link |-> NoName, type |-> "reg", mode |-> f.mode, data |-> f.data]
           hdr == ContentHeader(src, TRUE)
           row == TarHeaderToDBHeader(hdr, 2, 2)
           stored == UpdateHeaderMetadata(db, row)
<1>0. n \in FileNames /\ n \in Name /\ f.mode \in Modes /\ f.data \in Sizes
  BY FileSystemAssumption DEF Handle
<1>1. Perform(call, FALSE, <<hdr>>)
  BY DEF SyncWithoutLocking
<1>2. hdr \in Header
  <2>1. src \in Source
    BY <1>0 DEF Source, Types, NameOrNone
  <2> HIDE DEF src
  <2> QED
    BY <2>1, SourceHeaders
<1>3. /\ hdr.action = "update" /\ hdr.name = n /\ hdr.link = NoName /\ hdr.replaces = TRUE
      /\ hdr.from = NoName /\ hdr.suffixed = TRUE /\ hdr.size = f.data /\ hdr.type = "reg"
  BY DEF ContentHeader
<1> HIDE DEF hdr
<1>4. IndexedName(hdr) = n
  BY <1>3 DEF IndexedName
<1>5. IndexHeader(db, 2, hdr) = Indexed(stored)
  BY <1>3 DEF IndexHeader, IndexUpdate, IndexEdit
<1>6. /\ row.name = n /\ row.link = NoName /\ row.from = NoName /\ row.type = "reg"
      /\ row.size = f.data /\ row.deleted = FALSE
  BY <1>3, <1>4 DEF TarHeaderToDBHeader
<1>7. row \in Row
  BY <1>2, HeaderRow DEF Position
<1> HIDE DEF row, stored
<1>8. /\ RowsInv' /\ db' = {PlacedRow(r) : r \in stored}
      /\ last' = [call |-> call, res |-> "ok"] /\ \A r \in db : PlacedRow(r) = r
  BY <1>1, <1>2, <1>5, OnePerformed DEF FilesInv
<1>9. /\ PlacedRow(row).name = n /\ PlacedRow(row).link = NoName /\ PlacedRow(row).from = NoName
      /\ PlacedRow(row).type = "reg" /\ PlacedRow(row).size = f.data /\ PlacedRow(row).deleted = FALSE
  BY <1>6, <1>7, UnplacedRow
<1>10. \A r \in db : SameKey(r, row) <=> r.name = n
  BY <1>6 DEF SameKey, FilesInv, Filed
<1>11. db' = {IF r.name = n THEN PlacedRow(row) ELSE r : r \in db}
  <2>1. stored = {IF r.name = n THEN row ELSE r : r \in db}
    BY <1>10 DEF stored, UpdateHeaderMetadata
  <2> QED
    BY <1>8, <2>1
<1> DEFINE new == PlacedRow(row)
<1> HIDE DEF new, f
<1>12. FilesInv'
  <2>1. Filed(db')
    BY <1>9, <1>11 DEF FilesInv, Filed, new
  <2> QED
    BY <1>8, <2>1, FilesInvIs
<1>13. Apart(db, db', {n})
  BY <1>9, <1>11 DEF Apart, new
<1>14. new \in Live(db') /\ new.name = n /\ new.link = NoName /\ new.size = f.data
  <2>1. GetHeader(db, n) \in db /\ GetHeader(db, n).name = n
    <3>1. GetHeader(db, n) # NoRow
      BY DEF f
    <3> QED
      BY <3>1, GetHeaderFound DEF Live
  <2>2. new \in db'
    BY <1>11, <2>1 DEF new
  <2> QED
    BY <1>9, <2>2 DEF new, Live
<1>15. GetHeader(db', n) = new /\ new # NoRow
  BY <1>12, <1>14, FilesInvIs, FiledFinds
<1> QED
  BY <1>8, <1>12, <1>13, <1>14, <1>15 DEF SizeOf, f

(* A single file is removed.                                               *)
LEMMA DeleteFiles ==
  ASSUME FilesInv, Suffixless, NEW call, NEW liberty, NEW n \in FileNames,
         GetHeader(db, n) # NoRow, Delete(call, liberty, n)
  PROVE  FilesInv' /\ Apart(db, db', {n})
<1> DEFINE src == GetHeader(db, n)
           hdr == DeletionHeader(src)
<1>0. /\ src \in Row /\ src \in db /\ src.name = n /\ src.type = "reg" /\ Lookup(db, n) = src
      /\ n \in Name
  BY FilesInvIs, FiledFinds, FiledLooks, FileSystemAssumption DEF Live
<1> HIDE DEF src
<1>1. Perform(call, liberty, <<hdr>>)
  <2>1. PICK children \in SetToSeqs({}) :
          LET deleted == <<src>> \o children
          IN  Perform(call, liberty, [i \in DOMAIN deleted |-> DeletionHeader(deleted[i])])
    BY <1>0 DEF Delete
  <2>2. children = <<>>
    BY <2>1, FS_EmptySet DEF SetToSeqs
  <2>3. <<src>> \o children = <<src>>
    BY <2>2
  <2>4. [i \in DOMAIN <<src>> |-> DeletionHeader(<<src>>[i])] = <<hdr>>
    OBVIOUS
  <2> QED
    BY <2>1, <2>3, <2>4
<1>2. hdr \in Header
  <2>1. NewMode \in Modes /\ Root \in Name
    BY FileSystemAssumption DEF Root, Name
  <2> QED
    BY <1>0, <2>1, RowHeaders
<1>3. hdr.action = "delete" /\ hdr.name = n /\ hdr.type = "reg"
  BY <1>0 DEF DeletionHeader, HeaderOfRow
<1> HIDE DEF hdr
<1>4. IndexedName(hdr) = n
  BY <1>3 DEF IndexedName, Suffixless
<1> DEFINE gone == [src EXCEPT !.deleted = TRUE, !.last = 2]
<1>5. IndexHeader(db, 2, hdr) = Indexed({IF r = src THEN gone ELSE r : r \in db})
  BY <1>3, <1>4 DEF IndexHeader, IndexDelete, DeleteHeader, src
<1>6. gone \in Row /\ gone.name = n /\ gone.link = src.link /\ gone.from = src.from
      /\ gone.type = src.type
  <2>1. 2 \in Position
    BY DEF Position
  <2> QED
    BY <1>0, <2>1, MarkedRow
<1> HIDE DEF gone
<1>7. /\ RowsInv' /\ db' = {PlacedRow(r) : r \in {IF r = src THEN gone ELSE r : r \in db}}
      /\ \A r \in db : PlacedRow(r) = r
  BY <1>1, <1>2, <1>5, OnePerformed DEF FilesInv
<1>8. /\ PlacedRow(gone).name = n /\ PlacedRow(gone).link = src.link
      /\ PlacedRow(gone).from = src.from /\ PlacedRow(gone).type = src.type
  BY <1>6, UnplacedRow
<1> DEFINE new == PlacedRow(gone)
<1>9. db' = {IF r = src THEN new ELSE r : r \in db}
  BY <1>7
<1> HIDE DEF new
<1>10. Filed(db')
  BY <1>0, <1>8, <1>9 DEF FilesInv, Filed, new
<1>11. Apart(db, db', {n})
  BY <1>0, <1>8, <1>9 DEF Apart, new
<1> QED
  BY <1>7, <1>10, <1>11, FilesInvIs

(* What one file is is changed.                                            *)
LEMMA ChmodFiles ==
  ASSUME FilesInv, Suffixless, NEW n \in FileNames, Chmod(n)
  PROVE  FilesInv' /\ Apart(db, db', {n})
<1>1. CASE db' = db
  BY <1>1 DEF FilesInv, RowsInv, Filed, Table, KeysUnique, Placed, Apart
<1>2. CASE db' # db
  <2> DEFINE src == GetHeader(db, n)
  <2>0. Target(n) = src
    BY FilesInvIs, FiledLooks
  <2>1. src # NoRow
    BY <1>2, <2>0 DEF Chmod, Answer
  <2>2. PICK mode \in Modes : Perform(Call("Chmod", n), FALSE, <<MetadataHeader(src, mode)>>)
    BY <1>2, <2>0 DEF Chmod, Answer
  <2>3. /\ src \in Row /\ src.name = n /\ src.type = "reg" /\ src.link = NoName
        /\ src.from = NoName /\ n \in Name
    BY <2>1, FilesInvIs, FiledFinds, FileSystemAssumption
  <2> DEFINE hdr == MetadataHeader(src, mode)
             row == TarHeaderToDBHeader(hdr, src.record, 2)
  <2> HIDE DEF src
  <2>4. hdr \in Header
    BY <2>3, RowHeaders
  <2>5. /\ hdr.action = "update" /\ hdr.name = n /\ hdr.type = "reg" /\ hdr.link = NoName
        /\ hdr.from = NoName /\ hdr.replaces = FALSE
    BY <2>3 DEF MetadataHeader
  <2> HIDE DEF hdr
  <2>6. IndexedName(hdr) = n
    BY <2>5 DEF IndexedName, Suffixless
  <2>7. IndexHeader(db, 2, hdr) = Indexed(UpdateHeaderMetadata(db, row))
    BY <2>1, <2>5, <2>6 DEF IndexHeader, IndexUpdate, IndexEdit, OldName, src
  <2>8. row \in Row /\ row.name = n /\ row.link = NoName /\ row.from = NoName /\ row.type = "reg"
    <3>1. row \in Row
      BY <2>3, <2>4, HeaderRow DEF Row, Position
    <3> QED
      BY <2>5, <2>6, <3>1 DEF TarHeaderToDBHeader
  <2> HIDE DEF row
  <2> DEFINE changed == UpdateHeaderMetadata(db, row)
  <2> HIDE DEF changed
  <2>9. /\ RowsInv' /\ db' = {PlacedRow(r) : r \in changed}
        /\ \A r \in db : PlacedRow(r) = r
    <3>1. Perform(Call("Chmod", n), FALSE, <<hdr>>) /\ RowsInv
      BY <2>2 DEF hdr, FilesInv
    <3>2. IndexHeader(db, 2, hdr) = Indexed(changed)
      BY <2>7 DEF changed
    <3> QED
      BY <2>4, <3>1, <3>2, OnePerformed
  <2>10. /\ PlacedRow(row).name = n /\ PlacedRow(row).link = NoName
         /\ PlacedRow(row).from = NoName /\ PlacedRow(row).type = "reg"
    BY <2>8, UnplacedRow
  <2> DEFINE new == PlacedRow(row)
  <2>11. db' = {IF r.name = n THEN new ELSE r : r \in db}
    <3>1. \A r \in db : SameKey(r, row) <=> r.name = n
      BY <2>8 DEF SameKey, FilesInv, Filed
    <3>2. changed = {IF r.name = n THEN row ELSE r : r \in db}
      BY <3>1 DEF changed, UpdateHeaderMetadata
    <3> QED
      BY <2>9, <3>2
  <2> HIDE DEF new
  <2>12. Filed(db')
    BY <2>10, <2>11 DEF FilesInv, Filed, new
  <2>13. Apart(db, db', {n})
    BY <2>10, <2>11 DEF Apart, new
  <2> QED
    BY <2>9, <2>12, <2>13, FilesInvIs
<1> QED
  BY <1>1, <1>2

(* A file is renamed to a name that no row has.                            *)
LEMMA MoveFiles ==
  ASSUME FilesInv, Suffixless, NEW call, NEW from \in FileNames, NEW to \in FileNames,
         GetHeader(db, from) # NoRow, Move(call, from, to), free = 0, free' = 0
  PROVE  FilesInv' /\ Apart(db, db', {from, to})
<1>1. CASE db' = db
  BY <1>1 DEF FilesInv, RowsInv, Filed, Table, KeysUnique, Placed, Apart
<1>2. CASE db' # db
  <2> DEFINE src == GetHeader(db, from)
             hdr == RenameHeader(src, from, to)
  <2>0. /\ src \in Row /\ src \in db /\ src.name = from /\ src.type = "reg" /\ src.link = NoName
        /\ Lookup(db, from) = src /\ from \in Name /\ to \in Name
    BY FilesInvIs, FiledFinds, FiledLooks, FileSystemAssumption DEF Live
  <2> HIDE DEF src
  <2>1. Rebase(src.name, from, to) = to
    <3>1. SubSeq(from, Len(from) + 1, Len(from)) = <<>>
      BY <2>0, SubSeqEmpty DEF Name
    <3>2. to \o <<>> = to
      BY <2>0 DEF Name
    <3> QED
      BY <2>0, <3>1, <3>2 DEF Rebase
  <2>2. from # to /\ Perform(call, ~PlainRename({} \cup {src}, from, to), <<hdr>>)
    <3>1. from # to /\ \E children \in SetToSeqs({}) :
            LET moved == <<src>> \o children
            IN  Perform(call, ~PlainRename({} \cup {src}, from, to),
                        [i \in DOMAIN moved |-> RenameHeader(moved[i], from, to)])
      BY <1>2, <2>0 DEF Move, Answer
    <3>2. PICK children \in SetToSeqs({}) :
            LET moved == <<src>> \o children
            IN  Perform(call, ~PlainRename({} \cup {src}, from, to),
                        [i \in DOMAIN moved |-> RenameHeader(moved[i], from, to)])
      BY <3>1
    <3>3. children = <<>>
      BY <3>2, FS_EmptySet DEF SetToSeqs
    <3>4. <<src>> \o children = <<src>>
      BY <3>3
    <3>5. [i \in DOMAIN <<src>> |-> RenameHeader(<<src>>[i], from, to)] = <<hdr>>
      OBVIOUS
    <3> QED
      BY <3>1, <3>2, <3>4, <3>5
  <2>3. \A s \in db : s.name # to
    <3>1. PlainRename({} \cup {src}, from, to)
      BY <2>2 DEF Perform, Operate
    <3> QED
      BY <2>1, <3>1 DEF PlainRename
  <2>4. hdr \in Header
    <3>1. NewMode \in Modes
      BY FileSystemAssumption
    <3> QED
      BY <2>0, <3>1, RowHeaders
  <2>5. /\ hdr.action = "update" /\ hdr.name = to /\ hdr.type = "reg" /\ hdr.link = NoName
        /\ hdr.from = from
    BY <2>0, <2>1 DEF RenameHeader, HeaderOfRow
  <2> HIDE DEF hdr
  <2>6. IndexedName(hdr) = to /\ OldName(hdr) = from
    BY <2>0, <2>5, PathsAssumption DEF IndexedName, OldName, Suffixless
  <2>7. IndexEdit(db, 2, hdr) = db
    <3>1. \A record : UpdateHeaderMetadata(db, TarHeaderToDBHeader(hdr, record, 2)) = db
      BY <2>3, <2>6 DEF UpdateHeaderMetadata, TarHeaderToDBHeader, SameKey
    <3> QED
      BY <3>1 DEF IndexEdit
  <2> DEFINE put(r) == [r EXCEPT !.name = to, !.last = 2]
  <2>8. IndexHeader(db, 2, hdr) = Indexed({IF r.name = from THEN put(r) ELSE r : r \in db})
    <3>1. ~MoveConflict(db, from, to) /\ hdr.from # NoName
      BY <2>0, <2>3, <2>5, PathsAssumption DEF MoveConflict
    <3> QED
      BY <2>5, <2>6, <2>7, <3>1 DEF IndexHeader, IndexUpdate, MoveHeader
  <2>9. ASSUME NEW r \in db
        PROVE  /\ put(r) \in Row /\ put(r).name = to /\ put(r).link = r.link
               /\ put(r).from = r.from /\ put(r).type = r.type
    <3>0. to \in Name
      BY <2>0
    <3>1. r \in Row
      BY DEF FilesInv, RowsInv, Table
    <3>2. 2 \in Position
      BY DEF Position
    <3>3. LET q == RowRenamed(r, to, 2)
          IN  /\ q \in Row /\ q.name = to /\ q.link = r.link /\ q.from = r.from
              /\ q.type = r.type
      BY <3>0, <3>1, <3>2, RenamedRow
    <3> QED
      BY <3>3 DEF RowRenamed
  <2> HIDE DEF put
  <2>10. /\ RowsInv' /\ \A r \in db : PlacedRow(r) = r
         /\ db' = {PlacedRow(r) : r \in {IF r.name = from THEN put(r) ELSE r : r \in db}}
    BY <2>2, <2>4, <2>8, OnePerformed DEF FilesInv
  <2>11. \A r \in db : /\ PlacedRow(put(r)).name = to /\ PlacedRow(put(r)).link = r.link
                       /\ PlacedRow(put(r)).from = r.from /\ PlacedRow(put(r)).type = r.type
    BY <2>9, UnplacedRow
  <2>12. db' = {IF r.name = from THEN PlacedRow(put(r)) ELSE r : r \in db}
    BY <2>10
  <2>13. Filed(db')
    BY <2>11, <2>12 DEF FilesInv, Filed
  <2>14. Apart(db, db', {from, to})
    BY <2>11, <2>12 DEF Apart
  <2> QED
    BY <2>10, <2>13, <2>14, FilesInvIs
<1> QED
  BY <1>1, <1>2

-----------------------------------------------------------------------------
(* What clients see of open files.                                         *)

(* What a client sees of an open file.                                     *)
ViewIn(t, f) ==
  LET trunc == "truncate" \in f.flags
  IN  [name |-> f.path, flags |-> f.flags, at |-> f.at,
       data |-> IF f.io # "none" THEN f.data ELSE IF trunc THEN <<>> ELSE SizeOf(t, f.path),
       written |-> trunc \/ f.io = "buffer"]
ViewsIn(t, hs) == [h \in Handles |-> IF hs[h] = NoFile THEN NoFile ELSE ViewIn(t, hs[h])]

LEMMA ViewedIs ==
  /\ Contained = FilesIn(db) /\ Contained' = FilesIn(db')
  /\ Viewed = ViewsIn(db, handles) /\ Viewed' = ViewsIn(db', handles')
<1>1. ASSUME NEW n
      PROVE  ContentOf(n) = SizeOf(db, n) /\ ContentOf(n)' = SizeOf(db', n)
  BY DEF ContentOf, StatName, SizeOf
<1>2. Contained = FilesIn(db) /\ Contained' = FilesIn(db')
  BY <1>1 DEF Contained, FilesIn
<1>3. ASSUME NEW f
      PROVE  ViewOf(f) = ViewIn(db, f) /\ ViewOf(f)' = ViewIn(db', f)
  BY <1>1 DEF ViewOf, ViewIn
<1>4. Viewed = ViewsIn(db, handles)
  BY <1>3 DEF Viewed, ViewsIn
<1>5. Viewed' = ViewsIn(db', handles')
  <2>1. ASSUME NEW h \in Handles PROVE ViewOf(handles[h])' = ViewIn(db', handles'[h])
    BY <1>1 DEF ViewOf, ViewIn, ContentOf, StatName, SizeOf
  <2> QED
    BY <2>1 DEF Viewed, ViewsIn
<1> QED
  BY <1>2, <1>4, <1>5

(* What the file behind a handle is while clients take no liberty.         *)
Sound(t, f) ==
  LET size == SizeOf(t, f.path)
  IN  /\ GetHeader(t, f.path) # NoRow /\ f.io # "closed"
      /\ f.io = "none" => f.at = 0
      /\ f.io = "pipe" => "truncate" \notin f.flags /\ f.data = size /\ f.at <= Len(f.data)
      /\ f.io # "buffer" => f.size = Len(size)

BytesState ==
  /\ FilesInv /\ handles \in [Handles -> Handle \cup {NoFile}]
  /\ \A h \in Handles : handles[h] # NoFile => Sound(db, handles[h])

LEMMA SizeIsSize ==
  ASSUME NEW t, OnlyFiles(t), NEW n
  PROVE  SizeOf(t, n) \in Sizes /\ SizeOf(t, n) \in Seq(Byte) /\ Len(SizeOf(t, n)) \in Nat
<1>1. SizeOf(t, n) \in Sizes
  BY FiledFinds, OpenFilesAssumption DEF SizeOf, Sizes, Row
<1> QED
  BY <1>1, SizesAre

LEMMA ViewIsView ==
  ASSUME NEW t, OnlyFiles(t), NEW f \in Handle
  PROVE  ViewIn(t, f) \in View /\ ViewIn(t, f) # NoFile /\ ViewIn(t, f).data \in Seq(Byte)
<1>1. SizeOf(t, f.path) \in Sizes /\ <<>> \in Sizes
  BY SizeIsSize, OpenFilesAssumption DEF Sizes
<1>2. ViewIn(t, f).data \in Sizes
  BY <1>1 DEF ViewIn, Handle
<1>3. ViewIn(t, f) \in View
  BY <1>2 DEF ViewIn, View, Handle
<1> QED
  BY <1>2, <1>3, SizesAre, OpenFilesAssumption

(* An open handle and its view.                                            *)
LEMMA OpenIs ==
  ASSUME BytesState, NEW h \in Handles, handles[h] # NoFile
  PROVE  LET f == handles[h]
         IN  /\ f \in Handle /\ Sound(db, f) /\ OnlyFiles(db)
             /\ f.path \in FileNames /\ f.data \in Seq(Byte) /\ Len(f.data) \in Nat /\ f.at \in Nat
             /\ Viewed[h] = ViewIn(db, f) /\ Viewed[h].name = f.path /\ Viewed[h].flags = f.flags
             /\ Viewed[h].at = f.at /\ Viewed[h] \in View /\ Viewed \in [Handles -> View \cup {NoFile}]
             /\ Viewed[h].data \in Seq(Byte) /\ Len(Viewed[h].data) \in Nat
<1>1. handles[h] \in Handle /\ Sound(db, handles[h]) /\ OnlyFiles(db)
  BY FilesInvIs DEF BytesState
<1>2. handles[h].data \in Seq(Byte)
  BY <1>1, SizesAre DEF Handle
<1>3. Viewed[h] = ViewIn(db, handles[h])
  BY ViewedIs DEF ViewsIn
<1>4. Viewed \in [Handles -> View \cup {NoFile}]
  BY <1>1, ViewedIs, ViewIsView DEF ViewsIn, BytesState
<1>5. Viewed[h] \in View /\ Viewed[h].data \in Seq(Byte)
  BY <1>1, <1>3, ViewIsView
<1>6. /\ Viewed[h].name = handles[h].path /\ Viewed[h].flags = handles[h].flags
      /\ Viewed[h].at = handles[h].at
  BY <1>3 DEF ViewIn
<1> QED
  BY <1>1, <1>2, <1>3, <1>4, <1>5, <1>6 DEF Handle

(* Some of a view changes.                                                 *)
LEMMA ViewMoves ==
  ASSUME NEW v \in [Handles -> View \cup {NoFile}], NEW h \in Handles, v[h] \in View, NEW at
  PROVE  [v EXCEPT ![h].at = at] = [v EXCEPT ![h] = [v[h] EXCEPT !.at = at]]
OBVIOUS

(* A handle whose file is another, in an index where the other files have  *)
(* the contents they had.                                                  *)
LEMMA ViewsPut ==
  ASSUME BytesState, FilesInv', NEW h \in Handles, NEW g \in Handle \cup {NoFile},
         handles' = [handles EXCEPT ![h] = g], g # NoFile => Sound(db', g),
         \A k \in Handles \ {h} : handles[k] # NoFile =>
           /\ SizeOf(db', handles[k].path) = SizeOf(db, handles[k].path)
           /\ GetHeader(db', handles[k].path) # NoRow
  PROVE  /\ BytesState'
         /\ Viewed' = [Viewed EXCEPT ![h] = IF g = NoFile THEN NoFile ELSE ViewIn(db', g)]
<1>1. handles' \in [Handles -> Handle \cup {NoFile}]
  BY DEF BytesState
<1>2. handles'[h] = g /\ \A k \in Handles \ {h} : handles'[k] = handles[k]
  BY DEF BytesState
<1>3. ASSUME NEW k \in Handles, handles'[k] # NoFile PROVE Sound(db', handles'[k])
  <2>1. CASE k = h
    BY <1>2, <1>3, <2>1
  <2>2. CASE k # h
    <3>1. Sound(db, handles[k]) /\ handles'[k] = handles[k] /\ handles[k] # NoFile
      BY <1>2, <1>3, <2>2 DEF BytesState
    <3> QED
      BY <2>2, <3>1 DEF Sound
  <2> QED
    BY <2>1, <2>2
<1>4. BytesState'
  BY <1>1, <1>3 DEF BytesState
<1>5. ASSUME NEW k \in Handles \ {h}, handles[k] # NoFile
      PROVE  ViewIn(db', handles[k]) = ViewIn(db, handles[k])
  BY <1>5 DEF ViewIn
<1>6. ViewsIn(db', handles')
        = [ViewsIn(db, handles) EXCEPT ![h] = IF g = NoFile THEN NoFile ELSE ViewIn(db', g)]
  <2> DEFINE one == IF g = NoFile THEN NoFile ELSE ViewIn(db', g)
             new == ViewsIn(db', handles')
             old == ViewsIn(db, handles)
  <2>1. new[h] = one
    BY <1>2 DEF ViewsIn
  <2>2. \A k \in Handles \ {h} : new[k] = old[k]
    BY <1>2, <1>5 DEF ViewsIn
  <2>3. new = [k \in Handles |-> new[k]] /\ old = [k \in Handles |-> old[k]]
    BY DEF ViewsIn
  <2> HIDE DEF one, new, old
  <2>4. new = [old EXCEPT ![h] = one]
    BY <2>1, <2>2, <2>3
  <2> QED
    BY <2>4 DEF one, new, old
<1> QED
  BY <1>4, <1>6, ViewedIs

(* A call that is no liberty.                                              *)
LEMMA NoLiberty ==
  ASSUME NEW liberty, Count(liberty), loose = 0, loose' = 0
  PROVE  ~liberty
BY DEF Count

(* A handle whose file changes while the index does not.                   *)
LEMMA HandleMoves ==
  ASSUME BytesState, NEW h \in Handles, handles[h] # NoFile, NEW g \in Handle,
         db' = db, Becomes(h, g), Sound(db, g), g.path = handles[h].path,
         g.flags = handles[h].flags
  PROVE  /\ BytesState' /\ UNCHANGED Contained
         /\ Viewed' = [Viewed EXCEPT ![h] = ViewIn(db, g)] /\ Viewed'[h] = ViewIn(db, g)
         /\ ViewIn(db, g) = Viewed[h] => UNCHANGED Viewed
         /\ ViewIn(db, g).data = Viewed[h].data /\ ViewIn(db, g).written = Viewed[h].written
              => Bytes!Moves(h, g.at)
         /\ ViewIn(db, g).written = TRUE => Bytes!Sees(h, ViewIn(db, g).data, g.at)
<1> DEFINE w == ViewIn(db, g)
           v == Viewed[h]
<1>0. v \in View /\ Viewed \in [Handles -> View \cup {NoFile}] /\ v = ViewIn(db, handles[h])
  BY OpenIs
<1>1. FilesInv'
  BY DEF BytesState, FilesInv, RowsInv, Filed, Table, KeysUnique, Placed
<1>2. BytesState' /\ Viewed' = [Viewed EXCEPT ![h] = w]
  <2>1. handles' = [handles EXCEPT ![h] = g] /\ Sound(db', g) /\ g # NoFile
    BY OpenFilesAssumption DEF Becomes
  <2>2. \A k \in Handles \ {h} : handles[k] # NoFile =>
          /\ SizeOf(db', handles[k].path) = SizeOf(db, handles[k].path)
          /\ GetHeader(db', handles[k].path) # NoRow
    BY DEF BytesState, Sound
  <2>3. BytesState' /\ Viewed' = [Viewed EXCEPT ![h] = IF g = NoFile THEN NoFile ELSE ViewIn(db', g)]
    BY <1>1, <2>1, <2>2, ViewsPut
  <2> QED
    BY <2>1, <2>3
<1>3. UNCHANGED Contained
  BY ViewedIs
<1>4. Viewed'[h] = w
  BY <1>0, <1>2
<1>5. ASSUME w = v PROVE UNCHANGED Viewed
  BY <1>0, <1>2, <1>5
<1>6. /\ v = [name |-> g.path, flags |-> g.flags, at |-> v.at, data |-> v.data, written |-> v.written]
      /\ w = [name |-> g.path, flags |-> g.flags, at |-> g.at, data |-> w.data, written |-> w.written]
  BY <1>0 DEF ViewIn
<1> HIDE DEF w
<1>7. ASSUME w.data = v.data, w.written = v.written PROVE Bytes!Moves(h, g.at)
  <2>1. [v EXCEPT !.at = g.at] = w
    BY <1>6, <1>7
  <2>2. [Viewed EXCEPT ![h].at = g.at] = [Viewed EXCEPT ![h] = [Viewed[h] EXCEPT !.at = g.at]]
    BY <1>0, ViewMoves
  <2> QED
    BY <1>2, <1>3, <2>1, <2>2 DEF Bytes!Moves
<1>8. ASSUME w.written = TRUE PROVE Bytes!Sees(h, w.data, g.at)
  <2>0. v.name = g.path /\ v.flags = g.flags
    BY <1>6
  <2>1. w = [name |-> v.name, flags |-> v.flags, at |-> g.at, data |-> w.data, written |-> TRUE]
    BY <1>6, <1>8, <2>0
  <2>2. Viewed' = [Viewed EXCEPT ![h] = [name |-> v.name, flags |-> v.flags, at |-> g.at,
                                         data |-> w.data, written |-> TRUE]]
    BY <1>2, <2>1
  <2> QED
    BY <1>3, <2>2 DEF Bytes!Sees
<1> QED
  BY <1>1, <1>2, <1>3, <1>4, <1>5, <1>7, <1>8 DEF w

(* A call that leaves everything as it is.                                 *)
LEMMA NothingMoves ==
  ASSUME BytesState, db' = db, handles' = handles
  PROVE  BytesState' /\ UNCHANGED <<Contained, Viewed>>
<1>1. BytesState'
  BY DEF BytesState, FilesInv, RowsInv, Filed, Table, KeysUnique, Placed
<1> QED
  BY <1>1, ViewedIs


(* What a view is made of.                                                 *)
LEMMA ViewParts ==
  ASSUME NEW t, NEW f
  PROVE  /\ f.io # "none" => ViewIn(t, f).data = f.data
         /\ f.io = "none" /\ "truncate" \notin f.flags => ViewIn(t, f).data = SizeOf(t, f.path)
         /\ f.io = "none" /\ "truncate" \in f.flags => ViewIn(t, f).data = <<>>
         /\ "truncate" \in f.flags \/ f.io = "buffer" => ViewIn(t, f).written = TRUE
         /\ "truncate" \notin f.flags /\ f.io # "buffer" => ViewIn(t, f).written = FALSE
<1>1. /\ ViewIn(t, f).data = IF f.io # "none" THEN f.data
                             ELSE IF "truncate" \in f.flags THEN <<>> ELSE SizeOf(t, f.path)
      /\ ViewIn(t, f).written = ("truncate" \in f.flags \/ f.io = "buffer")
  BY DEF ViewIn
<1> QED
  BY <1>1, Zenon

(* The file once it has been sought in.                                    *)
LEMMA SoughtIs ==
  ASSUME BytesState, NEW h \in Handles, handles[h] # NoFile, ~Uncleared(handles[h]),
         NEW dst \in Nat
  PROVE  LET f == handles[h]
             s == Sought(f, dst)
         IN  /\ s \in Handle /\ s.path = f.path /\ s.flags = f.flags /\ s.size = f.size
             /\ s.data = Viewed[h].data /\ Viewed[h].written = (s.io = "buffer")
             /\ s.io \in {"pipe", "buffer"} /\ (s.io = "buffer" <=> f.io = "buffer")
             /\ s.at = IF f.io = "buffer" THEN dst ELSE Least(dst, Len(s.data))
             /\ s.io = "pipe" => /\ s.data = SizeOf(db, f.path) /\ f.size = Len(s.data)
                                 /\ f.at <= Len(s.data) /\ "truncate" \notin f.flags
<1> DEFINE f == handles[h]
           row == GetHeader(db, f.path)
           size == SizeOf(db, f.path)
<1>0. /\ f \in Handle /\ Sound(db, f) /\ OnlyFiles(db) /\ f.path \in FileNames
      /\ Viewed[h] = ViewIn(db, f) /\ f.data \in Seq(Byte) /\ f.at \in Nat
  BY OpenIs
<1>1. row.size = size /\ size \in Sizes /\ size \in Seq(Byte) /\ Len(size) \in Nat
  BY <1>0, FiledFinds, SizeIsSize DEF Sound, SizeOf
<1>2. f.io \in {"none", "pipe", "buffer"}
  BY <1>0 DEF Sound, Handle
<1>3. CASE f.io = "buffer"
  <2>1. Sought(f, dst) = [f EXCEPT !.at = dst]
    BY <1>3 DEF Sought
  <2>2. Viewed[h].data = f.data /\ Viewed[h].written = TRUE
    <3>1. f.io # "none"
      BY <1>3
    <3>2. ViewIn(db, f).data = f.data
      BY <3>1, ViewParts
    <3>3. ViewIn(db, f).written = TRUE
      BY <1>3, ViewParts, Zenon
    <3> QED
      BY <1>0, <3>2, <3>3, Zenon
  <2> HIDE DEF f
  <2> DEFINE s == [f EXCEPT !.at = dst]
  <2>3. /\ s \in Handle /\ s.path = f.path /\ s.flags = f.flags /\ s.size = f.size /\ s.data = f.data
        /\ s.io = "buffer" /\ s.at = dst
    BY <1>0, <1>3 DEF Handle
  <2> HIDE DEF s
  <2> QED
    BY <1>3, <2>1, <2>2, <2>3 DEF s, f
<1>4. CASE f.io \in {"none", "pipe"}
  <2>1. "truncate" \notin f.flags
    BY <1>4 DEF Uncleared
  <2>2. Viewed[h].data = size /\ Viewed[h].written = FALSE
    <3>1. f.io = "pipe" => f.data = size
      BY <1>0 DEF Sound
    <3>2. f.io # "buffer" /\ (f.io = "pipe" => f.io # "none") /\ (f.io = "none" \/ f.io = "pipe")
      BY <1>4
    <3>3. ViewIn(db, f).data = size
      BY <2>1, <3>1, <3>2, ViewParts
    <3>4. ViewIn(db, f).written = FALSE
      BY <2>1, <3>2, ViewParts, Zenon
    <3> QED
      BY <1>0, <3>3, <3>4, Zenon
  <2>3. f.size = Len(size) /\ f.at <= Len(size) /\ (f.io = "pipe" => f.data = size)
    BY <1>0, <1>1, <1>4 DEF Sound
  <2> DEFINE g == IF Restores(f, dst) THEN Restored(f) ELSE f
             s == [g EXCEPT !.at = Least(dst, Len(g.data))]
  <2>4. /\ g \in Handle /\ g.path = f.path /\ g.flags = f.flags /\ g.size = f.size /\ g.data = size
        /\ g.io = "pipe"
    <3>1. CASE Restores(f, dst)
      <4>1. g = [f EXCEPT !.io = "pipe", !.data = size, !.at = 0]
        BY <1>1, <3>1 DEF Restored
      <4> HIDE DEF f, size, g
      <4> QED
        BY <1>0, <1>1, <4>1 DEF Handle
    <3>2. CASE ~Restores(f, dst)
      <4>1. g = f /\ f.io = "pipe"
        BY <1>4, <3>2 DEF Restores
      <4> QED
        BY <1>0, <2>3, <4>1
    <3> QED
      BY <3>1, <3>2
  <2>5. Sought(f, dst) = s
    <3>1. f.io # "buffer" /\ ~(dst < 0)
      BY <1>4
    <3> HIDE DEF f
    <3> QED
      BY <3>1 DEF Sought
  <2> HIDE DEF g, f, size
  <2>6. Least(dst, Len(g.data)) \in Nat
    BY <1>1, <2>4 DEF Least
  <2> DEFINE l == Least(dst, Len(g.data))
  <2> HIDE DEF l
  <2>7. /\ s \in Handle /\ s.path = f.path /\ s.flags = f.flags /\ s.size = f.size /\ s.data = size
        /\ s.io = "pipe" /\ s.at = l
    BY <2>4, <2>6 DEF Handle, l
  <2>8. s.at = Least(dst, Len(s.data))
    BY <2>4, <2>7 DEF l
  <2> HIDE DEF s
  <2> QED
    BY <1>4, <2>1, <2>2, <2>3, <2>5, <2>7, <2>8 DEF f, size
<1> QED
  BY <1>2, <1>3, <1>4

(* The file once it is written to.                                         *)
LEMMA EnteredIs ==
  ASSUME BytesState, NEW h \in Handles, handles[h] # NoFile
  PROVE  LET f == handles[h]
             e == Entered(f)
         IN  /\ e \in Handle /\ e.path = f.path /\ e.flags = f.flags
             /\ e.io = "buffer" /\ e.data = Viewed[h].data /\ e.data \in Seq(Byte) /\ e.at \in Nat
<1> DEFINE f == handles[h]
           size == SizeOf(db, f.path)
<1>0. /\ f \in Handle /\ Sound(db, f) /\ OnlyFiles(db) /\ f.path \in FileNames
      /\ Viewed[h] = ViewIn(db, f) /\ f.data \in Seq(Byte) /\ f.at \in Nat
      /\ Viewed[h].data \in Seq(Byte)
  BY OpenIs
<1>1. size \in Sizes /\ size \in Seq(Byte) /\ Len(size) \in Nat /\ Empty = <<>> /\ <<>> \in Sizes
  BY <1>0, SizeIsSize, OpenFilesAssumption DEF Sizes
<1>2. CASE f.io = "buffer"
  BY <1>0, <1>2 DEF Entered, ViewIn
<1>3. CASE f.io \in {"none", "pipe"}
  <2> DEFINE data == IF "truncate" \in f.flags THEN <<>> ELSE size
             at == IF "append" \in f.flags THEN Len(size) ELSE 0
             e == [f EXCEPT !.io = "buffer", !.data = data, !.at = at]
  <2>1. Entered(f) = e
    <3>1. StatName(f.path) = GetHeader(db, f.path) /\ GetHeader(db, f.path) # NoRow
          /\ size = GetHeader(db, f.path).size
      BY <1>0, FiledLooks, FiledFinds DEF Sound, SizeOf
    <3> HIDE DEF f
    <3> QED
      BY <1>1, <1>3, <3>1 DEF Entered
  <2>2. Viewed[h].data = data
    BY <1>0, <1>3 DEF ViewIn, Sound
  <2>3. data \in Sizes /\ at \in Nat
    BY <1>1
  <2> HIDE DEF f, data, at
  <2>4. e \in Handle /\ e.path = f.path /\ e.flags = f.flags /\ e.io = "buffer" /\ e.data = data
        /\ e.at = at
    BY <1>0, <2>3 DEF Handle
  <2> HIDE DEF e
  <2> QED
    BY <1>0, <2>1, <2>2, <2>3, <2>4 DEF f
<1> QED
  BY <1>0, <1>2, <1>3 DEF Sound, Handle

-----------------------------------------------------------------------------
(* Reading.                                                                *)

(* A call on an open handle, when nobody has taken a liberty.              *)
Held(h) == BytesState /\ handles[h] # NoFile /\ loose = 0 /\ loose' = 0

LEMMA FailingIs ==
  ASSUME NEW h \in Handles, Held(h), NEW call, NEW res, Fail(call, res)
  PROVE  BytesState' /\ UNCHANGED <<Contained, Viewed>> /\ last'.res = res
<1>1. db' = db /\ handles' = handles /\ last'.res = res
  BY DEF Fail, Give
<1> QED
  BY <1>1, NothingMoves DEF Held

LEMMA Refusal ==
  ASSUME NEW h \in Handles, Held(h), NEW call, Refused(h, call)
  PROVE  /\ BytesState' /\ UNCHANGED <<Contained, Viewed>> /\ last'.res = "permission"
         /\ "write" \notin Viewed[h].flags
<1>1. handles[h].io # "closed" /\ Viewed[h].flags = handles[h].flags
  BY OpenIs DEF Held, Sound
<1> QED
  BY <1>1, FailingIs DEF Refused

LEMMA NoPanic ==
  ASSUME NEW h \in Handles, Held(h), NEW call, NEW dst
  PROVE  ~Panic(h, call, dst) /\ ~SyncClosed(h, call) /\ handles[h].io # "closed"
<1>1. GetHeader(db, handles[h].path) # NoRow /\ handles[h].io # "closed"
  BY OpenIs DEF Held, Sound
<1> QED
  BY <1>1 DEF Panic, SyncClosed

(* Seeking changes nothing that a client sees but the position.            *)
LEMMA SoughtView ==
  ASSUME NEW f, NEW g, g.flags = f.flags, g.data = ViewIn(db, f).data,
         g.io \in {"pipe", "buffer"}, g.io = "buffer" <=> f.io = "buffer",
         g.io = "pipe" => "truncate" \notin f.flags
  PROVE  ViewIn(db, g).data = ViewIn(db, f).data /\ ViewIn(db, g).written = ViewIn(db, f).written
<1>1. ViewIn(db, g).data = g.data
  BY ViewParts
<1>2. CASE g.io = "buffer"
  <2>1. ViewIn(db, f).written = TRUE
    BY <1>2, ViewParts, Zenon
  <2>2. ViewIn(db, g).written = TRUE
    BY <1>2, ViewParts, Zenon
  <2> QED
    BY <1>1, <2>1, <2>2
<1>3. CASE g.io = "pipe"
  <2>1. "truncate" \notin f.flags /\ f.io # "buffer" /\ g.io # "buffer"
    BY <1>3
  <2>2. ViewIn(db, f).written = FALSE
    BY <2>1, ViewParts, Zenon
  <2>3. ViewIn(db, g).written = FALSE
    BY <2>1, ViewParts, Zenon
  <2> QED
    BY <1>1, <2>2, <2>3
<1> QED
  BY <1>2, <1>3

(* What reading from a position yields, and where it leads to.             *)
LEMMA ReadToIs ==
  ASSUME NEW h \in Handles, Held(h), ~Uncleared(handles[h]), NEW call, NEW dst \in Nat,
         NEW k \in Nat \ {0}, ReadTo(h, call, dst, k)
  PROVE  /\ BytesState' /\ Bytes!Allowed(h, "read")
         /\ "read" \in Viewed[h].flags =>
              /\ Bytes!ReadBytes(h, dst, k)
              /\ \E at : /\ Bytes!Moves(h, at) /\ Viewed'[h].at = at
                         /\ dst = Viewed[h].at => at = dst + Len(last'.out)
<1> DEFINE f == handles[h]
           s == Sought(f, dst)
           data == s.data
           n == Available(data, dst, k)
<1>0. BytesState /\ handles[h] # NoFile
  BY DEF Held
<1>1. /\ f \in Handle /\ Sound(db, f) /\ Viewed[h].flags = f.flags /\ Viewed[h].at = f.at
      /\ Viewed[h].data \in Seq(Byte) /\ Viewed[h] = ViewIn(db, f)
  BY <1>0, OpenIs
<1>2. CASE "read" \notin f.flags /\ Fail(call, "permission")
  <2>1. BytesState' /\ UNCHANGED <<Contained, Viewed>> /\ last'.res = "permission"
    BY <1>2, FailingIs
  <2> QED
    BY <1>1, <1>2, <2>1 DEF Bytes!Allowed
<1>3. CASE "read" \in f.flags /\ ReadFrom(h, call, s, k)
  <2> HIDE DEF f
  <2>1. /\ s \in Handle /\ s.path = f.path /\ s.flags = f.flags /\ s.size = f.size
        /\ s.data = Viewed[h].data /\ Viewed[h].written = (s.io = "buffer")
        /\ s.io \in {"pipe", "buffer"} /\ (s.io = "buffer" <=> f.io = "buffer")
        /\ s.at = IF f.io = "buffer" THEN dst ELSE Least(dst, Len(s.data))
        /\ s.io = "pipe" => /\ s.data = SizeOf(db, f.path) /\ f.size = Len(s.data)
                            /\ f.at <= Len(s.data) /\ "truncate" \notin f.flags
    BY <1>0, SoughtIs DEF f
  <2>2. s.at \in Nat /\ f.at \in Nat /\ data \in Seq(Byte) /\ Len(data) \in Nat
    BY <1>1, <2>1 DEF Handle
  <2> DEFINE out == Slice(data, s.at, k)
             g == [s EXCEPT !.at = @ + Len(out)]
  <2> HIDE DEF s
  <2>3. /\ out = SubSeq(data, dst + 1, dst + n) /\ Len(out) = n /\ n \in 0 .. k
        /\ out = <<>> <=> n = 0
    <3> DEFINE from == s.at
    <3>1. from = dst \/ from = Least(dst, Len(data))
      BY <2>1
    <3> HIDE DEF data, from
    <3>2. /\ Slice(data, from, k) = SubSeq(data, dst + 1, dst + n)
          /\ Len(Slice(data, from, k)) = n
      BY <2>2, <3>1, SliceIs
    <3>3. n \in 0 .. k /\ (Slice(data, from, k) = <<>> <=> n = 0)
      BY <2>2, <3>1, SliceIs
    <3> HIDE DEF n
    <3> QED
      BY <3>2, <3>3 DEF from
  <2>4. s.io = "pipe" => s.at + Len(out) <= Len(data)
    <3>1. Len(out) = Available(data, s.at, k)
      BY <2>2, SliceIs
    <3>2. s.io = "pipe" => s.at <= Len(data)
      BY <2>1, <2>2 DEF Least
    <3> HIDE DEF data, out
    <3> QED
      BY <2>2, <3>1, <3>2 DEF Available
  <2> HIDE DEF n
  <2>5. /\ Becomes(h, g) /\ db' = db
        /\ last'.out = out
        /\ last'.res = IF (IF s.io = "pipe" THEN Len(out) < k ELSE out = <<>>) THEN "eof" ELSE "ok"
    <3> HIDE DEF data
    <3> QED
      BY <1>3 DEF ReadFrom, Give, data
  <2> HIDE DEF out
  <2> DEFINE at == s.at + Len(out)
  <2>6. at \in Nat
    BY <2>2, <2>3
  <2> HIDE DEF at
  <2>7. /\ g \in Handle /\ g.path = f.path /\ g.flags = f.flags /\ g.data = data /\ g.io = s.io
        /\ g.at = at /\ g.size = f.size
    <3>1. g = [s EXCEPT !.at = at]
      BY DEF at
    <3> HIDE DEF g
    <3> QED
      BY <2>1, <2>6, <3>1 DEF Handle
  <2> HIDE DEF g
  <2>8. Sound(db, g)
    BY <1>1, <2>1, <2>4, <2>7 DEF Sound, at
  <2>9. ViewIn(db, g).data = Viewed[h].data /\ ViewIn(db, g).written = Viewed[h].written
    BY <1>1, <2>1, <2>7, SoughtView
  <2>10. BytesState' /\ Bytes!Moves(h, at) /\ Viewed'[h].at = at
    <3>1. g.path = handles[h].path /\ g.flags = handles[h].flags
      BY <2>7 DEF f
    <3>2. ViewIn(db, g).at = at
      BY <2>7 DEF ViewIn
    <3> QED
      BY <1>0, <2>5, <2>7, <2>8, <2>9, <3>1, <3>2, HandleMoves
  <2>11. dst = Viewed[h].at => at = dst + Len(last'.out)
    <3> SUFFICES ASSUME dst = f.at PROVE s.at = dst
      BY <1>1, <2>5 DEF at
    <3> QED
      BY <2>1, <2>2 DEF Least
  <2>12. Bytes!ReadBytes(h, dst, k)
    <3>1. /\ last'.out = SubSeq(data, dst + 1, dst + n)
          /\ n = 0 => last'.res = "eof"
          /\ n = k => last'.res = "ok"
      BY <2>3, <2>5
    <3>2. n = IF dst >= Len(data) THEN 0 ELSE IF dst + k > Len(data) THEN Len(data) - dst ELSE k
      BY DEF n, Available
    <3>3. data = Viewed[h].data
      BY <2>1
    <3> HIDE DEF data
    <3> QED
      BY <3>1, <3>2, <3>3 DEF Bytes!ReadBytes
  <2>13. Bytes!Allowed(h, "read")
    BY <1>1, <1>3 DEF Bytes!Allowed
  <2> QED
    BY <2>10, <2>11, <2>12, <2>13
<1> QED
  BY <1>2, <1>3, NoPanic DEF ReadTo

LEMMA ReadOutcome ==
  ASSUME NEW h \in Handles, Held(h), NEW k \in Lengths, Read(h, k)
  PROVE  BytesState' /\ Bytes!Read(h, k)
<1>1. k \in Nat \ {0} /\ handles[h].at \in Nat /\ Viewed[h].at = handles[h].at
  BY OpenIs, OpenFilesAssumption DEF Held
<1>2. ~Uncleared(handles[h])
  BY NoLiberty DEF Read, Held
<1> DEFINE at == handles[h].at
<1> HIDE DEF at
<1>3. PICK call : ReadTo(h, call, at, k)
  BY DEF Read, at
<1>4. /\ BytesState' /\ Bytes!Allowed(h, "read")
      /\ "read" \in Viewed[h].flags =>
           /\ Bytes!ReadBytes(h, at, k)
           /\ \E to : /\ Bytes!Moves(h, to) /\ Viewed'[h].at = to
                      /\ at = Viewed[h].at => to = at + Len(last'.out)
  BY <1>1, <1>2, <1>3, ReadToIs DEF at
<1> QED
  BY <1>1, <1>4 DEF Bytes!Read, at

LEMMA ReadAtOutcome ==
  ASSUME NEW h \in Handles, Held(h), NEW k \in Lengths, NEW off \in Nat, ReadAt(h, k, off)
  PROVE  BytesState' /\ Bytes!ReadAt(h, k, off)
<1>1. k \in Nat \ {0}
  BY OpenFilesAssumption
<1>2. ~Uncleared(handles[h])
  BY NoLiberty DEF ReadAt, Held
<1>3. PICK call : ReadTo(h, call, off, k)
  BY DEF ReadAt
<1>4. /\ BytesState' /\ Bytes!Allowed(h, "read")
      /\ "read" \in Viewed[h].flags =>
           /\ Bytes!ReadBytes(h, off, k)
           /\ \E to : Bytes!Moves(h, to) /\ Viewed'[h].at = to
  BY <1>1, <1>2, <1>3, ReadToIs
<1> QED
  BY <1>4 DEF Bytes!ReadAt, Bytes!AnyPosition

-----------------------------------------------------------------------------
(* Seeking and writing.                                                    *)

LEMMA SeekOutcome ==
  ASSUME NEW h \in Handles, Held(h), NEW off \in Offsets,
         NEW whence \in {"start", "current", "end"}, Seek(h, off, whence)
  PROVE  BytesState' /\ Bytes!Seek(h, off, whence)
<1> DEFINE f == handles[h]
           dst == Destination(f, off, whence)
           s == Sought(f, dst)
           from == [start |-> 0, current |-> Viewed[h].at, end |-> Len(Viewed[h].data)]
<1>0. BytesState /\ handles[h] # NoFile /\ off \in Int
  BY OpenFilesAssumption DEF Held
<1>1. /\ f \in Handle /\ Sound(db, f) /\ Viewed[h].at = f.at /\ Viewed[h].data \in Seq(Byte)
      /\ Len(Viewed[h].data) \in Nat /\ Viewed[h] = ViewIn(db, f) /\ f.at \in Nat
      /\ f.io # "closed" /\ f.size \in Nat
  BY <1>0, OpenIs DEF Sound, Handle
<1>2. PlainSeek(f, dst, off, whence)
  BY NoLiberty DEF Seek, Held
<1>3. f.io = "buffer" => Viewed[h].data = f.data
  <2> HIDE DEF f
  <2>1. f.io = "buffer" => ViewIn(db, f).data = f.data
    BY ViewParts
  <2> QED
    BY <1>1, <2>1
<1>4. f.io # "buffer" => Len(Viewed[h].data) = f.size
  <2> SUFFICES ASSUME f.io # "buffer" PROVE Len(Viewed[h].data) = f.size
    OBVIOUS
  <2>1. "truncate" \notin f.flags
    BY <1>1, <1>2 DEF PlainSeek, Uncleared, Handle
  <2>2. ViewIn(db, f).data = SizeOf(db, f.path)
    <3>1. f.io # "none" => ViewIn(db, f).data = f.data /\ f.data = SizeOf(db, f.path)
      <4> HIDE DEF f
      <4> QED
        BY <1>1, ViewParts DEF Sound, Handle
    <3> QED
      BY <2>1, <3>1, ViewParts
  <2> QED
    BY <1>1, <2>2 DEF Sound
<1>5. dst \in Int /\ from[whence] + off = dst
  <2>1. whence = "end" /\ f.io # "buffer" => off = 0
    BY <1>2 DEF PlainSeek
  <2> HIDE DEF f
  <2>2. CASE whence = "start"
    BY <1>0, <2>2 DEF Destination
  <2>3. CASE whence = "current"
    BY <1>0, <1>1, <2>3 DEF Destination
  <2>4. CASE whence = "end"
    BY <1>0, <1>1, <1>3, <1>4, <2>1, <2>4 DEF Destination
  <2> QED
    BY <2>2, <2>3, <2>4
<1>6. /\ dst < 0 /\ last'.res = "invalid" /\ UNCHANGED <<Contained, Viewed>>
           => Bytes!Seek(h, off, whence)
      /\ ~(dst < 0) /\ last'.res = "ok" /\ last'.out = dst /\ Bytes!Moves(h, dst)
           => Bytes!Seek(h, off, whence)
  BY <1>5 DEF Bytes!Seek
<1>7. ASSUME f.io = "buffer", dst < 0, NEW call, Fail(call, "invalid")
      PROVE  BytesState' /\ Bytes!Seek(h, off, whence)
  BY <1>6, <1>7, FailingIs
<1>8. ASSUME IF f.io = "buffer" THEN dst \in 0 .. MaxSize ELSE f.io # "closed",
             Becomes(h, s), NEW call, Give(call, "ok", SeekAnswer(f, s, dst, off, whence))
      PROVE  BytesState' /\ Bytes!Seek(h, off, whence)
  <2>1. dst \in Nat
    <3>1. f.io # "buffer" => dst >= 0
      BY <1>2 DEF PlainSeek
    <3>2. f.io = "buffer" => dst >= 0
      BY <1>8, OpenFilesAssumption
    <3> HIDE DEF dst
    <3> QED
      BY <1>5, <3>1, <3>2
  <2>2. ~Uncleared(f)
    BY <1>2 DEF PlainSeek, Uncleared
  <2> HIDE DEF dst, f
  <2>3. /\ s \in Handle /\ s.path = f.path /\ s.flags = f.flags /\ s.size = f.size
        /\ s.data = Viewed[h].data /\ Viewed[h].written = (s.io = "buffer")
        /\ s.io \in {"pipe", "buffer"} /\ (s.io = "buffer" <=> f.io = "buffer")
        /\ s.at = IF f.io = "buffer" THEN dst ELSE Least(dst, Len(s.data))
        /\ s.io = "pipe" => /\ s.data = SizeOf(db, f.path) /\ f.size = Len(s.data)
                            /\ f.at <= Len(s.data) /\ "truncate" \notin f.flags
    BY <1>0, <2>1, <2>2, SoughtIs DEF f
  <2> HIDE DEF s
  <2>4. s.at = dst
    BY <1>2, <2>1, <2>3 DEF PlainSeek, Least
  <2>5. SeekAnswer(f, s, dst, off, whence) = dst
    <3>1. CASE f.io = "buffer"
      BY <3>1 DEF SeekAnswer
    <3>2. CASE f.io # "buffer"
      <4>1. ~(dst > Len(s.data)) /\ (f.at = 0 \/ dst < f.at) /\ f.io \in {"none", "pipe"}
        BY <1>1, <1>2, <2>1, <2>3, <3>2 DEF PlainSeek, Handle
      <4>2. Restores(f, dst) \/ f.at = 0
        BY <4>1 DEF Restores
      <4> QED
        BY <1>1, <2>1, <2>4, <3>2, <4>1, <4>2 DEF SeekAnswer
    <3> QED
      BY <3>1, <3>2
  <2>6. db' = db /\ last'.res = "ok" /\ last'.out = dst
    BY <1>8, <2>5 DEF Give
  <2>7. Sound(db, s)
    BY <1>1, <2>1, <2>3, <2>4 DEF Sound, Least
  <2>8. ViewIn(db, s).data = Viewed[h].data /\ ViewIn(db, s).written = Viewed[h].written
    BY <1>1, <2>3, SoughtView
  <2>9. BytesState' /\ Bytes!Moves(h, dst)
    <3>1. s.path = handles[h].path /\ s.flags = handles[h].flags
      BY <2>3 DEF f
    <3> QED
      BY <1>0, <1>8, <2>3, <2>4, <2>6, <2>7, <2>8, <3>1, HandleMoves
  <2> QED
    BY <1>6, <2>1, <2>6, <2>9 DEF dst
<1> QED
  BY <1>7, <1>8, NoPanic DEF Seek

LEMMA WriteToIs ==
  ASSUME NEW h \in Handles, Held(h), NEW call, NEW at \in Nat, NEW bytes \in Chunks,
         WriteTo(h, call, Entered(handles[h]), at, bytes)
  PROVE  /\ BytesState' /\ "write" \in Viewed[h].flags
         /\ last'.res = "ok" /\ last'.out = Len(bytes)
         /\ Bytes!Sees(h, Bytes!Changed(Viewed[h].data, at, bytes), at + Len(bytes))
         /\ Viewed'[h].at = at + Len(bytes)
<1> DEFINE e == Entered(handles[h])
           data == Overwritten(e.data, at, bytes)
           to == at + Len(bytes)
           g == [e EXCEPT !.data = data, !.at = to]
<1>0. /\ BytesState /\ handles[h] # NoFile /\ bytes \in Seq(Byte) /\ to \in Nat
      /\ Sound(db, handles[h]) /\ Viewed[h].flags = handles[h].flags
  <2>1. BytesState /\ handles[h] # NoFile /\ bytes \in Seq(Byte)
    BY OpenFilesAssumption DEF Held
  <2> QED
    BY <2>1, OpenIs
<1>1. /\ e \in Handle /\ e.path = handles[h].path /\ e.flags = handles[h].flags
      /\ e.io = "buffer" /\ e.data = Viewed[h].data /\ e.data \in Seq(Byte) /\ e.at \in Nat
  BY <1>0, EnteredIs
<1> HIDE DEF e
<1>2. data \in Seq(Byte) /\ data = Bytes!Changed(Viewed[h].data, at, bytes)
  BY <1>0, <1>1, OverwrittenIs
<1>3. /\ Writable(h) /\ Len(data) <= MaxSize /\ Becomes(h, g) /\ db' = db
      /\ last'.res = "ok" /\ last'.out = Len(bytes)
  BY DEF WriteTo, Give, e
<1> HIDE DEF data, to
<1>4. /\ g \in Handle /\ g.path = e.path /\ g.flags = e.flags /\ g.io = "buffer"
      /\ g.data = data /\ g.at = to
  <2>1. data \in Sizes
    BY <1>2, <1>3, SizesAre
  <2> QED
    BY <1>0, <1>1, <2>1 DEF Handle
<1> HIDE DEF g
<1>5. Sound(db, g)
  BY <1>0, <1>1, <1>4 DEF Sound
<1>6. ViewIn(db, g).data = data /\ ViewIn(db, g).at = to
  <2>1. ViewIn(db, g).data = g.data
    BY <1>4, ViewParts
  <2> QED
    BY <1>4, <2>1 DEF ViewIn
<1>7. ViewIn(db, g).written = TRUE
  BY <1>4, ViewParts, Zenon
<1>8. g.path = handles[h].path /\ g.flags = handles[h].flags
  BY <1>1, <1>4
<1>9. BytesState' /\ Bytes!Sees(h, data, to) /\ Viewed'[h].at = to
  <2>1. BytesState' /\ Viewed'[h] = ViewIn(db, g)
    BY <1>0, <1>3, <1>4, <1>5, <1>8, HandleMoves
  <2>2. Bytes!Sees(h, ViewIn(db, g).data, g.at)
    BY <1>0, <1>3, <1>4, <1>5, <1>7, <1>8, HandleMoves
  <2> QED
    BY <1>4, <1>6, <2>1, <2>2
<1> QED
  BY <1>0, <1>2, <1>3, <1>9 DEF Writable, to

LEMMA WriteOutcome ==
  ASSUME NEW h \in Handles, Held(h), NEW bytes \in Chunks, Write(h, bytes)
  PROVE  BytesState' /\ Bytes!Write(h, bytes)
<1> DEFINE e == Entered(handles[h])
<1>1. /\ e.flags = handles[h].flags /\ e.data = Viewed[h].data /\ e.at \in Nat
      /\ Viewed[h].flags = handles[h].flags /\ Viewed[h].at = handles[h].at
  BY EnteredIs, OpenIs DEF Held
<1>2. e.at = IF "append" \in e.flags THEN Len(e.data) ELSE handles[h].at
  BY NoLiberty DEF Write, Held
<1>3. PICK call : Refused(h, call) \/ WriteTo(h, call, e, e.at, bytes)
  BY DEF Write
<1> DEFINE at == e.at
<1> HIDE DEF at
<1>4. CASE Refused(h, call)
  <2>1. /\ BytesState' /\ UNCHANGED <<Contained, Viewed>> /\ last'.res = "permission"
        /\ "write" \notin Viewed[h].flags
    BY <1>4, Refusal
  <2> QED
    BY <2>1 DEF Bytes!Write, Bytes!Allowed
<1>5. CASE WriteTo(h, call, e, at, bytes)
  <2>1. /\ BytesState' /\ "write" \in Viewed[h].flags
        /\ last'.res = "ok" /\ last'.out = Len(bytes)
        /\ Bytes!Sees(h, Bytes!Changed(Viewed[h].data, at, bytes), at + Len(bytes))
    BY <1>1, <1>5, WriteToIs DEF at
  <2>2. at = IF "append" \in Viewed[h].flags THEN Len(Viewed[h].data) ELSE Viewed[h].at
    BY <1>1, <1>2 DEF at
  <2> QED
    BY <2>1, <2>2 DEF Bytes!Write, Bytes!Allowed
<1> QED
  BY <1>3, <1>4, <1>5 DEF at

LEMMA WriteAtOutcome ==
  ASSUME NEW h \in Handles, Held(h), NEW bytes \in Chunks, NEW off \in Nat, WriteAt(h, bytes, off)
  PROVE  BytesState' /\ Bytes!WriteAt(h, bytes, off)
<1>1. PICK call : Refused(h, call) \/ WriteTo(h, call, Entered(handles[h]), off, bytes)
  BY DEF WriteAt
<1>2. CASE Refused(h, call)
  <2>1. /\ BytesState' /\ UNCHANGED <<Contained, Viewed>> /\ last'.res = "permission"
        /\ "write" \notin Viewed[h].flags
    BY <1>2, Refusal
  <2> QED
    BY <2>1 DEF Bytes!WriteAt, Bytes!Allowed
<1>3. CASE WriteTo(h, call, Entered(handles[h]), off, bytes)
  <2>1. /\ BytesState' /\ "write" \in Viewed[h].flags
        /\ last'.res = "ok" /\ last'.out = Len(bytes)
        /\ Bytes!Sees(h, Bytes!Changed(Viewed[h].data, off, bytes), off + Len(bytes))
        /\ Viewed'[h].at = off + Len(bytes)
    BY <1>3, WriteToIs
  <2> QED
    BY <2>1 DEF Bytes!WriteAt, Bytes!Allowed, Bytes!AnyPosition
<1> QED
  BY <1>1, <1>2, <1>3

LEMMA TruncateOutcome ==
  ASSUME NEW h \in Handles, Held(h), NEW size \in Nat, Truncate(h, size)
  PROVE  BytesState' /\ Bytes!Truncate(h, size)
<1> DEFINE e == Entered(handles[h])
           data == SubSeq(e.data, 1, size)
           g == [e EXCEPT !.data = data]
<1>0. /\ BytesState /\ handles[h] # NoFile /\ Sound(db, handles[h])
      /\ Viewed[h].flags = handles[h].flags /\ Viewed[h].at = handles[h].at
  BY OpenIs DEF Held
<1>1. /\ e \in Handle /\ e.path = handles[h].path /\ e.flags = handles[h].flags
      /\ e.io = "buffer" /\ e.data = Viewed[h].data /\ e.data \in Seq(Byte) /\ e.at \in Nat
  BY <1>0, EnteredIs
<1>2. size <= Len(e.data) /\ e.at = handles[h].at
  <2>1. ~(size > Len(e.data) \/ e.at # handles[h].at)
    BY NoLiberty DEF Truncate, Held
  <2> QED
    BY <1>1, <2>1
<1>3. ASSUME NEW call, Refused(h, call) PROVE BytesState' /\ Bytes!Truncate(h, size)
  <2>1. /\ BytesState' /\ UNCHANGED <<Contained, Viewed>> /\ last'.res = "permission"
        /\ "write" \notin Viewed[h].flags
    BY <1>3, Refusal
  <2> QED
    BY <2>1 DEF Bytes!Truncate, Bytes!Allowed
<1>4. ASSUME NEW call, Writable(h), Len(Truncated(e, size).data) <= MaxSize,
             Becomes(h, Truncated(e, size)), Give(call, "ok", Empty)
      PROVE  BytesState' /\ Bytes!Truncate(h, size)
  <2> HIDE DEF e
  <2>1. Truncated(e, size) = g
    BY <1>1, <1>2 DEF Truncated
  <2>2. /\ data \in Seq(Byte) /\ Len(data) = size
        /\ data = [i \in 1 .. size |->
                     IF i <= Len(Viewed[h].data) THEN Viewed[h].data[i] ELSE 0]
    BY <1>1, <1>2, CutIs
  <2> HIDE DEF data
  <2>3. Becomes(h, g) /\ db' = db /\ last'.res = "ok" /\ "write" \in handles[h].flags
    BY <1>4, <2>1 DEF Give, Writable
  <2>4. /\ g \in Handle /\ g.path = e.path /\ g.flags = e.flags /\ g.io = "buffer"
        /\ g.data = data /\ g.at = e.at
    <3>1. g.data = data
      BY <1>1 DEF Handle
    <3>2. data \in Sizes
      BY <1>4, <2>1, <2>2, <3>1, SizesAre
    <3> QED
      BY <1>1, <3>2 DEF Handle
  <2> HIDE DEF g
  <2>5. Sound(db, g)
    BY <1>0, <1>1, <2>4 DEF Sound
  <2>6. ViewIn(db, g).data = g.data
    BY <2>4, ViewParts
  <2>7. ViewIn(db, g).written = TRUE
    BY <2>4, ViewParts, Zenon
  <2>8. g.path = handles[h].path /\ g.flags = handles[h].flags
    BY <1>1, <2>4
  <2>9. BytesState' /\ Bytes!Sees(h, ViewIn(db, g).data, g.at)
    BY <1>0, <2>3, <2>4, <2>5, <2>7, <2>8, HandleMoves
  <2>10. Bytes!Sees(h, data, Viewed[h].at)
    BY <1>0, <1>2, <2>4, <2>6, <2>9
  <2> QED
    BY <1>0, <2>2, <2>3, <2>9, <2>10 DEF Bytes!Truncate, Bytes!Allowed
<1> QED
  BY <1>3, <1>4 DEF Truncate

-----------------------------------------------------------------------------
(* Stat, Sync and Close.                                                   *)

LEMMA StatOutcome ==
  ASSUME NEW h \in Handles, Held(h), Stat(h)
  PROVE  BytesState' /\ Bytes!Stat(h)
<1> DEFINE f == handles[h]
           size == IF f.io = "buffer" THEN Len(f.data) ELSE f.size
           g == [f EXCEPT !.size = size]
<1>0. /\ BytesState /\ handles[h] # NoFile /\ f \in Handle /\ Sound(db, f) /\ f.io # "closed"
      /\ Len(f.data) \in Nat /\ Viewed[h] = ViewIn(db, f)
  BY OpenIs DEF Held, Sound
<1>1. ~Uncleared(f)
  BY NoLiberty DEF Stat, Held
<1>2. Becomes(h, g) /\ db' = db /\ last'.res = "ok" /\ last'.out = size
  BY <1>0 DEF Stat, Give
<1> HIDE DEF f
<1>3. size = Len(Viewed[h].data)
  <2>1. f.io = "buffer" => ViewIn(db, f).data = f.data
    BY ViewParts
  <2>2. f.io = "pipe" => ViewIn(db, f).data = f.data /\ f.data = SizeOf(db, f.path)
    BY <1>0, ViewParts DEF Sound
  <2>3. f.io = "none" => ViewIn(db, f).data = SizeOf(db, f.path)
    BY <1>1, ViewParts DEF Uncleared
  <2>4. f.io # "buffer" => f.size = Len(SizeOf(db, f.path)) /\ f.io \in {"none", "pipe"}
    BY <1>0 DEF Sound, Handle
  <2> QED
    BY <1>0, <2>1, <2>2, <2>3, <2>4
<1> HIDE DEF size
<1>4. size \in Nat /\ (f.io # "buffer" => size = f.size)
  BY <1>0 DEF size, Handle
<1>5. /\ g \in Handle /\ g.path = f.path /\ g.flags = f.flags /\ g.io = f.io /\ g.data = f.data
      /\ g.at = f.at /\ g.size = size
  BY <1>0, <1>4 DEF Handle
<1> HIDE DEF g
<1>6. Sound(db, g) /\ ViewIn(db, g) = ViewIn(db, f)
  BY <1>0, <1>4, <1>5 DEF Sound, ViewIn
<1>7. BytesState' /\ UNCHANGED <<Contained, Viewed>>
  <2>1. g.path = handles[h].path /\ g.flags = handles[h].flags
    BY <1>5 DEF f
  <2>2. BytesState' /\ UNCHANGED Contained /\ (ViewIn(db, g) = Viewed[h] => UNCHANGED Viewed)
    BY <1>0, <1>2, <1>5, <1>6, <2>1, HandleMoves
  <2> QED
    BY <1>0, <1>6, <2>2
<1> QED
  BY <1>2, <1>3, <1>7 DEF Bytes!Stat

(* A handle is closed.                                                     *)
LEMMA Closing ==
  ASSUME NEW h \in Handles, Held(h), FilesInv', Becomes(h, NoFile),
         \A k \in Handles \ {h} : handles[k] # NoFile =>
           /\ SizeOf(db', handles[k].path) = SizeOf(db, handles[k].path)
           /\ GetHeader(db', handles[k].path) # NoRow
  PROVE  BytesState' /\ Viewed' = [Viewed EXCEPT ![h] = NoFile]
<1>1. BytesState /\ handles' = [handles EXCEPT ![h] = NoFile]
  BY DEF Held, Becomes
<1> DEFINE g == NoFile
<1>2. g \in Handle \cup {NoFile} /\ (g # NoFile => Sound(db', g)) /\ handles' = [handles EXCEPT ![h] = g]
  BY <1>1
<1>3. BytesState' /\ Viewed' = [Viewed EXCEPT ![h] = IF g = NoFile THEN NoFile ELSE ViewIn(db', g)]
  <2> HIDE DEF g
  <2> QED
    BY <1>1, <1>2, ViewsPut
<1> QED
  BY <1>3

(* Nothing has been written.                                               *)
LEMMA Unwritten ==
  ASSUME NEW h \in Handles, Held(h), handles[h].io \in {"none", "pipe"}, ~Uncleared(handles[h])
  PROVE  ~Viewed[h].written
<1>1. "truncate" \notin handles[h].flags /\ handles[h].io # "buffer"
  BY DEF Uncleared
<1>2. ViewIn(db, handles[h]).written = FALSE
  BY <1>1, ViewParts, Zenon
<1>3. Viewed[h] = ViewIn(db, handles[h])
  BY OpenIs DEF Held
<1> QED
  BY <1>2, <1>3

LEMMA SyncOutcome ==
  ASSUME NEW h \in Handles, Held(h), Sync(h)
  PROVE  BytesState' /\ Bytes!Sync(h)
<1>1. ~Count(TRUE)
  BY NoLiberty DEF Held
<1>2. /\ handles[h].io \in {"none", "pipe"} /\ Count(Uncleared(handles[h]))
      /\ \E call : Fail(call, "ok")
  BY <1>1 DEF Sync
<1>3. ~Viewed[h].written
  BY <1>2, NoLiberty, Unwritten DEF Held
<1>4. BytesState' /\ UNCHANGED <<Contained, Viewed>> /\ last'.res = "ok"
  BY <1>2, FailingIs
<1> QED
  BY <1>3, <1>4 DEF Bytes!Sync, Bytes!Stored

LEMMA CloseOutcome ==
  ASSUME NEW h \in Handles, Held(h), Close(h)
  PROVE  BytesState' /\ Bytes!Close(h)
<1>0. BytesState /\ handles[h] # NoFile /\ handles[h] \in Handle /\ Sound(db, handles[h])
  BY OpenIs DEF Held
<1>1. CASE /\ handles[h].io \in {"none", "pipe"} /\ Count(Uncleared(handles[h]))
           /\ Give(Doing("Close", h, <<>>), "ok", Empty) /\ Becomes(h, NoFile)
  <2>1. ~Viewed[h].written
    BY <1>1, NoLiberty, Unwritten DEF Held
  <2>2. db' = db /\ last'.res = "ok"
    BY <1>1 DEF Give
  <2>3. BytesState' /\ Viewed' = [Viewed EXCEPT ![h] = NoFile]
    <3>1. FilesInv'
      BY <1>0, <2>2 DEF BytesState, FilesInv, RowsInv, Filed, Table, KeysUnique, Placed
    <3>2. \A k \in Handles : handles[k] # NoFile => GetHeader(db, handles[k].path) # NoRow
      BY <1>0 DEF BytesState, Sound
    <3> QED
      BY <1>1, <2>2, <3>1, <3>2, Closing
  <2>4. UNCHANGED Contained
    BY <2>2, ViewedIs
  <2> QED
    BY <2>1, <2>2, <2>3, <2>4 DEF Bytes!Close, Bytes!Stored
<1>2. CASE /\ handles[h].io = "buffer" /\ Count(Shared(h))
           /\ SyncWithoutLocking(h, Doing("Close", h, <<>>)) /\ Becomes(h, NoFile)
  <2> DEFINE n == handles[h].path
  <2>1. \A k \in Handles \ {h} : handles[k] # NoFile => handles[k].path # n
    BY <1>2, NoLiberty DEF Held, Shared, Others
  <2>2. /\ FilesInv' /\ Apart(db, db', {n}) /\ last'.res = "ok"
        /\ GetHeader(db', n) # NoRow /\ SizeOf(db', n) = handles[h].data
    <3>1. FilesInv /\ GetHeader(db, n) # NoRow
      BY <1>0 DEF BytesState, Sound
    <3>2. /\ FilesInv' /\ Apart(db, db', {n})
          /\ last' = [call |-> Doing("Close", h, <<>>), res |-> "ok"]
          /\ GetHeader(db', n) # NoRow /\ SizeOf(db', n) = handles[h].data
      BY <1>0, <1>2, <3>1, SyncFiles
    <3> QED
      BY <3>2
  <2>3. BytesState' /\ Viewed' = [Viewed EXCEPT ![h] = NoFile]
    <3>1. ASSUME NEW k \in Handles \ {h}, handles[k] # NoFile
          PROVE  /\ SizeOf(db', handles[k].path) = SizeOf(db, handles[k].path)
                 /\ GetHeader(db', handles[k].path) # NoRow
      <4>1. handles[k].path \notin {n} /\ GetHeader(db, handles[k].path) # NoRow
        BY <1>0, <2>1, <3>1 DEF BytesState, Sound
      <4> DEFINE m == handles[k].path
      <4> HIDE DEF m
      <4>2. GetHeader(db', m) = GetHeader(db, m) /\ SizeOf(db', m) = SizeOf(db, m)
        BY <2>2, <4>1, ApartFinds DEF m
      <4> QED
        BY <4>1, <4>2 DEF m
    <3> QED
      BY <1>2, <2>2, <3>1, Closing
  <2>4. Contained' = [Contained EXCEPT ![n] = handles[h].data]
    <3>1. n \in FileNames /\ OnlyFiles(db) /\ OnlyFiles(db') /\ n \in DOMAIN FilesIn(db)
      BY <1>0, <2>2, OpenIs, FilesInvIs, FiledFinds DEF Sound
    <3> DEFINE old == FilesIn(db)
               new == FilesIn(db')
    <3>2. new = WithFile(old, n, SizeOf(db', n))
      BY <2>2, <3>1, FilePut
    <3>3. old = [m \in DOMAIN old |-> old[m]]
      BY DEF FilesIn
    <3> HIDE DEF old, new, n
    <3>4. new = [old EXCEPT ![n] = handles[h].data]
      BY <2>2, <3>1, <3>2, <3>3 DEF old, n, WithFile
    <3> QED
      BY <3>4, ViewedIs DEF old, new, n
  <2>5. Viewed[h].name = n /\ Viewed[h].data = handles[h].data /\ Viewed[h].written = TRUE
    <3>1. Viewed[h] = ViewIn(db, handles[h]) /\ Viewed[h].name = n
      BY <1>0, OpenIs
    <3>2. ViewIn(db, handles[h]).data = handles[h].data
      BY <1>2, ViewParts
    <3>3. ViewIn(db, handles[h]).written = TRUE
      BY <1>2, ViewParts, Zenon
    <3> QED
      BY <3>1, <3>2, <3>3, Zenon
  <2> QED
    BY <2>2, <2>3, <2>4, <2>5 DEF Bytes!Close, Bytes!Stored
<1> QED
  BY <1>1, <1>2, NoLiberty DEF Close, Held

-----------------------------------------------------------------------------
(* Opening.                                                                *)

(* A call by name, when nobody has taken a liberty.                        *)
NoLiberties == /\ BytesState /\ Suffixless /\ loose = 0 /\ loose' = 0 /\ free = 0 /\ free' = 0

LEMMA HandleOpens ==
  ASSUME NEW h \in Handles, NoLiberties, NEW n \in FileNames, NEW flags \in OpenFlags,
         OpenHandle(h, n, flags), last'.res = "ok", FilesInv', GetHeader(db', n) # NoRow,
         Apart(db, db', {n}) \/ db' = db,
         SizeOf(db', n) = SizeOf(db, n) \/ ~IsOpen(n)
  PROVE  /\ BytesState' /\ Viewed[h] = NoFile /\ Viewed'[h] # NoFile
         /\ Viewed' = [Viewed EXCEPT ![h] = Bytes!View(n, Viewed'[h].flags, Contained'[n])]
<1> DEFINE row == GetHeader(db', n)
           size == SizeOf(db', n)
           g == [path |-> n, mode |-> row.mode, size |-> Len(size), flags |-> flags,
                 io |-> "none", data |-> <<>>, at |-> 0]
<1>0. BytesState /\ handles[h] = NoFile /\ Empty = <<>> /\ OnlyFiles(db')
  BY FilesInvIs, OpenFilesAssumption DEF NoLiberties, OpenHandle
<1>1. row.size = size /\ row \in Row /\ size \in Sizes /\ Len(size) \in Nat /\ row.link = NoName
  BY <1>0, FiledFinds, SizeIsSize DEF SizeOf
<1>2. Target(n)' = row
  BY <1>0, <1>1 DEF Target, StatName
<1>3. handles' = [handles EXCEPT ![h] = g]
  BY <1>0, <1>1, <1>2 DEF OpenHandle, NewHandle
<1>4. g \in Handle
  <2>1. row.mode \in Modes
    BY <1>1 DEF Row
  <2>2. flags \in SUBSET HandleFlags /\ <<>> \in Sizes
    BY <1>0, OpenFilesAssumption DEF Sizes
  <2> HIDE DEF row, size
  <2> QED
    BY <1>1, <2>1, <2>2 DEF Handle
<1>5. Sound(db', g)
  BY DEF Sound
<1>6. g # NoFile /\ ViewIn(db', g) # NoFile
  BY <1>0, <1>4, ViewIsView, OpenFilesAssumption
<1>7. ASSUME NEW k \in Handles \ {h}, handles[k] # NoFile
      PROVE  /\ SizeOf(db', handles[k].path) = SizeOf(db, handles[k].path)
             /\ GetHeader(db', handles[k].path) # NoRow
  <2> DEFINE m == handles[k].path
  <2>1. GetHeader(db, m) # NoRow
    BY <1>0, <1>7 DEF BytesState, Sound
  <2>2. CASE m = n
    BY <1>7, <2>2 DEF IsOpen
  <2>3. CASE m # n /\ db' # db
    <3> HIDE DEF m
    <3>1. GetHeader(db', m) = GetHeader(db, m) /\ SizeOf(db', m) = SizeOf(db, m)
      BY <2>3, ApartFinds
    <3> QED
      BY <2>1, <3>1 DEF m
  <2> QED
    BY <2>1, <2>2, <2>3
<1> DEFINE w == ViewIn(db', g)
<1>8. w = Bytes!View(n, flags, size) /\ w.flags = flags
  <2>1. (("truncate" \in flags) \/ "none" = "buffer") = ("truncate" \in flags)
    OBVIOUS
  <2> QED
    BY <2>1 DEF ViewIn, Bytes!View
<1> HIDE DEF g, w
<1>9. BytesState' /\ Viewed' = [Viewed EXCEPT ![h] = w]
  <2>1. BytesState' /\ Viewed' = [Viewed EXCEPT ![h] = IF g = NoFile THEN NoFile ELSE ViewIn(db', g)]
    BY <1>0, <1>3, <1>4, <1>5, <1>6, <1>7, ViewsPut
  <2> QED
    BY <1>6, <2>1 DEF w
<1>10. Viewed[h] = NoFile /\ Viewed'[h] = w
  <2>1. Viewed = ViewsIn(db, handles)
    BY ViewedIs
  <2>2. h \in DOMAIN Viewed
    BY <2>1 DEF ViewsIn
  <2>3. Viewed[h] = NoFile
    BY <1>0, <2>1 DEF ViewsIn
  <2> QED
    BY <1>9, <2>2, <2>3
<1>11. Contained'[n] = size
  <2>1. n \in DOMAIN FilesIn(db')
    BY <1>0, FiledFinds
  <2>2. FilesIn(db')[n] = size
    BY <2>1 DEF FilesIn
  <2> QED
    BY <2>2, ViewedIs
<1> QED
  BY <1>6, <1>8, <1>9, <1>10, <1>11 DEF w

LEMMA OpenHandleOutcome ==
  ASSUME NEW h \in Handles, NoLiberties, NEW n \in FileNames, NEW flags \in OpenFlags,
         OpenHandle(h, n, flags)
  PROVE  BytesState' /\ Bytes!Open(n)
<1> DEFINE fl == flags \cap Flags
           call == CallWith("OpenFile", n, n, fl)
<1>0. /\ BytesState /\ FilesInv /\ OnlyFiles(db) /\ Suffixless /\ Open(call, n, fl)
      /\ (last'.res # "ok" => handles' = handles)
  BY FilesInvIs DEF NoLiberties, BytesState, OpenHandle, OpenFile
<1> HIDE DEF fl, call
<1>1. /\ Opened(n, fl) = GetHeader(db, n) /\ StatLink(n) = NoRow
      /\ GetHeader(db, n) # NoRow => GetHeader(db, n).type = "reg"
      /\ n \in DOMAIN FilesIn(db) <=> GetHeader(db, n) # NoRow
  BY <1>0, FiledLooks, FiledFinds
<1>2. ASSUME NEW res, Answer(call, res), res # "ok" PROVE BytesState' /\ Bytes!Open(n)
  <2>1. last'.res = res /\ db' = db
    BY <1>2 DEF Answer
  <2>2. BytesState' /\ UNCHANGED <<Contained, Viewed>>
    BY <1>0, <1>2, <2>1, NothingMoves
  <2> QED
    BY <1>2, <2>1, <2>2 DEF Bytes!Open
<1>3. ASSUME GetHeader(db, n) # NoRow, Answer(call, "ok")
      PROVE  BytesState' /\ Bytes!Open(n)
  <2>1. last'.res = "ok" /\ db' = db
    BY <1>3 DEF Answer
  <2>2. FilesInv'
    BY <1>0, <2>1 DEF FilesInv, RowsInv, Filed, Table, KeysUnique, Placed
  <2>3. /\ BytesState' /\ Viewed[h] = NoFile /\ Viewed'[h] # NoFile
        /\ Viewed' = [Viewed EXCEPT ![h] = Bytes!View(n, Viewed'[h].flags, Contained'[n])]
    BY <1>3, <2>1, <2>2, HandleOpens
  <2>4. Contained' = Contained /\ n \in DOMAIN Contained
    BY <1>1, <1>3, <2>1, ViewedIs
  <2> QED
    BY <2>1, <2>3, <2>4 DEF Bytes!Open
<1>4. ASSUME GetHeader(db, n) = NoRow, MakeFile(call, n)
      PROVE  BytesState' /\ Bytes!Open(n)
  <2>1. /\ FilesInv' /\ Apart(db, db', {n}) /\ last'.res = "ok"
        /\ GetHeader(db', n) # NoRow /\ SizeOf(db', n) = <<>>
    <3>1. last' = [call |-> call, res |-> "ok"] /\ FilesInv' /\ Apart(db, db', {n})
          /\ GetHeader(db', n) # NoRow /\ SizeOf(db', n) = <<>>
      BY <1>0, <1>4, FileIsMade, MknodeFiles DEF FilesInv
    <3> QED
      BY <3>1
  <2>2. ~IsOpen(n)
    BY <1>0, <1>4 DEF IsOpen, BytesState, Sound
  <2>3. /\ BytesState' /\ Viewed[h] = NoFile /\ Viewed'[h] # NoFile
        /\ Viewed' = [Viewed EXCEPT ![h] = Bytes!View(n, Viewed'[h].flags, Contained'[n])]
    BY <2>1, <2>2, HandleOpens
  <2>4. n \notin DOMAIN Contained
        /\ Contained' = [m \in DOMAIN Contained \cup {n} |-> IF m = n THEN <<>> ELSE Contained[m]]
    <3>1. OnlyFiles(db) /\ OnlyFiles(db') /\ Apart(db, db', {n}) /\ GetHeader(db', n) # NoRow
      BY <1>0, <2>1, FilesInvIs
    <3>2. FilesIn(db') = WithFile(FilesIn(db), n, SizeOf(db', n))
      BY <3>1, FilePut
    <3> DEFINE old == FilesIn(db)
               new == FilesIn(db')
    <3> HIDE DEF old, new
    <3>3. n \notin DOMAIN old /\ Contained = old /\ Contained' = new
      BY <1>1, <1>4, ViewedIs DEF old, new
    <3>4. new = [m \in DOMAIN old \cup {n} |-> IF m = n THEN <<>> ELSE old[m]]
      BY <2>1, <3>2 DEF old, new, WithFile
    <3> QED
      BY <3>3, <3>4, Zenon
  <2> QED
    BY <2>1, <2>3, <2>4 DEF Bytes!Open
<1> QED
  BY <1>0, <1>1, <1>2, <1>3, <1>4 DEF Open, CreateFile

-----------------------------------------------------------------------------
(* Calls by name: no open file is concerned.                               *)

LEMMA OthersMove ==
  ASSUME BytesState, NEW names, FilesInv', Apart(db, db', names), \A n \in names : ~IsOpen(n),
         handles' = handles
  PROVE  BytesState' /\ UNCHANGED Viewed
<1>1. ASSUME NEW k \in Handles, handles[k] # NoFile
      PROVE  /\ SizeOf(db', handles[k].path) = SizeOf(db, handles[k].path)
             /\ GetHeader(db', handles[k].path) = GetHeader(db, handles[k].path)
  <2> DEFINE m == handles[k].path
  <2>1. m \notin names
    BY <1>1 DEF IsOpen
  <2> HIDE DEF m
  <2>2. GetHeader(db', m) = GetHeader(db, m) /\ SizeOf(db', m) = SizeOf(db, m)
    BY <2>1, ApartFinds
  <2> QED
    BY <2>2 DEF m
<1>2. BytesState'
  BY <1>1 DEF BytesState, Sound
<1>3. \A k \in Handles : handles[k] # NoFile => ViewIn(db', handles[k]) = ViewIn(db, handles[k])
  BY <1>1 DEF ViewIn
<1>4. ViewsIn(db', handles') = ViewsIn(db, handles)
  BY <1>3 DEF ViewsIn
<1> QED
  BY <1>2, <1>4, ViewedIs

LEMMA RemoveFiles ==
  ASSUME NoLiberties, NEW call, NEW liberty, NEW n \in FileNames, RemoveWithoutLocking(call, liberty, n)
  PROVE  FilesInv' /\ Apart(db, db', {n})
<1>0. FilesInv /\ Suffixless /\ OnlyFiles(db)
  BY FilesInvIs DEF NoLiberties, BytesState
<1>1. CASE db' = db
  BY <1>0, <1>1 DEF FilesInv, RowsInv, Filed, Table, KeysUnique, Placed, Apart
<1>2. CASE db' # db
  <2>1. IsFound(n) /\ Delete(call, liberty, n)
    BY <1>2 DEF RemoveWithoutLocking, Answer
  <2>2. GetHeader(db, n) # NoRow
    BY <1>0, <2>1, FiledLooks
  <2> QED
    BY <1>0, <2>1, <2>2, DeleteFiles
<1> QED
  BY <1>1, <1>2

LEMMA RenameFiles ==
  ASSUME NoLiberties, NEW from \in FileNames, NEW to \in FileNames, Rename(from, to)
  PROVE  FilesInv' /\ Apart(db, db', {from, to})
<1> DEFINE call == CallTo("Rename", from, to)
<1>0. FilesInv /\ Suffixless /\ OnlyFiles(db) /\ free = 0 /\ free' = 0
  BY FilesInvIs DEF NoLiberties, BytesState
<1>1. CASE db' = db
  BY <1>0, <1>1 DEF FilesInv, RowsInv, Filed, Table, KeysUnique, Placed, Apart
<1>2. CASE db' # db
  <2> HIDE DEF call
  <2>1. ~RenameOnto(call, from, to)
    <3>1. ~Delete(call, TRUE, to)
      BY <1>0 DEF Delete, Perform, Operate
    <3> QED
      BY <1>2, <3>1 DEF RenameOnto, RemoveWithoutLocking, Answer
  <2>2. IsFound(from) /\ Move(call, from, to)
    BY <1>2, <2>1 DEF Rename, Answer, call
  <2>3. GetHeader(db, from) # NoRow
    BY <1>0, <2>2, FiledLooks
  <2> QED
    BY <1>0, <2>2, <2>3, MoveFiles
<1> QED
  BY <1>1, <1>2

LEMMA ByNameOutcome ==
  ASSUME NoLiberties, ByName \/ Lstat
  PROVE  BytesState' /\ UNCHANGED Viewed
         /\ \E op \in {"Remove", "Chmod", "Rename", "Lstat"} : \E n, to, flags :
              last'.call = CallWith(op, n, to, flags)
<1>0. BytesState /\ FilesInv /\ Suffixless
  BY DEF NoLiberties, BytesState
<1>1. ASSUME NEW n \in FileNames, RemoveEntry(n), Count(IsOpen(n)), handles' = handles
      PROVE  /\ BytesState' /\ UNCHANGED Viewed
             /\ last'.call = CallWith("Remove", n, n, {})
  <2>1. ~IsOpen(n)
    BY <1>1, NoLiberty DEF NoLiberties
  <2>2. FilesInv' /\ Apart(db, db', {n})
    BY <1>1, RemoveFiles DEF RemoveEntry
  <2>3. last'.call = Call("Remove", n)
    BY <1>1, RemoveTells DEF RemoveEntry
  <2> QED
    BY <1>0, <1>1, <2>1, <2>2, <2>3, OthersMove DEF Call
<1>2. ASSUME NEW n \in FileNames, Chmod(n), Count(IsOpen(n)), handles' = handles
      PROVE  /\ BytesState' /\ UNCHANGED Viewed
             /\ last'.call = CallWith("Chmod", n, n, {})
  <2>1. ~IsOpen(n)
    BY <1>2, NoLiberty DEF NoLiberties
  <2>2. FilesInv' /\ Apart(db, db', {n})
    BY <1>0, <1>2, ChmodFiles
  <2>3. last'.call = Call("Chmod", n)
    BY <1>2, ChmodTells
  <2> QED
    BY <1>0, <1>2, <2>1, <2>2, <2>3, OthersMove DEF Call
<1>3. ASSUME NEW from \in FileNames, NEW to \in FileNames, Rename(from, to),
             Count(IsOpen(from) \/ IsOpen(to)), handles' = handles
      PROVE  /\ BytesState' /\ UNCHANGED Viewed
             /\ last'.call = CallWith("Rename", from, to, {})
  <2>1. ~IsOpen(from) /\ ~IsOpen(to)
    BY <1>3, NoLiberty DEF NoLiberties
  <2>2. FilesInv' /\ Apart(db, db', {from, to})
    BY <1>3, RenameFiles
  <2>3. last'.call = CallTo("Rename", from, to)
    BY <1>3, RenameTells
  <2> QED
    BY <1>0, <1>3, <2>1, <2>2, <2>3, OthersMove DEF CallTo
<1>4. ASSUME NEW n \in FileNames, LstatIfPossible(n), handles' = handles
      PROVE  /\ BytesState' /\ UNCHANGED Viewed
             /\ last'.call = CallWith("Lstat", n, n, {})
  <2>1. db' = db /\ last'.call = Call("Lstat", n)
    BY <1>4 DEF LstatIfPossible, Answer
  <2> QED
    BY <1>0, <1>4, <2>1, NothingMoves DEF Call
<1>5. CASE ByName
  BY <1>1, <1>2, <1>3, <1>5 DEF ByName
<1>6. CASE Lstat
  BY <1>4, <1>6 DEF Lstat
<1> QED
  BY <1>5, <1>6

-----------------------------------------------------------------------------
(* Every call on files.                                                    *)

(* The outcome ByteFiles gives a call is that of its operation.            *)
LEMMA BytesOutcomeOf ==
  ASSUME NEW k,
         \/ k.op = "OpenFile" /\ Bytes!Open(k.name)
         \/ k.op = "Read" /\ Bytes!Read(k.handle, k.args[1])
         \/ k.op = "ReadAt" /\ Bytes!ReadAt(k.handle, k.args[1], k.args[2])
         \/ k.op = "Seek" /\ Bytes!Seek(k.handle, k.args[1], k.args[2])
         \/ k.op = "Write" /\ Bytes!Write(k.handle, k.args)
         \/ k.op = "WriteAt" /\ Bytes!WriteAt(k.handle, k.args[1], k.args[2])
         \/ k.op = "Truncate" /\ Bytes!Truncate(k.handle, k.args[1])
         \/ k.op = "Stat" /\ Bytes!Stat(k.handle)
         \/ k.op = "Sync" /\ Bytes!Sync(k.handle)
         \/ k.op = "Close" /\ Bytes!Close(k.handle)
         \/ k.op \in {"Remove", "Chmod", "Rename", "Lstat"} /\ UNCHANGED Viewed
  PROVE  Bytes!Outcome(k)
<1>1. CASE k.op = "OpenFile" /\ Bytes!Open(k.name)
  BY <1>1 DEF Bytes!Outcome
<1>2. CASE k.op = "Read" /\ Bytes!Read(k.handle, k.args[1])
  BY <1>2 DEF Bytes!Outcome
<1>3. CASE k.op = "ReadAt" /\ Bytes!ReadAt(k.handle, k.args[1], k.args[2])
  BY <1>3 DEF Bytes!Outcome
<1>4. CASE k.op = "Seek" /\ Bytes!Seek(k.handle, k.args[1], k.args[2])
  BY <1>4 DEF Bytes!Outcome
<1>5. CASE k.op = "Write" /\ Bytes!Write(k.handle, k.args)
  BY <1>5 DEF Bytes!Outcome
<1>6. CASE k.op = "WriteAt" /\ Bytes!WriteAt(k.handle, k.args[1], k.args[2])
  BY <1>6 DEF Bytes!Outcome
<1>7. CASE k.op = "Truncate" /\ Bytes!Truncate(k.handle, k.args[1])
  BY <1>7 DEF Bytes!Outcome
<1>8. CASE k.op = "Stat" /\ Bytes!Stat(k.handle)
  BY <1>8 DEF Bytes!Outcome
<1>9. CASE k.op = "Sync" /\ Bytes!Sync(k.handle)
  BY <1>9 DEF Bytes!Outcome
<1>10. CASE k.op = "Close" /\ Bytes!Close(k.handle)
  BY <1>10 DEF Bytes!Outcome
<1>11. CASE k.op \in {"Remove", "Chmod", "Rename", "Lstat"} /\ UNCHANGED Viewed
  BY <1>11 DEF Bytes!Outcome
<1> QED
  BY <1>1, <1>2, <1>3, <1>4, <1>5, <1>6, <1>7, <1>8, <1>9, <1>10, <1>11

LEMMA HandleOutcome ==
  ASSUME NEW h, NEW op, NEW args,
         \/ op = "Read" /\ Bytes!Read(h, args[1])
         \/ op = "ReadAt" /\ Bytes!ReadAt(h, args[1], args[2])
         \/ op = "Seek" /\ Bytes!Seek(h, args[1], args[2])
         \/ op = "Write" /\ Bytes!Write(h, args)
         \/ op = "WriteAt" /\ Bytes!WriteAt(h, args[1], args[2])
         \/ op = "Truncate" /\ Bytes!Truncate(h, args[1])
         \/ op = "Stat" /\ Bytes!Stat(h)
         \/ op = "Sync" /\ Bytes!Sync(h)
         \/ op = "Close" /\ Bytes!Close(h)
  PROVE  Bytes!Outcome(Doing(op, h, args))
<1> DEFINE k == Doing(op, h, args)
<1>0. k.op = op /\ k.handle = h /\ k.args = args
  BY DEF Doing
<1> HIDE DEF k
<1>1. Bytes!Outcome(k)
  BY <1>0, BytesOutcomeOf
<1> QED
  BY <1>1 DEF k

LEMMA NameOutcome ==
  ASSUME NEW op, NEW n, NEW to, NEW flags,
         \/ op = "OpenFile" /\ Bytes!Open(n)
         \/ op \in {"Remove", "Chmod", "Rename", "Lstat"} /\ UNCHANGED Viewed
  PROVE  Bytes!Outcome(CallWith(op, n, to, flags))
<1> DEFINE k == CallWith(op, n, to, flags)
<1>0. k.op = op /\ k.name = n
  BY DEF CallWith
<1> HIDE DEF k
<1>1. Bytes!Outcome(k)
  BY <1>0, BytesOutcomeOf
<1> QED
  BY <1>1 DEF k

(* A call on a handle tells which one it was, and frees nothing.           *)
LEMMA GiveTells ==
  ASSUME NEW call, NEW h,
         \/ \E res, out : Give(call, res, out)
         \/ \E res : Fail(call, res)
         \/ \E dst : Panic(h, call, dst)
         \/ \E dst, k : ReadTo(h, call, dst, k)
         \/ Refused(h, call) \/ SyncClosed(h, call)
         \/ \E f, at, bytes : WriteTo(h, call, f, at, bytes)
  PROVE  last'.call = call /\ free' = free
<1>1. ASSUME \/ \E res, out : Give(call, res, out)
             \/ \E res : Fail(call, res)
             \/ \E dst : Panic(h, call, dst)
             \/ SyncClosed(h, call)
      PROVE  last'.call = call /\ free' = free
  BY <1>1 DEF Give, Fail, Panic, SyncClosed
<1>2. ASSUME NEW dst, NEW k, ReadTo(h, call, dst, k) PROVE last'.call = call /\ free' = free
  BY <1>1, <1>2 DEF ReadTo, ReadFrom
<1>3. ASSUME Refused(h, call) PROVE last'.call = call /\ free' = free
  BY <1>1, <1>3 DEF Refused
<1>4. ASSUME NEW f, NEW at, NEW bytes, WriteTo(h, call, f, at, bytes)
      PROVE  last'.call = call /\ free' = free
  BY <1>1, <1>4 DEF WriteTo
<1> QED
  BY <1>1, <1>2, <1>3, <1>4

LEMMA SyncTells ==
  ASSUME NEW h, NEW call, SyncWithoutLocking(h, call)
  PROVE  /\ last'.call = call
         /\ free \in Nat => free' \in Nat /\ (free # 0 => free' # 0)
<1>1. PICK hdrs : Perform(call, FALSE, hdrs)
  BY DEF SyncWithoutLocking
<1> QED
  BY <1>1 DEF Perform, Operate

(* What every call on a handle counts.                                     *)
Told(h, op, args) ==
  /\ last'.call = Doing(op, h, args)
  /\ \E liberty : Count(liberty)
  /\ free \in Nat => free' \in Nat /\ (free # 0 => free' # 0)

LEMMA UsingTells ==
  ASSUME NEW h, free \in Nat
  PROVE  /\ \A k : Read(h, k) => Told(h, "Read", <<k>>)
         /\ \A k, off : ReadAt(h, k, off) => Told(h, "ReadAt", <<k, off>>)
         /\ \A off, whence : Seek(h, off, whence) => Told(h, "Seek", <<off, whence>>)
         /\ \A bytes : Write(h, bytes) => Told(h, "Write", bytes)
         /\ \A bytes, off : WriteAt(h, bytes, off) => Told(h, "WriteAt", <<bytes, off>>)
         /\ \A size : Truncate(h, size) => Told(h, "Truncate", <<size>>)
         /\ Stat(h) => Told(h, "Stat", <<>>)
         /\ Sync(h) => Told(h, "Sync", <<>>)
         /\ Close(h) => Told(h, "Close", <<>>)
<1> DEFINE Says(op, args) ==
             /\ last'.call = Doing(op, h, args)
             /\ free \in Nat => free' \in Nat /\ (free # 0 => free' # 0)
<1>0. ASSUME NEW op, NEW args, NEW liberty, Count(liberty), Says(op, args) PROVE Told(h, op, args)
  BY <1>0 DEF Told
<1>1. ASSUME NEW op, NEW args,
             LET call == Doing(op, h, args)
             IN  \/ \E res, out : Give(call, res, out)
                 \/ \E res : Fail(call, res)
                 \/ \E dst : Panic(h, call, dst)
                 \/ \E dst, k : ReadTo(h, call, dst, k)
                 \/ Refused(h, call) \/ SyncClosed(h, call) \/ SyncWithoutLocking(h, call)
                 \/ \E f, at, bytes : WriteTo(h, call, f, at, bytes)
      PROVE  Says(op, args)
  <2> DEFINE call == Doing(op, h, args)
  <2> HIDE DEF call
  <2>1. last'.call = call /\ (free \in Nat => free' \in Nat /\ (free # 0 => free' # 0))
    BY <1>1, GiveTells, SyncTells DEF call
  <2> QED
    BY <2>1 DEF call
<1> HIDE DEF Says
<1>2. ASSUME NEW k, Read(h, k) PROVE Told(h, "Read", <<k>>)
  BY <1>0, <1>1, <1>2 DEF Read
<1>3. ASSUME NEW k, NEW off, ReadAt(h, k, off) PROVE Told(h, "ReadAt", <<k, off>>)
  BY <1>0, <1>1, <1>3 DEF ReadAt
<1>4. ASSUME NEW off, NEW whence, Seek(h, off, whence) PROVE Told(h, "Seek", <<off, whence>>)
  BY <1>0, <1>1, <1>4 DEF Seek
<1>5. ASSUME NEW bytes, Write(h, bytes) PROVE Told(h, "Write", bytes)
  BY <1>0, <1>1, <1>5 DEF Write
<1>6. ASSUME NEW bytes, NEW off, WriteAt(h, bytes, off) PROVE Told(h, "WriteAt", <<bytes, off>>)
  BY <1>0, <1>1, <1>6 DEF WriteAt
<1>7. ASSUME NEW size, Truncate(h, size) PROVE Told(h, "Truncate", <<size>>)
  BY <1>0, <1>1, <1>7 DEF Truncate
<1>8. ASSUME Stat(h) PROVE Told(h, "Stat", <<>>)
  BY <1>0, <1>1, <1>8 DEF Stat
<1>9. ASSUME Sync(h) PROVE Told(h, "Sync", <<>>)
  BY <1>0, <1>1, <1>9 DEF Sync
<1>10. ASSUME Close(h) PROVE Told(h, "Close", <<>>)
  BY <1>0, <1>1, <1>10 DEF Close
<1> QED
  BY <1>2, <1>3, <1>4, <1>5, <1>6, <1>7, <1>8, <1>9, <1>10

(* Liberties are never forgotten.                                          *)
LEMMA LibertiesCount ==
  ASSUME free \in Nat, loose \in Nat, OpenNext
  PROVE  /\ free' \in Nat /\ (free # 0 => free' # 0)
         /\ loose' \in Nat /\ (loose # 0 => loose' # 0)
<1> DEFINE Goal == /\ free' \in Nat /\ (free # 0 => free' # 0)
                   /\ loose' \in Nat /\ (loose # 0 => loose' # 0)
<1>1. ASSUME NEW liberty, Count(liberty) PROVE loose' \in Nat /\ (loose # 0 => loose' # 0)
  BY <1>1 DEF Count
<1>2. ASSUME NEW h, NEW op, NEW args, Told(h, op, args) PROVE Goal
  BY <1>1, <1>2 DEF Told
<1>3. ASSUME NEW h, Using(h) PROVE Goal
  <2> HIDE DEF Goal
  <2>1. \E op, args : Told(h, op, args)
    BY <1>3, UsingTells DEF Using
  <2> QED
    BY <1>2, <2>1
<1>4. ASSUME NEW h, NEW n \in FileNames, NEW flags, OpenHandle(h, n, flags) PROVE Goal
  <2>1. flags \cap Flags \in SUBSET Flags
    OBVIOUS
  <2>2. Next
    BY <1>4, <2>1 DEF OpenHandle, Next
  <2> QED
    BY <1>1, <1>4, <2>2, FreeCounts DEF OpenHandle
<1>5. ASSUME ByName PROVE Goal
  <2>1. Next /\ \E liberty : Count(liberty)
    BY <1>5 DEF ByName, Next
  <2> QED
    BY <1>1, <2>1, FreeCounts
<1>6. ASSUME Lstat PROVE Goal
  <2>1. Next /\ loose' = loose
    BY <1>6 DEF Lstat, Next
  <2> QED
    BY <2>1, FreeCounts
<1> QED
  BY <1>3, <1>4, <1>5, <1>6 DEF OpenNext

(* The calls of plain clients.                                             *)
LEMMA OpenOutcomes ==
  ASSUME NoLiberties, OpenNext
  PROVE  BytesState' /\ Bytes!Outcome(last'.call)
<1>0. BytesState /\ free \in Nat /\ loose = 0 /\ loose' = 0
  BY DEF NoLiberties
<1>1. CASE ByName \/ Lstat
  <2>1. BytesState' /\ UNCHANGED Viewed
    BY <1>1, ByNameOutcome
  <2>2. PICK op \in {"Remove", "Chmod", "Rename", "Lstat"} :
          \E n, to, flags : last'.call = CallWith(op, n, to, flags)
    BY <1>1, ByNameOutcome
  <2>3. PICK n, to, flags : last'.call = CallWith(op, n, to, flags)
    BY <2>2
  <2>4. Bytes!Outcome(CallWith(op, n, to, flags))
    BY <2>1, NameOutcome
  <2> QED
    BY <2>1, <2>3, <2>4
<1>2. ASSUME NEW h \in Handles, NEW n \in FileNames, NEW flags \in OpenFlags,
             OpenHandle(h, n, flags)
      PROVE  BytesState' /\ Bytes!Outcome(last'.call)
  <2>1. BytesState' /\ Bytes!Open(n)
    BY <1>2, OpenHandleOutcome
  <2>2. last'.call = CallWith("OpenFile", n, n, flags \cap Flags)
    BY <1>2, OpenTells DEF OpenHandle
  <2>3. Bytes!Outcome(CallWith("OpenFile", n, n, flags \cap Flags))
    BY <2>1, NameOutcome
  <2> QED
    BY <2>1, <2>2, <2>3
<1>3. ASSUME NEW h \in Handles, handles[h] # NoFile, Using(h)
      PROVE  BytesState' /\ Bytes!Outcome(last'.call)
  <2>0. Held(h)
    BY <1>0, <1>3 DEF Held
  <2>1. ASSUME NEW op, NEW args, Told(h, op, args), Bytes!Outcome(Doing(op, h, args))
        PROVE  Bytes!Outcome(last'.call)
    BY <2>1 DEF Told
  <2>2. ASSUME NEW k \in Lengths, Read(h, k)
        PROVE  BytesState' /\ Bytes!Outcome(last'.call)
    <3> DEFINE args == <<k>>
    <3>1. BytesState' /\ Bytes!Read(h, args[1]) /\ Told(h, "Read", args)
      BY <1>0, <2>0, <2>2, ReadOutcome, UsingTells
    <3> HIDE DEF args
    <3> QED
      BY <2>1, <3>1, HandleOutcome
  <2>3. ASSUME NEW k \in Lengths, NEW off \in Offsets \cap Nat, ReadAt(h, k, off)
        PROVE  BytesState' /\ Bytes!Outcome(last'.call)
    <3> DEFINE args == <<k, off>>
    <3>1. BytesState' /\ Bytes!ReadAt(h, args[1], args[2]) /\ Told(h, "ReadAt", args)
      BY <1>0, <2>0, <2>3, ReadAtOutcome, UsingTells
    <3> HIDE DEF args
    <3> QED
      BY <2>1, <3>1, HandleOutcome
  <2>4. ASSUME NEW off \in Offsets, NEW whence \in {"start", "current", "end"},
               Seek(h, off, whence)
        PROVE  BytesState' /\ Bytes!Outcome(last'.call)
    <3> DEFINE args == <<off, whence>>
    <3>1. BytesState' /\ Bytes!Seek(h, args[1], args[2]) /\ Told(h, "Seek", args)
      BY <1>0, <2>0, <2>4, SeekOutcome, UsingTells
    <3> HIDE DEF args
    <3> QED
      BY <2>1, <3>1, HandleOutcome
  <2>5. ASSUME NEW bytes \in Chunks, Write(h, bytes)
        PROVE  BytesState' /\ Bytes!Outcome(last'.call)
    <3>1. BytesState' /\ Bytes!Write(h, bytes) /\ Told(h, "Write", bytes)
      BY <1>0, <2>0, <2>5, WriteOutcome, UsingTells
    <3> QED
      BY <2>1, <3>1, HandleOutcome
  <2>6. ASSUME NEW bytes \in Chunks, NEW off \in Offsets \cap Nat, WriteAt(h, bytes, off)
        PROVE  BytesState' /\ Bytes!Outcome(last'.call)
    <3> DEFINE args == <<bytes, off>>
    <3>1. BytesState' /\ Bytes!WriteAt(h, args[1], args[2]) /\ Told(h, "WriteAt", args)
      BY <1>0, <2>0, <2>6, WriteAtOutcome, UsingTells
    <3> HIDE DEF args
    <3> QED
      BY <2>1, <3>1, HandleOutcome
  <2>7. ASSUME NEW size \in Offsets \cap Nat, Truncate(h, size)
        PROVE  BytesState' /\ Bytes!Outcome(last'.call)
    <3> DEFINE args == <<size>>
    <3>1. BytesState' /\ Bytes!Truncate(h, args[1]) /\ Told(h, "Truncate", args)
      BY <1>0, <2>0, <2>7, TruncateOutcome, UsingTells
    <3> HIDE DEF args
    <3> QED
      BY <2>1, <3>1, HandleOutcome
  <2>8. ASSUME Stat(h) PROVE BytesState' /\ Bytes!Outcome(last'.call)
    <3>1. BytesState' /\ Bytes!Stat(h) /\ Told(h, "Stat", <<>>)
      BY <1>0, <2>0, <2>8, StatOutcome, UsingTells
    <3> QED
      BY <2>1, <3>1, HandleOutcome
  <2>9. ASSUME Sync(h) PROVE BytesState' /\ Bytes!Outcome(last'.call)
    <3>1. BytesState' /\ Bytes!Sync(h) /\ Told(h, "Sync", <<>>)
      BY <1>0, <2>0, <2>9, SyncOutcome, UsingTells
    <3> QED
      BY <2>1, <3>1, HandleOutcome
  <2>10. ASSUME Close(h) PROVE BytesState' /\ Bytes!Outcome(last'.call)
    <3>1. BytesState' /\ Bytes!Close(h) /\ Told(h, "Close", <<>>)
      BY <1>0, <2>0, <2>10, CloseOutcome, UsingTells
    <3> QED
      BY <2>1, <3>1, HandleOutcome
  <2> QED
    BY <1>3, <2>2, <2>3, <2>4, <2>5, <2>6, <2>7, <2>8, <2>9, <2>10 DEF Using
<1> QED
  BY <1>1, <1>2, <1>3 DEF OpenNext

(* What is always so: as long as nobody takes a liberty, every file behind *)
(* a handle is sound.                                                      *)
BytesInv == free \in Nat /\ loose \in Nat /\ (free = 0 /\ loose = 0 => BytesState)

LEMMA BytesInitInv ==
  ASSUME OpenInit, Root \notin FileNames
  PROVE  BytesInv /\ Bytes!Init
<1> DEFINE row == TarHeaderToDBHeader(RootHeader(NewMode), 1, 1)
<1>0. Init /\ free = 0 /\ loose = 0 /\ handles = [h \in Handles |-> NoFile]
  BY DEF OpenInit, Init
<1>1. RowsInv
  BY <1>0, InitKeeps
<1>2. db = {row}
  BY <1>0 DEF Init, RootHeader, ArchiveHeader, IndexHeader, IndexCreate, Indexed, UpsertHeader
<1>3. row.name = Root /\ row.link = NoName /\ row.from = NoName
  BY DEF RootHeader, ArchiveHeader, TarHeaderToDBHeader, IndexedName
<1> HIDE DEF row
<1>4. FilesInv
  BY <1>1, <1>2, <1>3 DEF FilesInv, Filed
<1>5. BytesState
  BY <1>0, <1>4 DEF BytesState
<1>6. Viewed = [h \in Handles |-> NoFile]
  BY <1>0 DEF Viewed
<1>7. (free = 0 /\ loose = 0) = TRUE
  BY <1>0
<1> QED
  BY <1>0, <1>5, <1>6, <1>7 DEF BytesInv, Bytes!Init

(* Every step keeps the invariant and is one of ByteFiles.                 *)
LEMMA BytesStep ==
  ASSUME Suffixless, BytesInv, OpenNext
  PROVE  BytesInv' /\ Bytes!Next
<1>1. /\ free' \in Nat /\ (free # 0 => free' # 0)
      /\ loose' \in Nat /\ (loose # 0 => loose' # 0)
  BY LibertiesCount DEF BytesInv
<1>2. CASE free' = 0 /\ loose' = 0
  <2>1. free = 0 /\ loose = 0 /\ NoLiberties
    BY <1>1, <1>2 DEF BytesInv, NoLiberties
  <2>2. BytesState' /\ Bytes!Outcome(last'.call)
    BY <2>1, OpenOutcomes
  <2>3. (free = 0 /\ loose = 0) = TRUE /\ (free' = 0 /\ loose' = 0) = TRUE
    BY <1>2, <2>1
  <2> QED
    BY <1>1, <2>2, <2>3 DEF BytesInv, Bytes!Next
<1>3. CASE ~(free' = 0 /\ loose' = 0)
  <2>1. (free' = 0 /\ loose' = 0) = FALSE
    BY <1>3
  <2> QED
    BY <1>1, <1>3, <2>1 DEF BytesInv, Bytes!Next
<1> QED
  BY <1>2, <1>3

(* As long as clients take no liberty, every call on an open file of       *)
(* pkg/fs/file.go has the outcome and the effect it has on a file of bytes *)
(* with a position, and closing it stores what was written and nothing     *)
(* else, for any number of handles and files and any contents: OpenFiles   *)
(* implements ByteFiles.                                                   *)
THEOREM BytesAreImplemented ==
  ASSUME Suffixless, Root \notin FileNames
  PROVE  OpenSpec => ImplementsByteFiles
<1>1. OpenInit => BytesInv /\ Bytes!Init
  BY BytesInitInv
<1>0. ASSUME UNCHANGED openVars
      PROVE  UNCHANGED <<Contained, Viewed, last, free, loose>> /\ (BytesInv => BytesInv')
  <2>1. UNCHANGED <<db, last, free, handles, loose>>
    BY <1>0 DEF openVars, fsVars
  <2>2. UNCHANGED <<Contained, Viewed>>
    BY <2>1, ViewedIs
  <2> QED
    BY <2>1, <2>2, NothingMoves DEF BytesInv
<1>2. BytesInv /\ [OpenNext]_openVars => BytesInv'
  BY <1>0, BytesStep
<1>3. BytesInv /\ [OpenNext]_openVars => [Bytes!Next]_(Bytes!byteVars)
  <2> SUFFICES ASSUME BytesInv, [OpenNext]_openVars PROVE [Bytes!Next]_(Bytes!byteVars)
    OBVIOUS
  <2>1. CASE UNCHANGED openVars
    BY <1>0, <2>1 DEF Bytes!byteVars
  <2>2. CASE OpenNext
    BY <2>2, BytesStep
  <2> QED
    BY <2>1, <2>2
<1> QED
  BY <1>1, <1>2, <1>3, PTL DEF OpenSpec, ImplementsByteFiles, Bytes!Spec
=============================================================================
