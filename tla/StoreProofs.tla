---------------------------- MODULE StoreProofs ----------------------------
(***************************************************************************)
(* The tape is the truth and the index a cache of it: for clients that     *)
(* keep to live names, whatever they call and wherever the process dies,   *)
(* for every set of names and sources and every bound; the section on      *)
(* deleting is about all clients that make no links.  And, without         *)
(* overwriting, Operations implements FileStore: what a scan of the tape   *)
(* finds changes exactly as the calls ask for.                             *)
(***************************************************************************)
EXTENDS FilesOnTape, OperationsProofs

-----------------------------------------------------------------------------
(* The invariant.                                                          *)

(* The headers that are still to be written.                               *)
Rest == SubSeq(op.hdrs, op.written + 1, Len(op.hdrs))

(* The operation has put the headers it has in memory behind those that    *)
(* were indexed before it began, written of them so far.                   *)
Placed(written) ==
  /\ Len(op.hdrs) > 0 /\ written <= Len(op.hdrs)
  /\ Len(tape) = op.base + written
  /\ \A i \in 1 .. written : tape[op.base + i] = op.hdrs[i]

(* The index is what indexing the first i headers of the tape yields.      *)
UpToDate(i) == i \in 0 .. Len(tape) /\ db = Replayed(tape)[i].db

Writing ==
  /\ drive /\ Placed(op.written) /\ Good(tape \o Rest)
  /\ IF op.overwrite THEN op.base = 0 ELSE UpToDate(op.base)

(* The tape can be indexed, and unless a crash has come in between the     *)
(* index is what indexing the part of it up to where the process has come  *)
(* yields.                                                                 *)
CacheInv ==
  /\ TypeInv /\ err = "none" /\ Good(tape)
  /\ ~drive => tape = <<>>
  /\ pc = "down" /\ trusted /\ Live(db) # {} => UpToDate(Len(tape))
  /\ pc = "idle" => UpToDate(Len(tape)) /\ Len(tape) > 0
  /\ pc = "write" => Writing
  /\ pc = "index" => Placed(Len(op.hdrs)) /\ UpToDate(op.pos - 1)
  /\ pc = "scan" => UpToDate(op.pos - 1)

(* Without overwriting, a crash leaves the index of an earlier tape.       *)
StaleInv == \E i \in 0 .. Len(tape) : db = Replayed(tape)[i].db

-----------------------------------------------------------------------------
(* One header more.                                                        *)

LEMMA TapeType ==
  ASSUME TypeInv
  PROVE  tape \in Seq(Header) /\ Len(tape) \in Nat
  BY DEF TypeInv, TypeOK

(* A tape without headers yields no rows.                                  *)
LEMMA NothingIndexed ==
  ASSUME TypeInv
  PROVE  Replayed(tape)[0].db = {}
  BY TapeType, ReplayedDef DEF Indexed

(* The next header can be indexed, and that is the next index.             *)
LEMMA NextIndexed ==
  ASSUME TypeInv, Good(tape), NEW pos \in Position, pos <= Len(tape), UpToDate(pos - 1)
  PROVE  /\ IndexHeader(db, pos, tape[pos]).err = "none"
         /\ IndexHeader(db, pos, tape[pos]).db = Replayed(tape)[pos].db
         /\ tape[pos] \in Header
<1>1. pos \in 1 .. Len(tape) /\ pos \in 0 .. Len(tape) /\ pos - 1 \in 0 .. Len(tape)
  BY TapeType DEF Position
<1>2. Replayed(tape)[pos] = After(Replayed(tape)[pos - 1], pos, tape[pos])
  BY <1>1, TapeType, ReplayedDef
<1>3. Replayed(tape)[pos - 1].err = "none" /\ Replayed(tape)[pos].err = "none"
  BY <1>1 DEF Good, GoodAt
<1>4. tape[pos] \in Header
  BY <1>1, TapeType, ElementOfSeq
<1> QED
  BY <1>2, <1>3, <1>4 DEF After, UpToDate

(* An index that is up to date knows the last header of the tape.          *)
LEMMA LastIsKnown ==
  ASSUME TypeInv, Good(tape), UpToDate(Len(tape)), Len(tape) > 0
  PROVE  GetLastIndexed(db) = Len(tape)
<1>1. Len(tape) \in Nat /\ Len(tape) \in 0 .. Len(tape)
  BY TapeType
<1>2. Fit(db, tape, Len(tape)) /\ Touched(db, Len(tape))
  BY <1>1 DEF Good, GoodAt, UpToDate
<1>3. Within(db, Len(tape), Len(tape)) /\ Table(db)
  BY <1>2 DEF Fit, PlainTable
<1>4. PICK r \in db : r.last = Len(tape)
  BY <1>2 DEF Touched
<1>5. /\ GetLastIndexed(db) \in Position
      /\ \A q \in db : q.last <= GetLastIndexed(db)
      /\ \E q \in db : q.last = GetLastIndexed(db)
  BY <1>1, <1>3, <1>4, LastIndexedIsGreatest
<1>6. GetLastIndexed(db) <= Len(tape) /\ Len(tape) <= GetLastIndexed(db)
  BY <1>3, <1>4, <1>5 DEF Within
<1> QED
  BY <1>1, <1>5, <1>6 DEF Position

(* Where there are rows there are headers.                                 *)
LEMMA RowsNeedHeaders ==
  ASSUME TypeInv, UpToDate(Len(tape)), Live(db) # {}
  PROVE  Len(tape) > 0
<1>1. Len(tape) # 0
  BY NothingIndexed DEF UpToDate, Live
<1> QED
  BY <1>1, TapeType

(* Writing a header leaves the tape that will be.                          *)
LEMMA OneWritten ==
  ASSUME NEW t \in Seq(Header), NEW hdrs \in Seq(Header), NEW i \in 1 .. Len(hdrs)
  PROVE  Append(t, hdrs[i]) \o SubSeq(hdrs, i + 1, Len(hdrs))
           = t \o SubSeq(hdrs, i, Len(hdrs))
<1>1. /\ hdrs[i] \in Header /\ Len(hdrs) \in Nat /\ Len(hdrs) \in i .. Len(hdrs)
      /\ \A k \in i + 1 .. Len(hdrs) : hdrs[k] \in Header
  BY ElementOfSeq
<1> DEFINE s == SubSeq(hdrs, i + 1, Len(hdrs))
<1>2. s \in Seq(Header)
  BY <1>1, SubSeqProperties
<1>3. SubSeq(hdrs, i, Len(hdrs)) = <<hdrs[i]>> \o s
  BY <1>1, SubSeqRecursiveFirst
<1> HIDE DEF s
<1>4. Append(t, hdrs[i]) = t \o <<hdrs[i]>>
  BY <1>1, AppendIsConcat
<1>5. (t \o <<hdrs[i]>>) \o s = t \o (<<hdrs[i]>> \o s)
  <2>1. <<hdrs[i]>> \in Seq(Header)
    BY <1>1
  <2> QED
    BY <1>2, <2>1, ConcatAssociative
<1> QED
  BY <1>3, <1>4, <1>5 DEF s

-----------------------------------------------------------------------------
(* An operation begins.                                                    *)

LEMMA CallKeeps ==
  ASSUME CacheInv, pc = "idle", TypeInv', NEW kind, NEW target, NEW hdrs \in Seq(Header),
         Len(hdrs) > 0, Good(tape \o hdrs), Call(kind, target, hdrs)
  PROVE  CacheInv'
<1>1. /\ TypeInv /\ Good(tape) /\ UpToDate(Len(tape)) /\ Len(tape) > 0
      /\ Len(tape) \in Nat /\ Len(hdrs) \in Nat
  BY TapeType DEF CacheInv
<1>2. GetLastIndexed(db) = Len(tape)
  BY <1>1, LastIsKnown
<1>3. /\ tape' = tape /\ db' = db /\ drive' = TRUE /\ pc' = "write" /\ err' = "none"
      /\ op'.hdrs = hdrs /\ op'.written = 0 /\ op'.base = Len(tape) /\ ~op'.overwrite
  BY <1>2 DEF Call, Begin
<1>4. Placed(op.written)'
  BY <1>1, <1>3 DEF Placed
<1>5. Rest' = hdrs
  BY <1>3, SubSeqFull DEF Rest
<1>6. Writing'
  BY <1>1, <1>3, <1>4, <1>5 DEF Writing, UpToDate
<1> QED
  BY <1>1, <1>3, <1>6 DEF CacheInv

(* With an empty tape it does not matter what the index holds.             *)
LEMMA OverwriteKeeps ==
  ASSUME TypeInv, TypeInv', NEW kind, NEW target, NEW hdrs \in Seq(Header),
         NEW truncate \in BOOLEAN, Len(hdrs) > 0, Good(hdrs), truncate \/ tape = <<>>,
         Begin(kind, target, hdrs, TRUE, truncate)
  PROVE  CacheInv'
<1>1. /\ tape' = <<>> /\ drive' = TRUE /\ pc' = "write" /\ err' = "none"
      /\ op'.hdrs = hdrs /\ op'.written = 0 /\ op'.base = 0 /\ op'.overwrite
      /\ Len(hdrs) \in Nat /\ Len(<<>>) = 0 /\ <<>> \o hdrs = hdrs
  BY DEF Begin
<1>2. Placed(op.written)'
  BY <1>1 DEF Placed
<1>3. Rest' = hdrs
  BY <1>1, SubSeqFull DEF Rest
<1>4. Writing'
  BY <1>1, <1>2, <1>3 DEF Writing
<1>5. Good(tape')
  BY <1>1, EmptyIsGood
<1> QED
  BY <1>1, <1>4, <1>5 DEF CacheInv

(* A batch is a list of files clients have.                                *)
LEMMA BatchOfSources ==
  ASSUME NEW srcs \in Batches
  PROVE  \E k \in Nat : k > 0 /\ DOMAIN srcs = 1 .. k /\ srcs \in [1 .. k -> Sources]
<1>1. PICK k \in 1 .. MaxBatch : srcs \in [1 .. k -> Sources]
  BY DEF Batches
<1>2. k \in Nat /\ k > 0 /\ DOMAIN srcs = 1 .. k
  BY <1>1, OperationsAssumption
<1> QED
  BY <1>1, <1>2

(* Between two operations the index is what clients see of the tape.       *)
LEMMA IdleIndex ==
  ASSUME CacheInv, pc = "idle"
  PROVE  /\ tape \in Seq(Header) /\ Good(tape) /\ db = Replayed(tape)[Len(tape)].db
         /\ PlainTable(db)
<1>1. /\ tape \in Seq(Header) /\ Good(tape) /\ db = Replayed(tape)[Len(tape)].db
      /\ Len(tape) \in 0 .. Len(tape)
  BY TapeType DEF CacheInv, UpToDate
<1> QED
  BY <1>1 DEF Good, GoodAt, Fit

LEMMA ArchiveKeeps ==
  ASSUME Disciplined, CacheInv, TypeInv', NEW srcs \in Batches,
         Archive(srcs) \/ ArchiveOverwriting(srcs)
  PROVE  CacheInv'
<1>1. PICK k \in Nat : k > 0 /\ DOMAIN srcs = 1 .. k /\ srcs \in [1 .. k -> Sources]
  BY BatchOfSources
<1> DEFINE hdrs == [i \in 1 .. k |-> ArchiveHeader(srcs[i])]
<1>2. \A i \in 1 .. k : Allowed(srcs[i])
  BY <1>1 DEF Archive, ArchiveOverwriting
<1>3. CASE Archive(srcs)
  <2>1. pc = "idle" /\ Call("archive", srcs[1].name, hdrs)
    <3>1. "fresh" \notin Permit
      BY DEF Disciplined
    <3> QED
      BY <1>1, <1>3, <3>1 DEF Archive, CanArchive
  <2>2. hdrs \in Seq(Header) /\ Len(hdrs) = k /\ Good(tape \o hdrs)
    BY <1>1, <1>2, <2>1, IdleIndex, ArchiveIsGood
  <2> HIDE DEF hdrs
  <2> QED
    BY <1>1, <2>1, <2>2, CallKeeps
<1>4. CASE ArchiveOverwriting(srcs)
  <2>1. Begin("archive", srcs[1].name, hdrs, TRUE, TRUE)
    BY <1>1, <1>4 DEF ArchiveOverwriting
  <2>2. <<>> \in Seq(Header) /\ Good(<<>>)
    BY EmptyIsGood
  <2>3. hdrs \in Seq(Header) /\ Len(hdrs) = k /\ Good(<<>> \o hdrs)
    BY <1>1, <1>2, <2>2, ArchiveIsGood
  <2> HIDE DEF hdrs
  <2>4. <<>> \o hdrs = hdrs /\ TypeInv
    BY <2>3 DEF CacheInv
  <2> QED
    BY <1>1, <2>1, <2>3, <2>4, OverwriteKeeps
<1> QED
  BY <1>3, <1>4

LEMMA UpdateKeeps ==
  ASSUME Disciplined, CacheInv, TypeInv',
         \/ \E srcs \in Batches, skip \in BOOLEAN : UpdateContent(srcs, skip)
         \/ \E row \in db, mode \in Modes : UpdateMetadata(row, mode)
         \/ \E srcs \in Batches : UpdateLocal(srcs)
  PROVE  CacheInv'
<1>0. "unknown" \notin Permit /\ "local" \notin Permit
  BY DEF Disciplined
<1>1. ASSUME NEW srcs \in Batches, NEW skip \in BOOLEAN, UpdateContent(srcs, skip)
      PROVE  CacheInv'
  <2>1. PICK k \in Nat : k > 0 /\ DOMAIN srcs = 1 .. k /\ srcs \in [1 .. k -> Sources]
    BY BatchOfSources
  <2> DEFINE hdrs == [i \in 1 .. k |-> ContentHeader(srcs[i], skip)]
  <2>2. /\ pc = "idle" /\ Call("update", srcs[1].name, hdrs)
        /\ \A i \in 1 .. k : Allowed(srcs[i]) /\ \E r \in Live(db) : r.name = srcs[i].name
    BY <1>0, <1>1, <2>1 DEF UpdateContent, CanReplace
  <2>3. hdrs \in Seq(Header) /\ Len(hdrs) = k /\ Good(tape \o hdrs)
    BY <2>1, <2>2, IdleIndex, ContentIsGood
  <2> HIDE DEF hdrs
  <2> QED
    BY <2>1, <2>2, <2>3, CallKeeps
<1>2. ASSUME NEW row \in db, NEW mode \in Modes, UpdateMetadata(row, mode)
      PROVE  CacheInv'
  <2> DEFINE hdrs == <<MetadataHeader(row, mode)>>
  <2>1. pc = "idle" /\ row \in Live(db) /\ Call("update", row.name, hdrs)
    BY <1>2 DEF UpdateMetadata
  <2>2. Good(tape \o hdrs)
    BY <2>1, IdleIndex, MetadataIsGood
  <2>3. hdrs \in Seq(Header) /\ Len(hdrs) > 0
    <3>1. row \in Row /\ row.name \in Name
      BY DEF CacheInv, TypeInv, Table, Row
    <3>2. MetadataHeader(row, mode) \in Header
      BY <3>1, RowHeaders
    <3> QED
      BY <3>2
  <2> HIDE DEF hdrs
  <2> QED
    BY <2>1, <2>2, <2>3, CallKeeps
<1> QED
  BY <1>0, <1>1, <1>2 DEF UpdateLocal

LEMMA MoveKeeps ==
  ASSUME Disciplined, CacheInv, TypeInv', NEW from \in ClientNames, NEW to \in ClientNames,
         Move(from, to)
  PROVE  CacheInv'
<1> DEFINE src == Lookup(db, from)
           rows == IF src.type = "dir" THEN GetHeaderChildren(db, from) ELSE {}
<1>1. pc = "idle" /\ src # NoRow /\ FreshTargets(rows \cup {src}, from, to)
  BY DEF Move
<1>2. PICK rest \in SetToSeqs(rows) :
        LET moved == <<src>> \o rest
        IN  Call("move", from, [i \in DOMAIN moved |-> RenameHeader(moved[i], from, to)])
  BY DEF Move
<1>3. rows = {} \/ rows = GetHeaderChildren(db, from)
  OBVIOUS
<1> HIDE DEF rows
<1> DEFINE moved == <<src>> \o rest
           hdrs == [i \in DOMAIN moved |-> RenameHeader(moved[i], from, to)]
<1>4. hdrs \in Seq(Header) /\ Len(hdrs) > 0 /\ Good(tape \o hdrs)
  BY <1>1, <1>3, IdleIndex, MoveIsGood
<1>5. Call("move", from, hdrs)
  BY <1>2
<1> HIDE DEF hdrs
<1> QED
  BY <1>1, <1>4, <1>5, CallKeeps

(* What a delete writes deletes the entry and what lies below it.          *)
LEMMA DeleteWrites ==
  ASSUME Disciplined, CacheInv, NEW n \in ClientNames, Delete(n)
  PROVE  \E hdrs \in Seq(Header) :
           /\ Len(hdrs) > 0 /\ Good(tape \o hdrs) /\ Call("delete", n, hdrs)
           /\ \A i \in 1 .. Len(hdrs) : Deletes(hdrs[i], n)
<1> DEFINE src == Lookup(db, n)
           rows == IF src.type = "dir" /\ src.link = NoName
                     THEN GetHeaderChildren(db, n) ELSE {}
<1>1. pc = "idle" /\ src # NoRow
  BY DEF Delete
<1>2. PICK rest \in SetToSeqs(rows) :
        LET deleted == <<src>> \o rest
        IN  Call("delete", n, [i \in DOMAIN deleted |-> DeletionHeader(deleted[i])])
  BY DEF Delete
<1>3. rows = {} \/ rows = GetHeaderChildren(db, n)
  OBVIOUS
<1> HIDE DEF rows
<1> DEFINE deleted == <<src>> \o rest
           hdrs == [i \in DOMAIN deleted |-> DeletionHeader(deleted[i])]
<1>4. /\ hdrs \in Seq(Header) /\ Len(hdrs) > 0 /\ Good(tape \o hdrs)
      /\ \A i \in 1 .. Len(hdrs) : Deletes(hdrs[i], n)
  BY <1>1, <1>3, IdleIndex, DeleteIsGood
<1>5. Call("delete", n, hdrs)
  BY <1>2
<1> HIDE DEF hdrs
<1> QED
  BY <1>4, <1>5

LEMMA DeleteKeeps ==
  ASSUME Disciplined, CacheInv, TypeInv', NEW n \in ClientNames, Delete(n)
  PROVE  CacheInv'
<1>1. pc = "idle"
  BY DEF Delete
<1> QED
  BY <1>1, DeleteWrites, CallKeeps

LEMMA InitializeKeeps ==
  ASSUME Disciplined, CacheInv, TypeInv', InitializeFresh \/ Initialize
  PROVE  CacheInv'
<1>1. PICK mode \in Modes, truncate \in BOOLEAN :
        /\ truncate \/ tape = <<>>
        /\ Begin("initialize", Root, <<RootHeader(mode)>>, TRUE, truncate)
  BY DEF InitializeFresh, Initialize, MkdirRoot, CacheInv
<1> DEFINE hdrs == <<RootHeader(mode)>>
<1>2. hdrs \in Seq(Header) /\ Len(hdrs) > 0 /\ Good(hdrs) /\ TypeInv
  BY RootIsGood DEF CacheInv
<1> HIDE DEF hdrs
<1> QED
  BY <1>1, <1>2, OverwriteKeeps DEF hdrs

-----------------------------------------------------------------------------
(* An operation goes on.                                                   *)

LEMMA WriteKeeps ==
  ASSUME CacheInv, TypeInv', WriteHeader
  PROVE  CacheInv'
<1>1. /\ TypeInv /\ Good(tape) /\ Writing /\ op.written < Len(op.hdrs)
      /\ tape' = Append(tape, op.hdrs[op.written + 1])
      /\ op' = [op EXCEPT !.written = @ + 1]
      /\ UNCHANGED <<drive, db, pc, err, trusted>> /\ pc = "write" /\ err = "none"
  BY DEF CacheInv, WriteHeader
<1>2. /\ op.hdrs \in Seq(Header) /\ op.written \in Nat /\ op.base \in Nat
      /\ Len(op.hdrs) \in Nat /\ op.written + 1 \in 1 .. Len(op.hdrs)
      /\ tape \in Seq(Header) /\ Len(tape) \in Nat
      /\ op'.hdrs = op.hdrs /\ op'.written = op.written + 1 /\ op'.base = op.base
      /\ op'.overwrite = op.overwrite
  BY <1>1, TapeType DEF TypeInv, TypeOK, Op
<1> DEFINE h == op.hdrs[op.written + 1]
<1>3. h \in Header /\ tape' = Append(tape, h)
  BY <1>1, <1>2, ElementOfSeq
<1> HIDE DEF h
<1>4. /\ tape' = tape \o <<h>> /\ <<h>> \in Seq(Header) /\ tape' \in Seq(Header)
      /\ Len(tape') = Len(tape) + 1 /\ tape'[Len(tape) + 1] = h
      /\ \A i \in 1 .. Len(tape) : tape'[i] = tape[i]
  <2>1. tape \in Seq(Header) /\ <<h>> \in Seq(Header)
    BY <1>2, <1>3
  <2> QED
    BY <1>3, <2>1, AppendIsConcat, AppendProperties
<1>5. Placed(op.written)'
  <2>1. /\ Len(tape) = op.base + op.written /\ Len(op.hdrs) > 0
        /\ \A i \in 1 .. op.written : tape[op.base + i] = op.hdrs[i]
    BY <1>1 DEF Writing, Placed
  <2>2. ASSUME NEW i \in 1 .. op.written + 1 PROVE tape'[op.base + i] = op.hdrs[i]
    <3>1. CASE i = op.written + 1
      <4>1. op.base + i = Len(tape) + 1
        BY <1>2, <2>1, <3>1
      <4> QED
        BY <1>4, <3>1, <4>1 DEF h
    <3>2. CASE i # op.written + 1
      <4>1. i \in 1 .. op.written /\ op.base + i \in 1 .. Len(tape)
        BY <1>2, <2>1, <3>2
      <4> QED
        BY <1>4, <2>1, <4>1
    <3> QED
      BY <3>1, <3>2
  <2> QED
    <3>0. \A x, y, z \in Nat : x = y + z => x + 1 = y + (z + 1)
      OBVIOUS
    <3>1. /\ op.written + 1 <= Len(op.hdrs)
          /\ Len(tape') = op.base + (op.written + 1)
      <4>1. op.written + 1 <= Len(op.hdrs)
        BY <1>2
      <4>2. Len(tape) + 1 = op.base + (op.written + 1)
        BY <1>2, <2>1, <3>0
      <4> QED
        BY <1>4, <4>1, <4>2
    <3>2. /\ op'.hdrs = op.hdrs /\ op'.written = op.written + 1 /\ op'.base = op.base
      BY <1>2
    <3> QED
      BY <2>1, <2>2, <3>1, <3>2 DEF Placed
<1>6. tape' \o Rest' = tape \o Rest /\ Good(tape \o Rest)
  <2>1. Append(tape, op.hdrs[op.written + 1]) \o SubSeq(op.hdrs, op.written + 1 + 1, Len(op.hdrs))
          = tape \o SubSeq(op.hdrs, op.written + 1, Len(op.hdrs))
    BY <1>2, OneWritten
  <2> QED
    BY <1>1, <1>2, <1>3, <2>1 DEF Rest, Writing, h
<1>7. Good(tape')
  <2>1. Rest' \in Seq(Header)
    <3>1. \A i \in op.written + 1 + 1 .. Len(op.hdrs) : op.hdrs[i] \in Header
      BY <1>2, ElementOfSeq
    <3> QED
      BY <1>2, <3>1, SubSeqProperties DEF Rest
  <2> QED
    BY <1>4, <1>6, <2>1, PrefixIsGood
<1>8. ~op.overwrite => UpToDate(op.base)'
  <2>1. ASSUME UpToDate(op.base) PROVE UpToDate(op.base)'
    <3>1. Replayed(tape')[op.base] = Replayed(tape)[op.base]
      BY <1>2, <1>4, <2>1, ReplayedPrefix DEF UpToDate
    <3> QED
      BY <1>1, <1>2, <1>4, <2>1, <3>1 DEF UpToDate
  <2> QED
    BY <1>1, <2>1 DEF Writing
<1>9. Writing'
  BY <1>1, <1>2, <1>5, <1>6, <1>8 DEF Writing
<1> QED
  BY <1>1, <1>7, <1>9 DEF CacheInv, Writing

LEMMA StartKeeps ==
  ASSUME CacheInv, TypeInv', StartIndex
  PROVE  CacheInv'
<1>1. /\ TypeInv /\ Good(tape) /\ Writing /\ op.written = Len(op.hdrs)
      /\ db' = IF op.overwrite THEN {} ELSE db
      /\ pc' = "index" /\ op' = [op EXCEPT !.pos = op.base + 1]
      /\ UNCHANGED <<tape, drive, err, trusted>> /\ err = "none"
  BY DEF CacheInv, StartIndex
<1>2. /\ op.base \in Nat /\ Len(tape) \in Nat /\ op'.hdrs = op.hdrs
      /\ op'.base = op.base /\ op'.pos - 1 = op.base
  <2>1. op \in Op
    BY <1>1 DEF TypeInv, TypeOK
  <2> QED
    BY <1>1, <2>1, TapeType DEF Op
<1>3. Placed(Len(op.hdrs))'
  BY <1>1, <1>2 DEF Writing, Placed
<1>4. UpToDate(op.pos - 1)'
  <2>1. CASE op.overwrite
    <3>1. op'.pos - 1 = 0 /\ db' = {} /\ tape' = tape
      BY <1>1, <1>2, <2>1 DEF Writing
    <3>2. Replayed(tape)[0].db = {} /\ 0 \in 0 .. Len(tape)
      BY <1>1, <1>2, NothingIndexed
    <3> QED
      BY <3>1, <3>2 DEF UpToDate
  <2>2. CASE ~op.overwrite
    <3>1. UpToDate(op.base) /\ db' = db /\ tape' = tape
      BY <1>1, <2>2 DEF Writing
    <3> QED
      BY <1>2, <3>1 DEF UpToDate
  <2> QED
    BY <2>1, <2>2
<1> QED
  BY <1>1, <1>2, <1>3, <1>4 DEF CacheInv, Writing

(* The header taken from memory is the one on the tape.                    *)
LEMMA TakenFromTape ==
  ASSUME TypeInv, Placed(Len(op.hdrs)), NEW p \in Nat, op.base < p, p <= Len(tape)
  PROVE  p - op.base \in 1 .. Len(op.hdrs) /\ tape[p] = op.hdrs[p - op.base]
<1>1. op.base \in Nat /\ Len(op.hdrs) \in Nat /\ Len(tape) = op.base + Len(op.hdrs)
  BY DEF TypeInv, TypeOK, Op, Placed
<1>2. p - op.base \in 1 .. Len(op.hdrs) /\ op.base + (p - op.base) = p
  BY <1>1
<1> QED
  BY <1>2 DEF Placed

LEMMA IndexKeeps ==
  ASSUME CacheInv, TypeInv', IndexStep \/ IndexMissing \/ IndexEnd
  PROVE  CacheInv'
<1>1. /\ TypeInv /\ Good(tape) /\ err = "none" /\ Placed(Len(op.hdrs)) /\ UpToDate(op.pos - 1)
      /\ ~drive => tape = <<>>
  BY DEF CacheInv, IndexStep, IndexMissing, IndexEnd
<1>2. /\ op.pos \in Position /\ op.pos \in Nat /\ op.base \in Nat /\ op.base < op.pos
      /\ Len(tape) \in Nat /\ Len(op.hdrs) \in Nat
  BY TapeType DEF CacheInv, TypeInv, TypeOK, Op, Position, IndexStep, IndexMissing, IndexEnd
<1>3. CASE IndexStep
  <2> DEFINE r == IndexHeader(db, op.pos, op.hdrs[op.pos - op.base])
  <2>1. op.pos <= Len(tape) /\ tape[op.pos] = op.hdrs[op.pos - op.base]
    BY <1>1, <1>2, <1>3, TakenFromTape DEF IndexStep
  <2>2. r.err = "none" /\ r.db = Replayed(tape)[op.pos].db
    BY <1>1, <1>2, <2>1, NextIndexed
  <2>3. /\ db' = r.db /\ op' = [op EXCEPT !.pos = op.pos + 1]
        /\ UNCHANGED <<tape, drive, pc, err, trusted>> /\ pc = "index"
    BY <1>3, <2>2 DEF IndexStep
  <2> HIDE DEF r
  <2>4. op'.hdrs = op.hdrs /\ op'.base = op.base /\ op'.pos - 1 = op.pos
    BY <1>1, <1>2, <2>3 DEF TypeInv, TypeOK, Op
  <2>5. Placed(Len(op.hdrs))'
    BY <1>1, <2>3, <2>4 DEF Placed
  <2>6. UpToDate(op.pos - 1)'
    BY <1>2, <2>1, <2>2, <2>3, <2>4 DEF UpToDate
  <2> QED
    BY <1>1, <2>3, <2>5, <2>6 DEF CacheInv
<1>4. ASSUME IndexMissing PROVE FALSE
  <2>1. op.pos - op.base \in 1 .. Len(op.hdrs)
    BY <1>1, <1>2, <1>4, TakenFromTape DEF IndexMissing
  <2> QED
    BY <1>2, <1>4, <2>1 DEF IndexMissing
<1>5. CASE IndexEnd
  <2>1. /\ UNCHANGED <<tape, drive, db>> /\ pc' = "idle" /\ err' = "none"
        /\ op.pos > Len(tape)
    BY <1>5 DEF IndexEnd, Finish
  <2>2. op.pos - 1 = Len(tape) /\ Len(tape) > 0
    BY <1>1, <1>2, <2>1 DEF UpToDate, Placed
  <2>3. UpToDate(Len(tape))'
    BY <1>1, <2>1, <2>2 DEF UpToDate
  <2> QED
    BY <1>1, <2>1, <2>2, <2>3 DEF CacheInv
<1> QED
  BY <1>3, <1>4, <1>5

-----------------------------------------------------------------------------
(* Processes start, stop and die; the tape is scanned.                     *)

LEMMA ScanKeeps ==
  ASSUME Disciplined, CacheInv, TypeInv',
         \/ ScanStep \/ ScanFail \/ ScanEnd \/ InitializeScan
         \/ \E purge \in BOOLEAN : RecoveryIndex(purge)
  PROVE  CacheInv'
<1>1. /\ TypeInv /\ Good(tape) /\ err = "none" /\ (~drive => tape = <<>>)
      /\ Len(tape) \in Nat
  BY TapeType DEF CacheInv
<1>2. ASSUME NEW kind, Scan(kind, TRUE) PROVE CacheInv'
  <2>1. /\ UNCHANGED <<tape, drive, trusted>> /\ pc' = "scan" /\ err' = "none" /\ db' = {}
        /\ op'.pos = 1 /\ 1 - 1 = 0
    BY <1>2 DEF Scan, NoOp
  <2>2. Replayed(tape)[0].db = {} /\ 0 \in 0 .. Len(tape)
    BY <1>1, NothingIndexed
  <2>3. UpToDate(op.pos - 1)'
    BY <2>1, <2>2 DEF UpToDate
  <2> QED
    BY <1>1, <2>1, <2>3 DEF CacheInv
<1>3. ASSUME InitializeScan \/ \E purge \in BOOLEAN : RecoveryIndex(purge)
      PROVE  CacheInv'
  <2>1. "reindex" \notin Permit
    BY DEF Disciplined
  <2> QED
    BY <1>2, <1>3, <2>1 DEF InitializeScan, RecoveryIndex
<1>4. ASSUME pc = "scan"
      PROVE  /\ UpToDate(op.pos - 1) /\ op.pos \in Position /\ op.pos \in Nat
             /\ op.pos <= Len(tape) =>
                  Scanned.err = "none" /\ Scanned.db = Replayed(tape)[op.pos].db
  <2>1. UpToDate(op.pos - 1) /\ op.pos \in Position
    BY <1>4 DEF CacheInv, TypeInv, TypeOK, Op
  <2> QED
    BY <1>1, <2>1, NextIndexed DEF Scanned, Position
<1>5. CASE ScanStep
  <2>1. /\ op.pos <= Len(tape) /\ db' = Scanned.db /\ op' = [op EXCEPT !.pos = op.pos + 1]
        /\ UNCHANGED <<tape, drive, pc, err, trusted>> /\ pc = "scan"
    BY <1>5 DEF ScanStep
  <2>2. op'.pos - 1 = op.pos /\ op.pos \in 0 .. Len(tape)
    <3>1. op \in Op
      BY <1>1 DEF TypeInv, TypeOK
    <3> QED
      BY <1>1, <1>4, <2>1, <3>1 DEF Op
  <2>3. UpToDate(op.pos - 1)'
    BY <1>4, <2>1, <2>2 DEF UpToDate
  <2> QED
    BY <1>1, <2>1, <2>3 DEF CacheInv
<1>6. ASSUME ScanFail PROVE FALSE
  BY <1>4, <1>6 DEF ScanFail
<1>7. CASE ScanEnd
  <2>1. /\ UNCHANGED <<tape, drive, db, err>> /\ pc = "scan" /\ op.pos > Len(tape)
        /\ pc' = "down" \/ (pc' = "idle" /\ Live(db) # {})
    BY <1>7 DEF ScanEnd
  <2>2. op.pos - 1 = Len(tape)
    BY <1>1, <1>4, <2>1 DEF UpToDate
  <2>3. UpToDate(Len(tape))
    BY <1>4, <2>1, <2>2
  <2>4. Live(db) # {} => Len(tape) > 0
    BY <1>1, <2>3, RowsNeedHeaders
  <2>5. UpToDate(Len(tape))'
    BY <2>1, <2>3 DEF UpToDate
  <2> QED
    BY <1>1, <2>1, <2>4, <2>5 DEF CacheInv
<1> QED
  BY <1>3, <1>5, <1>6, <1>7

LEMMA ProcessKeeps ==
  ASSUME Disciplined, CacheInv, TypeInv', Restart \/ Stop \/ Crash \/ LoseIndex
  PROVE  CacheInv'
<1>1. TypeInv /\ Good(tape) /\ err = "none" /\ (~drive => tape = <<>>)
  BY DEF CacheInv
<1>2. CASE Restart
  <2>1. /\ UNCHANGED <<tape, drive, db, op, err, trusted>> /\ pc' = "idle"
        /\ UpToDate(Len(tape)) /\ Live(db) # {}
    BY <1>2 DEF Restart, CacheInv, Disciplined
  <2>2. Len(tape) > 0
    BY <1>1, <2>1, RowsNeedHeaders
  <2>3. UpToDate(Len(tape))'
    BY <2>1 DEF UpToDate
  <2> QED
    BY <1>1, <2>1, <2>2, <2>3 DEF CacheInv
<1>3. CASE Stop
  <2>1. /\ UNCHANGED <<tape, drive, db, op, err, trusted>> /\ pc' = "down"
        /\ UpToDate(Len(tape))
    BY <1>3 DEF Stop, CacheInv
  <2>2. UpToDate(Len(tape))'
    BY <2>1 DEF UpToDate
  <2> QED
    BY <1>1, <2>1, <2>2 DEF CacheInv
<1>4. CASE Crash
  BY <1>1, <1>4 DEF Crash, CacheInv
<1>5. CASE LoseIndex
  <2>1. Live(db') = {}
    BY <1>5 DEF LoseIndex, Live
  <2> QED
    BY <1>1, <1>5, <2>1 DEF LoseIndex, CacheInv
<1> QED
  BY <1>2, <1>3, <1>4, <1>5

-----------------------------------------------------------------------------
(* Every step.                                                             *)

LEMMA CacheInit == Init => CacheInv
<1> SUFFICES ASSUME Init PROVE CacheInv
  OBVIOUS
<1>1. TypeInv
  BY InitType
<1>2. Live({}) = {}
  BY DEF Live
<1> QED
  BY <1>1, <1>2, EmptyIsGood DEF Init, CacheInv

LEMMA CacheNext ==
  ASSUME Disciplined
  PROVE  CacheInv /\ [Next]_vars => CacheInv'
<1> SUFFICES ASSUME CacheInv, [Next]_vars PROVE CacheInv'
  OBVIOUS
<1>0. TypeInv'
  BY NextType DEF CacheInv
<1>1. CASE UNCHANGED vars
  BY <1>1, <1>0 DEF vars, CacheInv, UpToDate, Writing, Placed, Rest
<1>2. ASSUME NEW srcs \in Batches, Archive(srcs) \/ ArchiveOverwriting(srcs) PROVE CacheInv'
  BY <1>0, <1>2, ArchiveKeeps
<1>3. ASSUME NEW from \in ClientNames, NEW to \in ClientNames, Move(from, to) PROVE CacheInv'
  BY <1>0, <1>3, MoveKeeps
<1>4. ASSUME NEW n \in ClientNames, Delete(n) PROVE CacheInv'
  BY <1>0, <1>4, DeleteKeeps
<1>5. ASSUME \/ \E srcs \in Batches, skip \in BOOLEAN : UpdateContent(srcs, skip)
             \/ \E row \in db, mode \in Modes : UpdateMetadata(row, mode)
             \/ \E srcs \in Batches : UpdateLocal(srcs)
      PROVE  CacheInv'
  BY <1>0, <1>5, UpdateKeeps
<1>6. CASE InitializeFresh \/ Initialize
  BY <1>0, <1>6, InitializeKeeps
<1>7. CASE \/ InitializeScan \/ ScanStep \/ ScanFail \/ ScanEnd
           \/ \E purge \in BOOLEAN : RecoveryIndex(purge)
  BY <1>0, <1>7, ScanKeeps
<1>8. CASE Restart \/ Stop \/ Crash \/ LoseIndex
  BY <1>0, <1>8, ProcessKeeps
<1>9. CASE WriteHeader
  BY <1>0, <1>9, WriteKeeps
<1>10. CASE StartIndex
  BY <1>0, <1>10, StartKeeps
<1>11. CASE IndexStep \/ IndexMissing \/ IndexEnd
  BY <1>0, <1>11, IndexKeeps
<1> QED
  BY <1>1, <1>2, <1>3, <1>4, <1>5, <1>6, <1>7, <1>8, <1>9, <1>10, <1>11 DEF Next, Progress

LEMMA CacheKept ==
  ASSUME Disciplined
  PROVE  Spec => []CacheInv
<1>1. CacheInv /\ [Next]_vars => CacheInv'
  BY CacheNext
<1> QED
  BY <1>1, CacheInit, PTL DEF Spec

-----------------------------------------------------------------------------
(* What follows for clients that keep to live names.                       *)

(* The number an operation counts headers by never slips (archive.go:261:  *)
(* hdrs[i - 1]): in every batch, after any history, the header taken from  *)
(* memory for a position is the one that was written there.                *)
THEOREM AlwaysPaired ==
  ASSUME Disciplined
  PROVE  Spec => []Paired
<1>1. CacheInv => Paired
  <2> SUFFICES ASSUME CacheInv, pc = "index", NEW p \in op.pos .. Len(tape)
               PROVE  p - op.base \in DOMAIN op.hdrs /\ tape[p] = op.hdrs[p - op.base]
    BY DEF Paired
  <2>1. TypeInv /\ Placed(Len(op.hdrs)) /\ op.base < op.pos
    BY DEF CacheInv, TypeInv
  <2>2. /\ op.base \in Nat /\ op.pos \in Nat /\ Len(tape) \in Nat
        /\ DOMAIN op.hdrs = 1 .. Len(op.hdrs)
    BY <2>1, TapeType DEF TypeInv, TypeOK, Op, Position
  <2>3. p \in Nat /\ op.base < p /\ p <= Len(tape)
    BY <2>1, <2>2
  <2> QED
    BY <2>1, <2>2, <2>3, TakenFromTape
<1> QED
  BY <1>1, CacheKept, PTL

(* The header an operation ignores because it was indexed before           *)
(* (archive.go:259) is the last one on the tape, after any history.        *)
THEOREM AlwaysCaughtUp ==
  ASSUME Disciplined
  PROVE  Spec => []CaughtUp
<1>1. CacheInv => CaughtUp
  BY LastIsKnown DEF CacheInv, CaughtUp
<1> QED
  BY <1>1, CacheKept, PTL

(* The index can be restored from the tape (README.md:263): between two    *)
(* operations a scan of the tape would not fail, and give the same rows.   *)
THEOREM IndexStaysReplay ==
  ASSUME Disciplined
  PROVE  Spec => []IndexIsReplay
<1>1. CacheInv => IndexIsReplay
  <2> SUFFICES ASSUME CacheInv, pc = "idle" PROVE Replay(tape) = Indexed(db)
    BY DEF IndexIsReplay
  <2>1. /\ Len(tape) \in 0 .. Len(tape) /\ tape \in Seq(Header) /\ Len(tape) \in Nat
        /\ Good(tape) /\ db = Replayed(tape)[Len(tape)].db
    BY TapeType DEF CacheInv, UpToDate
  <2>2. Replayed(tape)[Len(tape)].err = "none"
    BY <2>1 DEF Good, GoodAt
  <2>3. Replayed(tape)[Len(tape)] = Indexed(Replayed(tape)[Len(tape)].db)
    BY <2>1, <2>2, ReplayedRecord
  <2> QED
    BY <2>1, <2>3 DEF Replay
<1> QED
  BY <1>1, CacheKept, PTL

(* No call writes a header that indexing then refuses, and none finds more *)
(* headers than it has written: errors come from liberties only.           *)
THEOREM NeverFails ==
  ASSUME Disciplined
  PROVE  Spec => []NoError
<1>1. CacheInv => NoError
  BY DEF CacheInv, NoError
<1> QED
  BY <1>1, CacheKept, PTL

(* A scan of the tape, by `stfs recovery index` or by Initialize, gets     *)
(* past every header, also after the process has died within an operation. *)
THEOREM RecoveryAlwaysSucceeds ==
  ASSUME Disciplined
  PROVE  Spec => []RecoverySucceeds
<1>1. CacheInv => RecoverySucceeds
  <2> SUFFICES ASSUME CacheInv, pc = "scan", op.pos <= Len(tape)
               PROVE  Scanned.err = "none"
    BY DEF RecoverySucceeds
  <2>1. TypeInv /\ Good(tape) /\ op.pos \in Position /\ UpToDate(op.pos - 1)
    BY DEF CacheInv, TypeInv, TypeOK, Op
  <2> QED
    BY <2>1, NextIndexed DEF Scanned
<1> QED
  BY <1>1, CacheKept, PTL

-----------------------------------------------------------------------------
(* The index a crash leaves behind.                                        *)

LEMMA StaleNext ==
  ASSUME Disciplined, "overwrite" \notin Permit
  PROVE  CacheInv /\ StaleInv /\ [Next]_vars => StaleInv'
<1> SUFFICES ASSUME CacheInv, StaleInv, [Next]_vars PROVE StaleInv'
  OBVIOUS
<1>1. CacheInv'
  BY CacheNext
<1>2. /\ TypeInv /\ tape \in Seq(Header) /\ Len(tape) \in Nat
      /\ TypeInv' /\ tape' \in Seq(Header) /\ Len(tape') \in Nat
  BY <1>1 DEF CacheInv, TypeInv, TypeOK
<1>3. CASE db' = db
  <2>1. PICK i \in 0 .. Len(tape) : db = Replayed(tape)[i].db
    BY DEF StaleInv
  <2>2. CASE tape' = tape
    BY <1>3, <2>1, <2>2 DEF StaleInv
  <2>3. ASSUME NEW h \in Header, tape' = tape \o <<h>> PROVE StaleInv'
    <3>1. <<h>> \in Seq(Header) /\ Len(<<h>>) = 1
      OBVIOUS
    <3>2. Replayed(tape')[i] = Replayed(tape)[i] /\ Len(tape') = Len(tape) + 1
      <4>1. Replayed(tape \o <<h>>)[i] = Replayed(tape)[i]
        BY <1>2, <3>1, ReplayedPrefix
      <4>2. Len(tape \o <<h>>) = Len(tape) + 1
        BY <1>2, <3>1, ConcatProperties
      <4> QED
        BY <2>3, <4>1, <4>2
    <3>3. i \in 0 .. Len(tape')
      BY <1>2, <3>2
    <3> QED
      BY <1>3, <2>1, <3>2, <3>3 DEF StaleInv
  <2> QED
    BY <1>2, <2>2, <2>3, TapeExtends
<1>4. CASE db' = {}
  <2>1. Replayed(tape')[0] = Indexed({}) /\ 0 \in 0 .. Len(tape')
    BY <1>2, ReplayedDef
  <2> QED
    BY <1>4, <2>1 DEF StaleInv, Indexed
<1>5. CASE IndexStep \/ ScanStep
  <2>1. pc' \in {"idle", "index", "scan"}
    BY <1>5 DEF IndexStep, ScanStep, Finish
  <2>2. UpToDate(Len(tape))' \/ UpToDate(op.pos - 1)'
    BY <1>1, <2>1 DEF CacheInv
  <2> QED
    BY <2>2 DEF StaleInv, UpToDate
<1>6. ASSUME ScanFail PROVE FALSE
  <2>1. /\ Good(tape) /\ op.pos \in Position /\ UpToDate(op.pos - 1)
        /\ op.pos <= Len(tape) /\ Scanned.err # "none"
    BY <1>6 DEF ScanFail, CacheInv, TypeInv, TypeOK, Op
  <2> QED
    BY <1>2, <2>1, NextIndexed DEF Scanned
<1> QED
  BY <1>3, <1>4, <1>5, <1>6, OthersKeepIndex

(* The content a live row points at is the one whose size it reports, in   *)
(* every state: also while an operation is at work, and after a crash,     *)
(* when the index is behind the tape (restore.go reads from header.Record).*)
THEOREM ContentAlwaysMatches ==
  ASSUME Disciplined, "overwrite" \notin Permit
  PROVE  Spec => []ContentMatches
<1>1. Init => StaleInv
  <2> SUFFICES ASSUME Init PROVE StaleInv
    OBVIOUS
  <2>1. TypeInv /\ db = {}
    BY InitType DEF Init
  <2> QED
    BY <2>1, NothingIndexed, TapeType DEF StaleInv
<1>2. CacheInv /\ StaleInv /\ [Next]_vars => StaleInv'
  BY StaleNext
<1>3. CacheInv /\ StaleInv => ContentMatches
  <2> SUFFICES ASSUME CacheInv, StaleInv PROVE ContentMatches
    OBVIOUS
  <2>1. PICK i \in 0 .. Len(tape) : db = Replayed(tape)[i].db
    BY DEF StaleInv
  <2>2. PlainTable(db) /\ Within(db, i, i) /\ Stored(db, tape)
    BY <2>1 DEF CacheInv, Good, GoodAt, Fit
  <2>3. i <= Len(tape) /\ i \in Nat /\ Len(tape) \in Nat
    BY TapeType DEF CacheInv
  <2>4. \A r \in db : r.record <= i /\ r.record \in Nat
    BY <2>2 DEF Within, PlainTable, Table, Row, Position
  <2>5. \A r \in db : r.record <= Len(tape)
    BY <2>3, <2>4
  <2> QED
    BY <2>2, <2>5 DEF ContentMatches, Stored, Live
<1>4. Spec => []CacheInv
  BY CacheKept
<1> QED
  BY <1>1, <1>2, <1>3, <1>4, PTL DEF Spec

-----------------------------------------------------------------------------
(* Deleting.  Here clients may do what they like but make links; names are *)
(* plain.                                                                  *)

Bare(x) == x.link = NoName /\ PlainName(x.name)

NamesInv ==
  /\ \A r \in db : Bare(r)
  /\ \A i \in 1 .. Len(tape) : Bare(tape[i])
  /\ \A i \in 1 .. Len(op.hdrs) : Bare(op.hdrs[i])

(* Indexing a bare header leaves bare rows.                                *)
LEMMA IndexedBare ==
  ASSUME NEW x, Table(x), \A r \in x : Bare(r),
         NEW h \in Header, Bare(h), NEW p \in Position
  PROVE  \A r \in IndexHeader(x, p, h).db : Bare(r)
<1>1. IndexedName(h) = h.name
  BY PlainIsName DEF IndexedName, Bare
<1>2. \A record, last : Bare(TarHeaderToDBHeader(h, record, last))
  BY <1>1 DEF TarHeaderToDBHeader, Bare
<1>3. \A r \in IndexCreate(x, p, h).db : Bare(r)
  BY <1>2 DEF IndexCreate, Indexed, UpsertHeader
<1>4. \A r \in IndexDelete(x, p, h).db : Bare(r)
  <2>1. \A r \in x : [r EXCEPT !.deleted = TRUE, !.last = p].name = r.name
                     /\ [r EXCEPT !.deleted = TRUE, !.last = p].link = r.link
    BY DEF Table, Row
  <2> QED
    BY <2>1, ZenonT(40) DEF IndexDelete, Indexed, Failed, DeleteHeader, Bare
<1>5. ASSUME NEW r \in IndexEdit(x, p, h)
      PROVE  /\ Bare(r)
             /\ [r EXCEPT !.name = h.name, !.last = p].name = h.name
             /\ [r EXCEPT !.name = h.name, !.last = p].link = r.link
  <2>1. r \in x \/ \E record \in {p, GetHeader(x, OldName(h)).record} :
                     r = TarHeaderToDBHeader(h, record, p)
    BY DEF IndexEdit, UpdateHeaderMetadata
  <2>2. CASE r \in x
    BY <2>2 DEF Table, Row
  <2>3. ASSUME NEW record, r = TarHeaderToDBHeader(h, record, p)
        PROVE  /\ Bare(r)
               /\ [r EXCEPT !.name = h.name, !.last = p].name = h.name
               /\ [r EXCEPT !.name = h.name, !.last = p].link = r.link
    BY <1>2, <2>3 DEF TarHeaderToDBHeader
  <2> QED
    BY <2>1, <2>2, <2>3
<1>6. \A r \in IndexUpdate(x, p, h).db : Bare(r)
  <2> DEFINE y == IndexEdit(x, p, h)
  <2>1. \A r \in y : Bare(r)
    BY <1>5
  <2>2. \A r \in y : Bare([r EXCEPT !.name = h.name, !.last = p])
    BY <1>5 DEF Bare
  <2> HIDE DEF y
  <2>3. \A r \in MoveHeader(y, OldName(h), h.name, p) : Bare(r)
    BY <2>1, <2>2 DEF MoveHeader
  <2> QED
    BY <1>1, <2>1, <2>3 DEF IndexUpdate, Indexed, Failed, y
<1>7. h.action \in Actions
  BY DEF Header
<1> QED
  BY <1>3, <1>4, <1>6, <1>7 DEF IndexHeader, Actions

(* The headers of an entry and of what lies below it are made from rows.   *)
LEMMA RowsInHand ==
  ASSUME TypeInv, NamesInv, PlainNames, NEW n \in ClientNames, Lookup(db, n) # NoRow,
         NEW rows, rows = {} \/ rows = GetHeaderChildren(db, n),
         NEW rest \in SetToSeqs(rows)
  PROVE  LET all == <<Lookup(db, n)>> \o rest
         IN  /\ all \in Seq(db) /\ DOMAIN all = 1 .. Len(all) /\ Len(all) \in Nat
             /\ \A i \in DOMAIN all :
                  /\ all[i] \in Row /\ Bare(all[i])
                  /\ all[i].name = n \/ Below(all[i].name, n)
<1> DEFINE src == Lookup(db, n)
           S == {r \in db : r.name = n \/ Below(r.name, n)}
           all == <<src>> \o rest
<1>1. n \in Name /\ PlainName(n) /\ n # NoName
  BY UsedArePlain, OperationsAssumption, PathsAssumption
<1>2. src \in S
  <2>1. GetHeaderByLinkname(db, n) = NoRow
    <3>1. \A s \in Live(db) : s.link = NoName
      BY DEF NamesInv, Bare, Live
    <3> QED
      BY <1>1, <3>1 DEF GetHeaderByLinkname, First
  <2>2. src = GetHeader(db, n)
    BY <2>1 DEF Lookup
  <2> QED
    BY <1>1, <2>2, GetHeaderFound DEF Live
<1>3. rows \in SUBSET S
  <2>1. ASSUME NEW r \in rows PROVE r \in db /\ Below(r.name, n)
    <3>1. r \in db /\ LikeBelow(r.name, n) /\ PlainName(r.name)
      BY DEF GetHeaderChildren, Live, NamesInv, Bare
    <3> QED
      BY <1>1, <3>1, LikeIsBelow
  <2> QED
    BY <2>1
<1>4. IsFiniteSet(rows)
  BY <1>3, FS_Subset DEF TypeInv, Table
<1> HIDE DEF src
<1>5. all \in Seq(S)
  <2> HIDE DEF S
  <2> QED
    BY <1>2, <1>3, <1>4, RowsInOrder
<1> HIDE DEF all
<1>6. DOMAIN all = 1 .. Len(all) /\ Len(all) \in Nat /\ all \in Seq(db)
  BY <1>5
<1>7. \A i \in DOMAIN all : all[i] \in S
  BY <1>5, <1>6, ElementOfSeq
<1>8. \A r \in S : r \in Row /\ Bare(r)
  BY DEF TypeInv, Table, NamesInv
<1> QED
  BY <1>6, <1>7, <1>8 DEF all, src

(* What a delete writes deletes the entry and what lies below it.          *)
LEMMA DeletesOnly ==
  ASSUME TypeInv, NamesInv, PlainNames, NEW n \in ClientNames, Delete(n)
  PROVE  \E hdrs : /\ Call("delete", n, hdrs)
                   /\ \A i \in 1 .. Len(hdrs) : Deletes(hdrs[i], n) /\ Bare(hdrs[i])
<1> DEFINE src == Lookup(db, n)
           rows == IF src.type = "dir" /\ src.link = NoName
                     THEN GetHeaderChildren(db, n) ELSE {}
<1>1. src # NoRow
  BY DEF Delete
<1>2. PICK rest \in SetToSeqs(rows) :
        LET deleted == <<src>> \o rest
        IN  Call("delete", n, [i \in DOMAIN deleted |-> DeletionHeader(deleted[i])])
  BY DEF Delete
<1>3. rows = {} \/ rows = GetHeaderChildren(db, n)
  OBVIOUS
<1> HIDE DEF rows
<1> DEFINE deleted == <<src>> \o rest
           hdrs == [i \in DOMAIN deleted |-> DeletionHeader(deleted[i])]
<1>4. /\ DOMAIN deleted = 1 .. Len(deleted) /\ Len(deleted) \in Nat
      /\ \A i \in DOMAIN deleted :
           Bare(deleted[i]) /\ (deleted[i].name = n \/ Below(deleted[i].name, n))
  BY <1>1, <1>3, RowsInHand
<1>5. Call("delete", n, hdrs)
  BY <1>2
<1> HIDE DEF deleted
<1>6. Len(hdrs) = Len(deleted)
  BY <1>4
<1>7. \A i \in 1 .. Len(hdrs) : hdrs[i] = DeletionHeader(deleted[i])
  BY <1>4, <1>6
<1> HIDE DEF hdrs
<1>8. ASSUME NEW i \in 1 .. Len(hdrs) PROVE Deletes(hdrs[i], n) /\ Bare(hdrs[i])
  <2>1. /\ hdrs[i] = DeletionHeader(deleted[i])
        /\ Bare(deleted[i]) /\ (deleted[i].name = n \/ Below(deleted[i].name, n))
    BY <1>4, <1>6, <1>7
  <2>2. /\ hdrs[i].action = "delete" /\ hdrs[i].name = deleted[i].name
        /\ hdrs[i].link = deleted[i].link
    BY <2>1 DEF DeletionHeader, HeaderOfRow
  <2> QED
    BY <2>1, <2>2 DEF Deletes, Bare
<1> QED
  BY <1>5, <1>8

(* Whatever a call or a start writes is bare.                              *)
LEMMA BeginBare ==
  ASSUME NEW kind, NEW target, NEW hdrs, NEW overwrite, NEW truncate,
         Begin(kind, target, hdrs, overwrite, truncate), NamesInv,
         \A i \in 1 .. Len(hdrs) : Bare(hdrs[i])
  PROVE  /\ op'.kind = kind /\ op'.target = target /\ op'.hdrs = hdrs
         /\ \A i \in 1 .. Len(tape') : Bare(tape'[i])
         /\ \A i \in 1 .. Len(op'.hdrs) : Bare(op'.hdrs[i])
  BY DEF Begin, NamesInv

LEMMA SourcesBare ==
  ASSUME PlainNames, "symlink" \notin Permit, NEW srcs \in Batches,
         \A i \in DOMAIN srcs : Allowed(srcs[i]), NEW skip \in BOOLEAN
  PROVE  /\ \A i \in 1 .. Len([j \in DOMAIN srcs |-> ArchiveHeader(srcs[j])]) :
              Bare([j \in DOMAIN srcs |-> ArchiveHeader(srcs[j])][i])
         /\ \A i \in 1 .. Len([j \in DOMAIN srcs |-> ContentHeader(srcs[j], skip)]) :
              Bare([j \in DOMAIN srcs |-> ContentHeader(srcs[j], skip)][i])
         /\ \A i \in 1 .. Len([j \in DOMAIN srcs |-> LocalHeader(srcs[j])]) :
              Bare([j \in DOMAIN srcs |-> LocalHeader(srcs[j])][i])
<1>1. PICK k \in Nat : DOMAIN srcs = 1 .. k /\ srcs \in [1 .. k -> Sources]
  BY BatchOfSources
<1>2. \A i \in 1 .. k : Bare(srcs[i])
  BY <1>1, SourceIsPlain DEF Bare
<1>3. \A i \in 1 .. k : /\ Bare(ArchiveHeader(srcs[i])) /\ Bare(LocalHeader(srcs[i]))
                        /\ Bare(ContentHeader(srcs[i], skip))
  BY <1>2 DEF Bare, ArchiveHeader, LocalHeader, ContentHeader
<1> QED
  BY <1>1, <1>3

LEMMA RootBare ==
  ASSUME PlainNames, NEW mode
  PROVE  \A i \in 1 .. Len(<<RootHeader(mode)>>) : Bare(<<RootHeader(mode)>>[i])
<1>1. Bare(RootHeader(mode))
  BY UsedArePlain DEF RootHeader, ArchiveHeader, Bare
<1> QED
  BY <1>1

(* A call that is no delete.                                               *)
Other ==
  \/ \E srcs \in Batches : Archive(srcs) \/ ArchiveOverwriting(srcs)
  \/ \E srcs \in Batches, skip \in BOOLEAN : UpdateContent(srcs, skip)
  \/ \E row \in db, mode \in Modes : UpdateMetadata(row, mode)
  \/ \E srcs \in Batches : UpdateLocal(srcs)
  \/ \E from, to \in ClientNames : Move(from, to)
  \/ InitializeFresh \/ Initialize
  \/ ScanFail /\ pc' = "write"

LEMMA OtherBare ==
  ASSUME TypeInv, NamesInv, PlainNames, "symlink" \notin Permit, Other
  PROVE  \E kind, target, hdrs, overwrite, truncate :
           /\ Begin(kind, target, hdrs, overwrite, truncate) /\ kind # "delete"
           /\ \A i \in 1 .. Len(hdrs) : Bare(hdrs[i])
<1>1. ASSUME NEW srcs \in Batches, Archive(srcs) \/ ArchiveOverwriting(srcs)
      PROVE  \E overwrite, truncate :
               Begin("archive", srcs[1].name, [i \in DOMAIN srcs |-> ArchiveHeader(srcs[i])],
                     overwrite, truncate)
             /\ \A i \in DOMAIN srcs : Allowed(srcs[i])
  BY <1>1 DEF Archive, ArchiveOverwriting, Call
<1>2. ASSUME NEW srcs \in Batches, Archive(srcs) \/ ArchiveOverwriting(srcs)
      PROVE  \A i \in 1 .. Len([j \in DOMAIN srcs |-> ArchiveHeader(srcs[j])]) :
               Bare([j \in DOMAIN srcs |-> ArchiveHeader(srcs[j])][i])
  BY <1>1, <1>2, SourcesBare
<1>3. ASSUME NEW srcs \in Batches, NEW skip \in BOOLEAN, UpdateContent(srcs, skip)
      PROVE  \E hdrs : /\ Begin("update", srcs[1].name, hdrs, FALSE, FALSE)
                       /\ \A i \in 1 .. Len(hdrs) : Bare(hdrs[i])
  <2>1. /\ Begin("update", srcs[1].name, [i \in DOMAIN srcs |-> ContentHeader(srcs[i], skip)],
                 FALSE, FALSE)
        /\ \A i \in DOMAIN srcs : Allowed(srcs[i])
    BY <1>3 DEF UpdateContent, Call
  <2> QED
    BY <2>1, SourcesBare
<1>4. ASSUME NEW srcs \in Batches, UpdateLocal(srcs)
      PROVE  \E hdrs : /\ Begin("update", srcs[1].name, hdrs, FALSE, FALSE)
                       /\ \A i \in 1 .. Len(hdrs) : Bare(hdrs[i])
  <2>1. /\ Begin("update", srcs[1].name, [i \in DOMAIN srcs |-> LocalHeader(srcs[i])],
                 FALSE, FALSE)
        /\ \A i \in DOMAIN srcs : Allowed(srcs[i])
    BY <1>4 DEF UpdateLocal, Call
  <2> QED
    BY <2>1, SourcesBare
<1>5. ASSUME NEW row \in db, NEW mode \in Modes, UpdateMetadata(row, mode)
      PROVE  \E hdrs : /\ Begin("update", row.name, hdrs, FALSE, FALSE)
                       /\ \A i \in 1 .. Len(hdrs) : Bare(hdrs[i])
  <2>1. Begin("update", row.name, <<MetadataHeader(row, mode)>>, FALSE, FALSE)
    BY <1>5 DEF UpdateMetadata, Call
  <2> DEFINE hdrs == <<MetadataHeader(row, mode)>>
  <2>2. Bare(MetadataHeader(row, mode))
    BY DEF NamesInv, Bare, MetadataHeader
  <2>3. \A i \in 1 .. Len(hdrs) : Bare(hdrs[i])
    BY <2>2
  <2>4. Begin("update", row.name, hdrs, FALSE, FALSE)
    BY <2>1
  <2> HIDE DEF hdrs
  <2> QED
    BY <2>3, <2>4
<1>6. ASSUME NEW from \in ClientNames, NEW to \in ClientNames, Move(from, to)
      PROVE  \E hdrs : /\ Begin("move", from, hdrs, FALSE, FALSE)
                       /\ \A i \in 1 .. Len(hdrs) : Bare(hdrs[i])
  <2> DEFINE src == Lookup(db, from)
             rows == IF src.type = "dir" THEN GetHeaderChildren(db, from) ELSE {}
  <2>1. src # NoRow
    BY <1>6 DEF Move
  <2>2. PICK rest \in SetToSeqs(rows) :
          LET moved == <<src>> \o rest
          IN  Call("move", from, [i \in DOMAIN moved |-> RenameHeader(moved[i], from, to)])
    BY <1>6 DEF Move
  <2>3. rows = {} \/ rows = GetHeaderChildren(db, from)
    OBVIOUS
  <2> HIDE DEF rows
  <2> DEFINE moved == <<src>> \o rest
             hdrs == [i \in DOMAIN moved |-> RenameHeader(moved[i], from, to)]
  <2>4. /\ DOMAIN moved = 1 .. Len(moved) /\ Len(moved) \in Nat
        /\ \A i \in DOMAIN moved : Bare(moved[i])
    BY <2>1, <2>3, RowsInHand
  <2>5. Call("move", from, hdrs)
    BY <2>2
  <2> HIDE DEF moved
  <2>6. Len(hdrs) = Len(moved)
    BY <2>4
  <2>7. \A i \in 1 .. Len(hdrs) : hdrs[i] = RenameHeader(moved[i], from, to)
    BY <2>4, <2>6
  <2> HIDE DEF hdrs
  <2>8. PlainName(from) /\ PlainName(to)
    BY UsedArePlain
  <2>9. ASSUME NEW i \in 1 .. Len(hdrs) PROVE Bare(hdrs[i])
    <3>1. Bare(moved[i]) /\ hdrs[i] = RenameHeader(moved[i], from, to)
      BY <2>4, <2>6, <2>7
    <3>2. PlainName(Rebase(moved[i].name, from, to))
      BY <2>8, <3>1, RebaseIsPlain DEF Bare
    <3> QED
      BY <3>1, <3>2 DEF RenameHeader, HeaderOfRow, Bare
  <2> QED
    BY <2>5, <2>9 DEF Call
<1>7. ASSUME InitializeFresh \/ Initialize \/ (ScanFail /\ pc' = "write")
      PROVE  \E hdrs, truncate : /\ Begin("initialize", Root, hdrs, TRUE, truncate)
                                 /\ \A i \in 1 .. Len(hdrs) : Bare(hdrs[i])
  <2>1. \E mode, truncate : Begin("initialize", Root, <<RootHeader(mode)>>, TRUE, truncate)
    BY <1>7 DEF InitializeFresh, Initialize, ScanFail, MkdirRoot
  <2> QED
    BY <2>1, RootBare
<1>8. "archive" # "delete" /\ "update" # "delete" /\ "move" # "delete"
      /\ "initialize" # "delete"
  OBVIOUS
<1>9. ASSUME NEW srcs \in Batches, Archive(srcs) \/ ArchiveOverwriting(srcs)
      PROVE  \E hdrs, overwrite, truncate :
               /\ Begin("archive", srcs[1].name, hdrs, overwrite, truncate)
               /\ \A i \in 1 .. Len(hdrs) : Bare(hdrs[i])
  BY <1>1, <1>2, <1>9
<1>10. CASE \E srcs \in Batches : Archive(srcs) \/ ArchiveOverwriting(srcs)
  BY <1>8, <1>9, <1>10
<1>11. CASE \/ \E srcs \in Batches, skip \in BOOLEAN : UpdateContent(srcs, skip)
            \/ \E row \in db, mode \in Modes : UpdateMetadata(row, mode)
            \/ \E srcs \in Batches : UpdateLocal(srcs)
  BY <1>3, <1>4, <1>5, <1>8, <1>11
<1>12. CASE \E from, to \in ClientNames : Move(from, to)
  BY <1>6, <1>8, <1>12
<1>13. CASE InitializeFresh \/ Initialize \/ (ScanFail /\ pc' = "write")
  BY <1>7, <1>8, <1>13
<1> QED
  BY <1>10, <1>11, <1>12, <1>13 DEF Other

(* What a delete has in memory deletes its target and what is below it.    *)
DeleteInv ==
  pc \in {"write", "index"} /\ op.kind = "delete" =>
    \A i \in 1 .. Len(op.hdrs) : Deletes(op.hdrs[i], op.target)

(* An operation that goes on keeps its headers, and one that ends has none *)
(* in memory.                                                              *)
LEMMA OthersKeepHeaders ==
  ASSUME TypeInv, [Next]_vars, ~Other, \A n \in ClientNames : ~Delete(n)
  PROVE  /\ \/ op'.hdrs = op.hdrs /\ op'.kind = op.kind /\ op'.target = op.target
               /\ (pc' \in {"write", "index"} => pc \in {"write", "index"})
            \/ op'.hdrs = <<>> /\ pc' \notin {"write", "index"}
         /\ tape' = tape \/ WriteHeader
<1>0. op \in Op
  BY DEF TypeInv, TypeOK
<1>1. CASE WriteHeader \/ StartIndex
  BY <1>0, <1>1 DEF WriteHeader, StartIndex, Op
<1>2. CASE IndexStep
  BY <1>0, <1>2 DEF IndexStep, Finish, NoOp, Op
<1>3. CASE IndexMissing \/ IndexEnd
  BY <1>3 DEF IndexMissing, IndexEnd, Finish, NoOp
<1>4. CASE ScanStep \/ ScanEnd
  BY <1>0, <1>4 DEF ScanStep, ScanEnd, NoOp, Op
<1>5. CASE ScanFail
  <2>1. pc' # "write"
    BY <1>5 DEF Other
  <2> QED
    BY <1>5, <2>1 DEF ScanFail, MkdirRoot, Begin, NoOp
<1>6. CASE InitializeScan \/ \E purge \in BOOLEAN : RecoveryIndex(purge)
  BY <1>6 DEF InitializeScan, RecoveryIndex, Scan, NoOp
<1>7. CASE Restart \/ Stop \/ Crash \/ LoseIndex
  BY <1>7 DEF Restart, Stop, Crash, LoseIndex, NoOp
<1>8. CASE UNCHANGED vars
  BY <1>8 DEF vars
<1> QED
  BY <1>1, <1>2, <1>3, <1>4, <1>5, <1>6, <1>7, <1>8 DEF Next, Progress, Other

LEMMA NamesNext ==
  ASSUME PlainNames, "symlink" \notin Permit, TypeInv, TypeInv', NamesInv, DeleteInv,
         [Next]_vars
  PROVE  NamesInv' /\ DeleteInv'
<1>1. \A r \in db' : Bare(r)
  <2>1. CASE db' = db \/ db' = {}
    BY <2>1 DEF NamesInv
  <2>2. ASSUME NEW h \in Header, Bare(h), op.pos \in Position,
               db' = IndexHeader(db, op.pos, h).db
        PROVE  \A r \in db' : Bare(r)
    BY <2>2, IndexedBare DEF NamesInv, TypeInv
  <2>3. CASE IndexStep
    <3>1. /\ op \in Op /\ op.pos - op.base \in 1 .. Len(op.hdrs) /\ op.pos \in Position
          /\ db' = IndexHeader(db, op.pos, op.hdrs[op.pos - op.base]).db
      BY <2>3 DEF IndexStep, TypeInv, TypeOK, Op, Position
    <3>2. op.hdrs[op.pos - op.base] \in Header /\ Bare(op.hdrs[op.pos - op.base])
      BY <3>1, ElementOfSeq DEF Op, NamesInv
    <3> QED
      BY <2>2, <3>1, <3>2
  <2>4. CASE ScanStep \/ ScanFail
    <3>1. /\ op.pos \in 1 .. Len(tape) /\ op.pos \in Position /\ tape \in Seq(Header)
          /\ db' = IndexHeader(db, op.pos, tape[op.pos]).db
      BY <2>4 DEF ScanStep, ScanFail, Scanned, TypeInv, TypeOK, Op, Position
    <3>2. tape[op.pos] \in Header /\ Bare(tape[op.pos])
      BY <3>1, ElementOfSeq DEF NamesInv
    <3> QED
      BY <2>2, <3>1, <3>2
  <2> QED
    BY <2>1, <2>3, <2>4, OthersKeepIndex
<1>2. CASE Other
  <2>1. PICK kind, target, hdrs, overwrite, truncate :
          /\ Begin(kind, target, hdrs, overwrite, truncate) /\ kind # "delete"
          /\ \A i \in 1 .. Len(hdrs) : Bare(hdrs[i])
    BY <1>2, OtherBare
  <2> QED
    BY <1>1, <2>1, BeginBare DEF NamesInv, DeleteInv
<1>3. ASSUME NEW n \in ClientNames, Delete(n) PROVE NamesInv' /\ DeleteInv'
  <2>1. PICK hdrs :
          /\ Call("delete", n, hdrs)
          /\ \A i \in 1 .. Len(hdrs) : Deletes(hdrs[i], n) /\ Bare(hdrs[i])
    BY <1>3, DeletesOnly
  <2>2. Begin("delete", n, hdrs, FALSE, FALSE)
    BY <2>1 DEF Call
  <2>3. /\ op'.target = n /\ op'.hdrs = hdrs
        /\ \A i \in 1 .. Len(tape') : Bare(tape'[i])
        /\ \A i \in 1 .. Len(op'.hdrs) : Bare(op'.hdrs[i])
    BY <2>1, <2>2, BeginBare
  <2>4. DeleteInv'
    BY <2>1, <2>3 DEF DeleteInv
  <2> QED
    BY <1>1, <2>3, <2>4 DEF NamesInv
<1>4. CASE ~Other /\ \A n \in ClientNames : ~Delete(n)
  <2>1. /\ \/ op'.hdrs = op.hdrs /\ op'.kind = op.kind /\ op'.target = op.target
              /\ (pc' \in {"write", "index"} => pc \in {"write", "index"})
           \/ op'.hdrs = <<>> /\ pc' \notin {"write", "index"}
        /\ tape' = tape \/ WriteHeader
    BY <1>4, OthersKeepHeaders
  <2>2. \A i \in 1 .. Len(op'.hdrs) : Bare(op'.hdrs[i])
    BY <2>1 DEF NamesInv
  <2>3. \A i \in 1 .. Len(tape') : Bare(tape'[i])
    <3>1. CASE tape' = tape
      BY <3>1 DEF NamesInv
    <3>2. CASE WriteHeader
      <4>1. /\ op.hdrs \in Seq(Header) /\ op.written + 1 \in 1 .. Len(op.hdrs)
            /\ tape \in Seq(Header)
        BY <3>2 DEF WriteHeader, TypeInv, TypeOK, Op
      <4>2. /\ tape' = Append(tape, op.hdrs[op.written + 1])
            /\ Bare(op.hdrs[op.written + 1])
        BY <3>2, <4>1 DEF WriteHeader, NamesInv
      <4>3. op.hdrs[op.written + 1] \in Header
        BY <4>1, ElementOfSeq
      <4>4. /\ Len(tape') = Len(tape) + 1 /\ Len(tape) \in Nat
            /\ \A i \in 1 .. Len(tape') :
                 tape'[i] = IF i = Len(tape) + 1 THEN op.hdrs[op.written + 1] ELSE tape[i]
        BY <4>1, <4>2, <4>3
      <4>5. \A i \in 1 .. Len(tape') : i = Len(tape) + 1 \/ i \in 1 .. Len(tape)
        BY <4>4
      <4> QED
        BY <4>2, <4>4, <4>5 DEF NamesInv
    <3> QED
      BY <2>1, <3>1, <3>2
  <2>4. DeleteInv'
    BY <2>1 DEF DeleteInv
  <2> QED
    BY <1>1, <2>2, <2>3, <2>4 DEF NamesInv
<1> QED
  BY <1>2, <1>3, <1>4

(* A header that deletes one entry leaves all the others live.             *)
LEMMA OneDeleted ==
  ASSUME NEW x, NEW p, NEW h, h.action = "delete", PlainName(h.name),
         NEW r \in Live(x), r.name # h.name
  PROVE  r \in Live(IndexHeader(x, p, h).db)
<1>1. IndexedName(h) = h.name /\ h.name \in Name
  BY PlainIsName DEF IndexedName
<1>2. IndexHeader(x, p, h) = IndexDelete(x, p, h)
  BY DEF IndexHeader
<1>3. CASE GetHeader(x, h.name) = NoRow
  BY <1>1, <1>2, <1>3 DEF IndexDelete, Failed
<1>4. CASE GetHeader(x, h.name) # NoRow
  <2>1. GetHeader(x, h.name).name = h.name
    BY <1>1, <1>4, GetHeaderFound
  <2>2. r \in DeleteHeader(x, h.name, p)
    BY <2>1 DEF DeleteHeader, Live
  <2> QED
    BY <1>1, <1>2, <1>4, <2>2 DEF IndexDelete, Indexed, Live
<1> QED
  BY <1>3, <1>4

(* Deleting takes away the entry and what lies below it, header by header, *)
(* and never anything else (delete.go gathers the children by a pattern;   *)
(* persisters/metadata.go marks one row for each header): also on an index *)
(* that is behind the tape, twice scanned, or whose entries were renamed   *)
(* onto each other.  With a link, a name that ends in the suffix, or one   *)
(* whose pattern matches more than itself (a letter of other case, or _    *)
(* and % , also for a slash) it takes away another entry: PlainNames has   *)
(* none of these.                                                          *)
THEOREM DeleteAlwaysSpares ==
  ASSUME PlainNames, "symlink" \notin Permit
  PROVE  Spec => DeleteSparesOthers
<1> DEFINE Inv == TypeInv /\ NamesInv /\ DeleteInv
           Spares ==
             pc = "index" /\ op.kind = "delete" =>
               \A r \in Live(db) :
                 \/ r.link # NoName \/ r.name = op.target \/ Below(r.name, op.target)
                 \/ \E s \in Live(db') : SameKey(r, s)
<1>1. Inv /\ [Next]_vars => [Spares]_vars
  <2> SUFFICES ASSUME TypeInv, DeleteInv, [Next]_vars, pc = "index", op.kind = "delete",
                      NEW r \in Live(db), r.name # op.target, ~Below(r.name, op.target),
                      ~UNCHANGED vars
               PROVE  r \in Live(db')
    BY DEF SameKey
  <2>1. CASE IndexStep
    <3>1. /\ op \in Op /\ op.pos - op.base \in 1 .. Len(op.hdrs)
          /\ db' = IndexHeader(db, op.pos, op.hdrs[op.pos - op.base]).db
      BY <2>1 DEF IndexStep, TypeInv, TypeOK, Op, Position
    <3>2. Deletes(op.hdrs[op.pos - op.base], op.target)
      BY <3>1 DEF DeleteInv
    <3> QED
      BY <3>1, <3>2, OneDeleted DEF Deletes
  <2>2. CASE ~IndexStep
    <3>1. db' = db
      BY <2>2 DEF Next, Progress, Archive, CanArchive, ArchiveOverwriting, UpdateContent,
                  UpdateMetadata, UpdateLocal, Move, Delete, Restart, InitializeScan,
                  InitializeFresh, Initialize, RecoveryIndex, WriteHeader, StartIndex,
                  IndexMissing, IndexEnd, ScanStep, ScanFail, ScanEnd, Stop, Crash, LoseIndex
    <3> QED
      BY <3>1
  <2> QED
    BY <2>1, <2>2
<1>2. Init => Inv
  BY InitType DEF Init, NoOp, NamesInv, DeleteInv
<1>3. Inv /\ [Next]_vars => Inv'
  BY NextType, NamesNext
<1> QED
  BY <1>1, <1>2, <1>3, PTL DEF Spec, DeleteSparesOthers

-----------------------------------------------------------------------------
(* One header, one change.                                                 *)

(* The files on a tape are what clients see of the index it yields.        *)
LEMMA FilesAreEntries ==
  ASSUME NEW t \in Seq(Header), Good(t)
  PROVE  FilesOn(t) = Entries(Replayed(t)[Len(t)].db)
<1> DEFINE x == Replayed(t)[Len(t)].db
           N == {r.name : r \in Live(x)}
           E(n) == LET r == GetHeader(x, n)
                   IN  [type |-> r.type, mode |-> r.mode, data |-> t[r.record].data]
<1>1. Len(t) \in 0 .. Len(t)
  BY LenProperties
<1>2. Fit(x, t, Len(t))
  BY <1>1 DEF Good, GoodAt
<1>3. FilesOn(t) = [n \in N |-> E(n)]
  BY DEF FilesOn, Replay
<1> HIDE DEF x
<1>4. ASSUME NEW n \in N PROVE E(n) = Seen(GetHeader(x, n))
  <2>1. PICK r \in Live(x) : r.name = n
    OBVIOUS
  <2>2. GetHeader(x, n) = r
    BY <1>2, <2>1, LiveIsFound DEF Fit
  <2>3. t[r.record].data = r.size
    BY <1>2 DEF Fit, Stored
  <2> QED
    BY <2>2, <2>3 DEF Seen
<1>5. Entries(x) = [n \in N |-> Seen(GetHeader(x, n))]
  BY DEF Entries
<1> HIDE DEF N, E
<1> QED
  BY <1>3, <1>4, <1>5 DEF x

(* The change a header stands for is the effect it has.                    *)
LEMMA ChangeIsEffect ==
  ASSUME NEW f, NEW h
  PROVE  Store!Change(f, Change(h)) = Effect(f, h)
<1>1. CASE h.action = "delete"
  BY <1>1 DEF Store!Change, Store!Without, Change, Effect
<1>2. CASE h.action # "delete" /\ h.from # NoName
  BY <1>2 DEF Store!Change, Change, Effect
<1>3. CASE h.action # "delete" /\ h.from = NoName
  BY <1>3 DEF Store!Change, Change, Effect, Seen
<1> QED
  BY <1>1, <1>2, <1>3

-----------------------------------------------------------------------------
(* The invariant.                                                          *)

StoreInv == CacheInv /\ files = FilesOn(tape)

(* Writing a header carries out the next change.                           *)
LEMMA WriteIsStep ==
  ASSUME StoreInv, CacheInv', files' = FilesOn(tape'), WriteHeader
  PROVE  Store!Step
<1> DEFINE n == Len(op.hdrs) - op.written
           h == op.hdrs[op.written + 1]
           C == {Change(op.hdrs[i]) : i \in 1 .. Len(op.hdrs)}
<1>1. /\ op.hdrs \in Seq(Header) /\ op.written \in Nat /\ op.written < Len(op.hdrs)
      /\ Len(op.hdrs) \in Nat /\ pc = "write" /\ pc' = "write"
      /\ tape \in Seq(Header) /\ tape' \in Seq(Header) /\ Len(tape) \in Nat
      /\ op'.hdrs = op.hdrs /\ op'.written = op.written + 1
      /\ h \in Header /\ tape' = Append(tape, h)
      /\ Good(tape) /\ Good(tape')
  <2>1. /\ op \in Op /\ tape \in Seq(Header) /\ tape' \in Seq(Header) /\ Len(tape) \in Nat
        /\ Good(tape) /\ Good(tape')
    BY TapeType DEF StoreInv, CacheInv, TypeInv, TypeOK
  <2>2. op.hdrs \in Seq(Header) /\ op.written \in Nat /\ Len(op.hdrs) \in Nat
    BY <2>1 DEF Op
  <2>3. op.written < Len(op.hdrs) /\ op' = [op EXCEPT !.written = op.written + 1]
    BY DEF WriteHeader
  <2>4. op.written + 1 \in 1 .. Len(op.hdrs)
    BY <2>2, <2>3
  <2>5. h \in Header
    BY <2>2, <2>4, ElementOfSeq
  <2>6. op'.hdrs = op.hdrs /\ op'.written = op.written + 1
    BY <2>1, <2>3 DEF Op
  <2> QED
    BY <2>1, <2>2, <2>3, <2>5, <2>6 DEF WriteHeader
<1>2. n \in Nat /\ n > 0
  BY <1>1
<1>3. /\ PendingChanges = [i \in 1 .. n |-> Change(op.hdrs[op.written + i])]
      /\ PendingChanges' = [i \in 1 .. n - 1 |-> Change(op.hdrs[op.written + 1 + i])]
  <2>1. Len(op.hdrs) - (op.written + 1) = n - 1
    BY <1>1
  <2> QED
    BY <1>1, <2>1 DEF PendingChanges
<1>4. PendingChanges \in [1 .. n -> C]
  <2>1. \A i \in 1 .. n : op.written + i \in 1 .. Len(op.hdrs)
    BY <1>1
  <2> QED
    BY <1>3, <2>1
<1> HIDE DEF n, C
<1>5. PendingChanges \in Seq(C) /\ Len(PendingChanges) = n /\ PendingChanges # <<>>
  <2>1. PendingChanges \in Seq(C) /\ Len(PendingChanges) = n
    BY <1>2, <1>4, FunctionIsSeq
  <2> QED
    BY <1>2, <2>1
<1>6. Head(PendingChanges) = Change(h)
  <2>1. Head(PendingChanges) = PendingChanges[1]
    BY <1>5
  <2>2. 1 \in 1 .. n
    BY <1>2
  <2> QED
    BY <1>3, <2>1, <2>2
<1>7. PendingChanges' = Tail(PendingChanges)
  <2>1. /\ Tail(PendingChanges) \in Seq(C) /\ Len(Tail(PendingChanges)) = n - 1
        /\ \A i \in 1 .. n - 1 : Tail(PendingChanges)[i] = PendingChanges[i + 1]
    BY <1>5, HeadTailProperties
  <2> DEFINE w == op.written
             rest == PendingChanges'
  <2>2. w \in Nat /\ n - 1 \in Nat
    BY <1>1, <1>2
  <2>3. ASSUME NEW i \in 1 .. n - 1
        PROVE  /\ i + 1 \in 1 .. n /\ w + (i + 1) = w + 1 + i
               /\ w + 1 + i \in 1 .. Len(op.hdrs)
    <3>1. n = Len(op.hdrs) - w /\ Len(op.hdrs) \in Nat
      BY <1>1 DEF n
    <3> HIDE DEF w
    <3> QED
      BY <1>2, <2>2, <3>1
  <2>4. \A i \in 1 .. n - 1 : Tail(PendingChanges)[i] = rest[i]
    BY <1>3, <2>1, <2>3
  <2>5. rest \in [1 .. n - 1 -> C]
    BY <1>3, <2>3 DEF C
  <2> HIDE DEF rest
  <2>6. rest \in Seq(C) /\ Len(rest) = n - 1
    BY <2>2, <2>5, FunctionIsSeq
  <2>7. rest = Tail(PendingChanges)
    BY <2>1, <2>4, <2>6, SeqEqual
  <2> QED
    BY <2>7 DEF rest
<1> HIDE DEF h
<1>8. files' = Effect(files, h)
  <2> DEFINE k == Len(tape) + 1
  <2>1. /\ k \in 0 .. Len(tape') /\ k > 0 /\ Len(tape') = k /\ k - 1 = Len(tape)
        /\ tape'[k] = h /\ Len(tape) \in 0 .. Len(tape)
    BY <1>1, AppendProperties
  <2>2. tape' = tape \o <<h>> /\ <<h>> \in Seq(Header)
    BY <1>1, AppendIsConcat
  <2>3. Replayed(tape')[Len(tape)] = Replayed(tape)[Len(tape)]
    <3>1. tape \in Seq(Header) /\ Len(tape) \in 0 .. Len(tape)
      BY <1>1, <2>1
    <3>2. Replayed(tape \o <<h>>)[Len(tape)] = Replayed(tape)[Len(tape)]
      BY <2>2, <3>1, ReplayedPrefix
    <3> QED
      BY <2>2, <3>2
  <2> HIDE DEF k
  <2>4. Does(Replayed(tape')[k - 1].db, tape'[k], Replayed(tape')[k].db)
    BY <1>1, <2>1 DEF Good, GoodAt
  <2>5. /\ files = Entries(Replayed(tape)[Len(tape)].db)
        /\ files' = Entries(Replayed(tape')[Len(tape')].db)
    BY <1>1, FilesAreEntries DEF StoreInv
  <2> QED
    BY <2>1, <2>3, <2>4, <2>5 DEF Does
<1> QED
  BY <1>5, <1>6, <1>7, <1>8, ChangeIsEffect DEF Store!Step

-----------------------------------------------------------------------------
(* A call begins.                                                          *)

(* The changes that headers stand for.                                     *)
Changes(hdrs) == [i \in 1 .. Len(hdrs) |-> Change(hdrs[i])]

(* What a call is to do is what its headers stand for.                     *)
LEMMA CallPends ==
  ASSUME pc # "write", NEW kind, NEW target, NEW hdrs \in Seq(Header), Len(hdrs) > 0,
         NEW overwrite, NEW truncate, Begin(kind, target, hdrs, overwrite, truncate)
  PROVE  /\ PendingChanges = <<>> /\ PendingChanges' = Changes(hdrs)
         /\ PendingChanges' # <<>> /\ Len(PendingChanges') = Len(hdrs)
<1>1. /\ pc' = "write" /\ op'.hdrs = hdrs /\ op'.written = 0
      /\ Len(hdrs) \in Nat
  BY DEF Begin
<1>2. PendingChanges = <<>>
  BY DEF PendingChanges
<1>3. PendingChanges' = Changes(hdrs)
  <2>1. Len(hdrs) - 0 = Len(hdrs) /\ \A i \in 1 .. Len(hdrs) : 0 + i = i
    BY <1>1
  <2>2. PendingChanges' = [i \in 1 .. Len(hdrs) - 0 |-> Change(hdrs[0 + i])]
    BY <1>1 DEF PendingChanges
  <2> QED
    BY <2>1, <2>2 DEF Changes
<1>4. Len(Changes(hdrs)) = Len(hdrs) /\ Changes(hdrs) # <<>>
  <2> DEFINE C == {Change(hdrs[i]) : i \in 1 .. Len(hdrs)}
  <2>1. Changes(hdrs) \in [1 .. Len(hdrs) -> C]
    BY DEF Changes
  <2> HIDE DEF C
  <2>2. Changes(hdrs) \in Seq(C) /\ Len(Changes(hdrs)) = Len(hdrs)
    BY <1>1, <2>1, FunctionIsSeq
  <2> QED
    BY <2>2
<1> QED
  BY <1>2, <1>3, <1>4

StoreTargets == ClientNames \cup {s.name : s \in Sources} \cup {Root}
StoreEntry == [type : Types, mode : Modes, data : Sizes]

(* A header that puts a source or the root on the tape.                    *)
Puts(h) ==
  /\ h.action # "delete" /\ h.from = NoName /\ h.name \in StoreTargets
  /\ [type |-> h.type, mode |-> h.mode, data |-> h.size] \in StoreEntry

LEMMA PutsAreStored ==
  ASSUME StoreInv, tape' = tape, files' = files, pc # "write",
         NEW kind, NEW target, NEW hdrs \in Seq(Header), Len(hdrs) > 0,
         NEW overwrite, NEW truncate, Begin(kind, target, hdrs, overwrite, truncate),
         \A i \in 1 .. Len(hdrs) : Puts(hdrs[i])
  PROVE  Store!Call
<1> DEFINE P == [do : {"put"}, name : StoreTargets \cup DOMAIN files, entry : StoreEntry]
<1>1. /\ PendingChanges = <<>> /\ PendingChanges' = Changes(hdrs)
      /\ PendingChanges' # <<>> /\ Len(hdrs) \in Nat
  BY CallPends
<1>2. ASSUME NEW i \in 1 .. Len(hdrs) PROVE Change(hdrs[i]) \in P
  BY DEF Puts, Change
<1>3. Changes(hdrs) \in [1 .. Len(hdrs) -> P]
  BY <1>2 DEF Changes
<1>4. Changes(hdrs) \in Seq(P)
  <2> HIDE DEF P
  <2> QED
    BY <1>1, <1>3, FunctionIsSeq
<1>5. Store!StoreFiles
  BY <1>1, <1>4 DEF Store!StoreFiles, StoreTargets, StoreEntry
<1> QED
  BY <1>1, <1>5 DEF Store!Call

LEMMA SourcesAreStored ==
  ASSUME Disciplined, StoreInv, tape' = tape, files' = files, NEW srcs \in Batches,
         Archive(srcs) \/ \E skip \in BOOLEAN : UpdateContent(srcs, skip)
  PROVE  Store!Call
<1>1. PICK k \in Nat : k > 0 /\ DOMAIN srcs = 1 .. k /\ srcs \in [1 .. k -> Sources]
  BY BatchOfSources
<1>2. \A i \in 1 .. k : srcs[i] \in Source /\ srcs[i].name \in StoreTargets
  BY <1>1, SourceType DEF StoreTargets
<1>3. CASE Archive(srcs)
  <2> DEFINE hdrs == [i \in 1 .. k |-> ArchiveHeader(srcs[i])]
  <2>1. pc # "write" /\ Begin("archive", srcs[1].name, hdrs, FALSE, FALSE)
    BY <1>1, <1>3 DEF Archive, CanArchive, Call
  <2>2. \A i \in 1 .. k : hdrs[i] \in Header /\ Puts(hdrs[i])
    BY <1>2, SourceHeaders DEF Source, ArchiveHeader, Puts, StoreEntry
  <2>3. hdrs \in [1 .. k -> Header]
    BY <2>2
  <2> HIDE DEF hdrs
  <2>4. hdrs \in Seq(Header) /\ Len(hdrs) = k
    BY <1>1, <2>3, FunctionIsSeq
  <2> QED
    BY <1>1, <2>1, <2>2, <2>4, PutsAreStored
<1>4. ASSUME NEW skip \in BOOLEAN, UpdateContent(srcs, skip) PROVE Store!Call
  <2> DEFINE hdrs == [i \in 1 .. k |-> ContentHeader(srcs[i], skip)]
  <2>1. pc # "write" /\ Begin("update", srcs[1].name, hdrs, FALSE, FALSE)
    BY <1>1, <1>4 DEF UpdateContent, Call
  <2>2. \A i \in 1 .. k : hdrs[i] \in Header /\ Puts(hdrs[i])
    BY <1>2, SourceHeaders DEF Source, ContentHeader, Puts, StoreEntry
  <2>3. hdrs \in [1 .. k -> Header]
    BY <2>2
  <2> HIDE DEF hdrs
  <2>4. hdrs \in Seq(Header) /\ Len(hdrs) = k
    BY <1>1, <2>3, FunctionIsSeq
  <2> QED
    BY <1>1, <2>1, <2>2, <2>4, PutsAreStored
<1> QED
  BY <1>3, <1>4

LEMMA RootIsStored ==
  ASSUME StoreInv, tape' = tape, files' = files, InitializeFresh \/ Initialize
  PROVE  Store!Call
<1>1. PICK mode \in Modes, truncate \in BOOLEAN :
        Begin("initialize", Root, <<RootHeader(mode)>>, TRUE, truncate)
  BY DEF InitializeFresh, Initialize, MkdirRoot
<1> DEFINE hdrs == <<RootHeader(mode)>>
<1>2. hdrs \in Seq(Header) /\ Len(hdrs) = 1 /\ hdrs[1] = RootHeader(mode)
  BY RootHeaderType
<1>3. Puts(RootHeader(mode))
  BY DEF RootHeader, ArchiveHeader, Puts, StoreTargets, StoreEntry, Types, Sizes
<1>6. Begin("initialize", Root, hdrs, TRUE, truncate)
  BY <1>1
<1> HIDE DEF hdrs
<1>4. \A i \in 1 .. Len(hdrs) : Puts(hdrs[i])
  BY <1>2, <1>3
<1>5. pc # "write"
  BY DEF InitializeFresh, Initialize
<1> QED
  <2>1. Len(hdrs) > 0
    BY <1>2
  <2> QED
    BY <1>2, <1>4, <1>5, <1>6, <2>1, PutsAreStored

(* Between two operations clients see on the tape what is in the index.    *)
LEMMA IdleFiles ==
  ASSUME StoreInv, pc = "idle"
  PROVE  /\ PlainTable(db) /\ tape \in Seq(Header) /\ Good(tape)
         /\ db = Replayed(tape)[Len(tape)].db
         /\ files = Entries(db)
         /\ \A r \in Live(db) : r.name \in DOMAIN files /\ files[r.name] = Seen(r)
<1>1. /\ tape \in Seq(Header) /\ Good(tape) /\ db = Replayed(tape)[Len(tape)].db
      /\ PlainTable(db)
  BY IdleIndex DEF StoreInv
<1>2. files = Entries(db)
  BY <1>1, FilesAreEntries DEF StoreInv
<1>3. ASSUME NEW r \in Live(db) PROVE r.name \in DOMAIN files /\ files[r.name] = Seen(r)
  <2>1. GetHeader(db, r.name) = r
    BY <1>1, LiveIsFound
  <2> QED
    BY <1>2, <2>1 DEF Entries
<1> QED
  BY <1>1, <1>2, <1>3

LEMMA MetadataIsChmod ==
  ASSUME StoreInv, tape' = tape, files' = files, NEW row \in db, NEW mode \in Modes,
         UpdateMetadata(row, mode)
  PROVE  Store!Call
<1> DEFINE h == MetadataHeader(row, mode)
           hdrs == <<h>>
           e == [type |-> row.type, mode |-> mode, data |-> row.size]
<1>1. pc = "idle" /\ row \in Live(db) /\ Begin("update", row.name, hdrs, FALSE, FALSE)
  BY DEF UpdateMetadata, Call
<1>2. /\ row \in Row /\ row.from = NoName /\ row.name \in Name
      /\ row.name \in DOMAIN files /\ files[row.name] = Seen(row)
  BY <1>1, IdleFiles DEF PlainTable, Table, Row
<1>3. h \in Header
  BY <1>2, RowHeaders
<1>4. Change(h) = Store!Put(row.name, e)
  BY <1>2 DEF MetadataHeader, Change, Store!Put
<1>5. e \in StoreEntry /\ e.type = files[row.name].type /\ e.data = files[row.name].data
  BY <1>2 DEF Row, StoreEntry, Seen
<1> HIDE DEF h, e
<1>6. hdrs \in Seq(Header) /\ Len(hdrs) = 1 /\ hdrs[1] = h
  BY <1>3
<1>7. Changes(hdrs) = <<Store!Put(row.name, e)>>
  BY <1>4, <1>6 DEF Changes
<1> HIDE DEF hdrs
<1>8. /\ PendingChanges = <<>> /\ PendingChanges' = Changes(hdrs)
      /\ PendingChanges' # <<>>
  <2>1. pc # "write" /\ Len(hdrs) > 0
    BY <1>1, <1>6
  <2> QED
    BY <1>1, <1>6, <2>1, CallPends
<1>9. Store!Chmod
  BY <1>2, <1>5, <1>7, <1>8 DEF Store!Chmod, StoreEntry
<1> QED
  BY <1>8, <1>9 DEF Store!Call

-----------------------------------------------------------------------------
(* Trees.                                                                  *)

(* The rows a client's call finds below a name are what is under it.       *)
LEMMA UnderFound ==
  ASSUME Disciplined, StoreInv, pc = "idle", NEW n \in ClientNames, Lookup(db, n) # NoRow
  PROVE  Store!Under(n)
           = {r.name : r \in IF Lookup(db, n).type = "dir"
                               THEN GetHeaderChildren(db, n) ELSE {}}
<1> DEFINE src == Lookup(db, n)
<1>1. /\ PlainTable(db) /\ files = Entries(db)
      /\ \A r \in Live(db) : r.name \in DOMAIN files /\ files[r.name] = Seen(r)
  BY IdleFiles
<1>2. n \in Name /\ PlainName(n)
  BY UsedArePlain, OperationsAssumption DEF Disciplined
<1>3. src \in Live(db) /\ src.name = n
  BY <1>1, <1>2, FoundIsLive
<1> HIDE DEF src
<1>4. files[n].type = src.type
  <2>1. files[src.name] = Seen(src)
    BY <1>1, <1>3
  <2> QED
    BY <1>3, <2>1 DEF Seen
<1>5. DOMAIN files = {r.name : r \in Live(db)}
  BY <1>1 DEF Entries
<1>6. ASSUME NEW r \in Live(db)
      PROVE  Store!Below(r.name, n) <=> LikeBelow(r.name, n)
  <2>1. PlainName(r.name) /\ r.name \in Name
    BY <1>1 DEF PlainTable, Table, Row, Live
  <2>2. Store!Below(r.name, n) <=> Below(r.name, n)
    BY DEF Store!Below, Below
  <2> QED
    BY <1>2, <2>1, <2>2, LikeIsBelow, BelowIsLike DEF Disciplined
<1>7. Store!Under(n) = {m \in DOMAIN files : src.type = "dir" /\ Store!Below(m, n)}
  BY <1>4 DEF Store!Under
<1>8. CASE src.type = "dir"
  <2>1. Store!Under(n) = {r.name : r \in GetHeaderChildren(db, n)}
    BY <1>5, <1>6, <1>7, <1>8 DEF GetHeaderChildren
  <2> QED
    BY <1>8, <2>1 DEF src
<1>9. CASE src.type # "dir"
  BY <1>7, <1>9 DEF src
<1> QED
  BY <1>8, <1>9

(* Rows with different names and their names, in the same order.           *)
LEMMA NamesInOrder ==
  ASSUME NEW src \in Row, NEW rows \in SUBSET Row, IsFiniteSet(rows),
         \A r, s \in rows : r.name = s.name => r = s,
         NEW rest \in SetToSeqs(rows)
  PROVE  \E names \in SetToSeqs({r.name : r \in rows}) :
           /\ Len(<<src>> \o rest) = Len(names) + 1 /\ Len(names) \in Nat
           /\ \A i \in 1 .. Len(names) + 1 :
                (<<src.name>> \o names)[i] = (<<src>> \o rest)[i].name
<1> DEFINE k == Cardinality(rows)
           N == {r.name : r \in rows}
           names == [i \in 1 .. k |-> rest[i].name]
<1>1. k \in Nat
  BY FS_CardinalityType
<1>2. /\ rest \in [1 .. k -> rows]
      /\ \A i, j \in 1 .. k : i # j => rest[i] # rest[j]
  BY DEF SetToSeqs
<1>3. Cardinality(N) = k
  <2> DEFINE f == [r \in rows |-> r.name]
  <2>1. f \in Bijection(rows, N)
    BY DEF Bijection, Injection, Surjection, IsInjective
  <2> HIDE DEF f
  <2>2. ExistsBijection(rows, N)
    BY <2>1 DEF ExistsBijection
  <2> HIDE DEF N
  <2> QED
    BY <2>2, FS_Bijection
<1> HIDE DEF k
<1>4. names \in [1 .. k -> N] /\ \A i, j \in 1 .. k : i # j => names[i] # names[j]
  BY <1>2
<1>5. names \in SetToSeqs(N)
  <2> HIDE DEF names, N
  <2> QED
    BY <1>3, <1>4 DEF SetToSeqs
<1>6. names \in Seq(N) /\ Len(names) = k
  <2> HIDE DEF names, N
  <2> QED
    BY <1>1, <1>4, FunctionIsSeq
<1>7. rest \in Seq(rows) /\ Len(rest) = k
  BY <1>1, <1>2, FunctionIsSeq
<1>8. /\ Len(<<src>> \o rest) = k + 1
      /\ \A i \in 1 .. k + 1 : (<<src>> \o rest)[i] = IF i = 1 THEN src ELSE rest[i - 1]
  <2>1. <<src>> \in Seq(Row) /\ rest \in Seq(Row) /\ Len(<<src>>) = 1
    BY <1>7
  <2> QED
    BY <1>1, <1>7, <2>1, ConcatProperties
<1>9. \A i \in 1 .. k + 1 :
        (<<src.name>> \o names)[i] = IF i = 1 THEN src.name ELSE names[i - 1]
  <2>1. <<src.name>> \in Seq(N \cup {src.name}) /\ names \in Seq(N \cup {src.name})
    BY <1>6
  <2> HIDE DEF names, N
  <2> QED
    BY <1>1, <1>6, <2>1, ConcatProperties
<1>10. ASSUME NEW i \in 1 .. k + 1
       PROVE  (<<src.name>> \o names)[i] = (<<src>> \o rest)[i].name
  <2>1. i # 1 => names[i - 1] = rest[i - 1].name
    BY <1>1
  <2> HIDE DEF names
  <2> QED
    BY <1>8, <1>9, <2>1
<1> HIDE DEF names, N
<1> QED
  BY <1>1, <1>5, <1>6, <1>8, <1>10 DEF N

(* FileStore takes the entries below a name in the same orders.            *)
LEMMA SameOrders ==
  ASSUME NEW S
  PROVE  Store!SetToSeqs(S) = SetToSeqs(S)
<1>1. Store!Cardinality(S) = Cardinality(S)
  BY DEF Store!Cardinality, Cardinality
<1> QED
  BY <1>1 DEF Store!SetToSeqs, SetToSeqs

(* What a client finds under a name and below it, and its names.           *)
LEMMA TreeNames ==
  ASSUME Disciplined, StoreInv, pc = "idle", NEW n \in ClientNames, Lookup(db, n) # NoRow,
         NEW rest \in SetToSeqs(IF Lookup(db, n).type = "dir"
                                  THEN GetHeaderChildren(db, n) ELSE {})
  PROVE  /\ n \in DOMAIN files
         /\ \A i \in DOMAIN (<<Lookup(db, n)>> \o rest) :
              (<<Lookup(db, n)>> \o rest)[i] \in Live(db)
         /\ \E names \in SetToSeqs(Store!Under(n)) :
              /\ Len(names) \in Nat
              /\ DOMAIN (<<Lookup(db, n)>> \o rest) = 1 .. Len(names) + 1
              /\ \A i \in 1 .. Len(names) + 1 :
                   (<<n>> \o names)[i] = (<<Lookup(db, n)>> \o rest)[i].name
<1> DEFINE src == Lookup(db, n)
           rows == IF src.type = "dir" THEN GetHeaderChildren(db, n) ELSE {}
           all == <<src>> \o rest
<1>1. /\ PlainTable(db)
      /\ \A r \in Live(db) : r.name \in DOMAIN files
  BY IdleFiles
<1>2. Store!Under(n) = {r.name : r \in rows}
  BY UnderFound
<1>3. rows = {} \/ rows = GetHeaderChildren(db, n)
  OBVIOUS
<1>4. rest \in SetToSeqs(rows)
  OBVIOUS
<1> HIDE DEF rows
<1>5. /\ src \in Live(db) /\ src.name = n /\ src \in Row
      /\ rows \in SUBSET Row /\ rows \in SUBSET Live(db) /\ IsFiniteSet(rows)
      /\ src \notin rows
  BY <1>1, <1>3, TreeFound
<1> HIDE DEF src
<1>6. /\ all \in Seq(Row) /\ Len(all) \in Nat
      /\ \A i \in 1 .. Len(all) : all[i] \in rows \cup {src}
  BY <1>4, <1>5, TreeInOrder
<1>7. \A r, s \in rows : r.name = s.name => r = s
  BY <1>1, <1>5, NameIsKey DEF Live
<1>8. PICK names \in SetToSeqs({r.name : r \in rows}) :
        /\ Len(all) = Len(names) + 1 /\ Len(names) \in Nat
        /\ \A i \in 1 .. Len(names) + 1 : (<<src.name>> \o names)[i] = all[i].name
  BY <1>4, <1>5, <1>7, NamesInOrder, ZenonT(40)
<1> HIDE DEF all
<1>9. DOMAIN all = 1 .. Len(names) + 1
  BY <1>6, <1>8
<1>10. \A i \in DOMAIN all : all[i] \in Live(db)
  BY <1>5, <1>6, <1>8, <1>9
<1>11. names \in SetToSeqs(Store!Under(n))
  BY <1>2, <1>8
<1>12. \A i \in 1 .. Len(names) + 1 : (<<n>> \o names)[i] = all[i].name
  BY <1>5, <1>8
<1>13. n \in DOMAIN files
  BY <1>1, <1>5
<1> QED
  BY <1>8, <1>9, <1>10, <1>11, <1>12, <1>13 DEF all, src

LEMMA DeleteIsRemove ==
  ASSUME Disciplined, StoreInv, tape' = tape, files' = files, NEW n \in ClientNames,
         Delete(n)
  PROVE  Store!Call
<1> DEFINE src == Lookup(db, n)
           rows == IF src.type = "dir" THEN GetHeaderChildren(db, n) ELSE {}
           linked == IF src.type = "dir" /\ src.link = NoName
                       THEN GetHeaderChildren(db, n) ELSE {}
<1>1. pc = "idle" /\ src # NoRow
  BY DEF Delete
<1>2. PICK rest \in SetToSeqs(linked) :
        LET deleted == <<src>> \o rest
        IN  Call("delete", n, [i \in DOMAIN deleted |-> DeletionHeader(deleted[i])])
  BY DEF Delete
<1>3. linked = rows
  <2>1. n \in Name /\ PlainTable(db)
    BY <1>1, IdleFiles, OperationsAssumption
  <2>2. src \in Live(db)
    BY <1>1, <2>1, FoundIsLive
  <2>3. src.link = NoName
    BY <2>1, <2>2 DEF PlainTable, Live
  <2> QED
    BY <2>3
<1> DEFINE deleted == <<src>> \o rest
           hdrs == [i \in DOMAIN deleted |-> DeletionHeader(deleted[i])]
<1>4. Begin("delete", n, hdrs, FALSE, FALSE)
  BY <1>2 DEF Call
<1>5. hdrs \in Seq(Header) /\ Len(hdrs) > 0
  <2>1. rows = {} \/ rows = GetHeaderChildren(db, n)
    OBVIOUS
  <2>2. rest \in SetToSeqs(rows)
    BY <1>2, <1>3
  <2> HIDE DEF rows
  <2> QED
    BY <1>1, <2>1, <2>2, IdleFiles, DeleteIsGood
<1>6. /\ n \in DOMAIN files
      /\ \E names \in SetToSeqs(Store!Under(n)) :
           /\ Len(names) \in Nat /\ DOMAIN deleted = 1 .. Len(names) + 1
           /\ \A i \in 1 .. Len(names) + 1 : (<<n>> \o names)[i] = deleted[i].name
  BY <1>1, <1>2, <1>3, TreeNames
<1> HIDE DEF deleted
<1>7. PICK names \in SetToSeqs(Store!Under(n)) :
        /\ Len(names) \in Nat /\ DOMAIN deleted = 1 .. Len(names) + 1
        /\ \A i \in 1 .. Len(names) + 1 : (<<n>> \o names)[i] = deleted[i].name
  BY <1>6
<1>8. ASSUME NEW i \in 1 .. Len(names) + 1
      PROVE  Change(hdrs[i]) = Store!Remove1((<<n>> \o names)[i])
  BY <1>7 DEF DeletionHeader, HeaderOfRow, Change, Store!Remove1
<1>9. DOMAIN hdrs = 1 .. Len(names) + 1
  BY <1>7
<1> HIDE DEF hdrs
<1>10. Changes(hdrs) = [i \in 1 .. Len(names) + 1 |-> Store!Remove1((<<n>> \o names)[i])]
  <2>1. 1 .. Len(hdrs) = 1 .. Len(names) + 1
    BY <1>5, <1>9
  <2> QED
    BY <1>8, <2>1 DEF Changes
<1>11. /\ PendingChanges = <<>> /\ PendingChanges' = Changes(hdrs)
       /\ PendingChanges' # <<>>
  <2>1. pc # "write"
    BY <1>1
  <2> QED
    BY <1>4, <1>5, <2>1, CallPends
<1>12. Store!RemoveTree
  BY <1>6, <1>7, <1>10, <1>11, SameOrders DEF Store!RemoveTree
<1> QED
  BY <1>11, <1>12 DEF Store!Call

LEMMA MoveIsRename ==
  ASSUME Disciplined, StoreInv, tape' = tape, files' = files,
         NEW from \in ClientNames, NEW to \in ClientNames, Move(from, to)
  PROVE  Store!Call
<1> DEFINE src == Lookup(db, from)
           rows == IF src.type = "dir" THEN GetHeaderChildren(db, from) ELSE {}
<1>1. pc = "idle" /\ src # NoRow /\ FreshTargets(rows \cup {src}, from, to)
  BY DEF Move
<1>2. PICK rest \in SetToSeqs(rows) :
        LET moved == <<src>> \o rest
        IN  Call("move", from, [i \in DOMAIN moved |-> RenameHeader(moved[i], from, to)])
  BY DEF Move
<1> DEFINE moved == <<src>> \o rest
           hdrs == [i \in DOMAIN moved |-> RenameHeader(moved[i], from, to)]
<1>3. Begin("move", from, hdrs, FALSE, FALSE)
  BY <1>2 DEF Call
<1>4. hdrs \in Seq(Header) /\ Len(hdrs) > 0
  <2>1. rows = {} \/ rows = GetHeaderChildren(db, from)
    OBVIOUS
  <2>2. rest \in SetToSeqs(rows)
    BY <1>2
  <2> HIDE DEF rows
  <2> QED
    BY <1>1, <2>1, <2>2, IdleFiles, MoveIsGood
<1>5. /\ from \in DOMAIN files
      /\ \A i \in DOMAIN moved : moved[i] \in Live(db)
      /\ \E names \in SetToSeqs(Store!Under(from)) :
           /\ Len(names) \in Nat /\ DOMAIN moved = 1 .. Len(names) + 1
           /\ \A i \in 1 .. Len(names) + 1 : (<<from>> \o names)[i] = moved[i].name
  BY <1>1, <1>2, TreeNames
<1> HIDE DEF moved
<1>6. PICK names \in SetToSeqs(Store!Under(from)) :
        /\ Len(names) \in Nat /\ DOMAIN moved = 1 .. Len(names) + 1
        /\ \A i \in 1 .. Len(names) + 1 : (<<from>> \o names)[i] = moved[i].name
  BY <1>5
<1> DEFINE renamed(m) == Store!Rename1(m, Store!Rebase(m, from, to))
<1>7. ASSUME NEW i \in 1 .. Len(names) + 1
      PROVE  Change(hdrs[i]) = renamed((<<from>> \o names)[i])
  <2>1. hdrs[i] = RenameHeader(moved[i], from, to)
    BY <1>6
  <2>2. moved[i].name # NoName
    <3>1. PlainTable(db) /\ moved[i] \in db
      BY <1>1, <1>5, <1>6, IdleFiles DEF Live
    <3> QED
      BY <3>1, PathsAssumption DEF PlainTable, Table, Row
  <2>3. Store!Rebase(moved[i].name, from, to) = Rebase(moved[i].name, from, to)
    BY DEF Store!Rebase, Store!Below, Rebase, Below
  <2>4. Change(RenameHeader(moved[i], from, to)) = renamed(moved[i].name)
    BY <2>2, <2>3 DEF RenameHeader, HeaderOfRow, Change, Store!Rename1
  <2> QED
    BY <1>6, <2>1, <2>4
<1>8. DOMAIN hdrs = 1 .. Len(names) + 1
  BY <1>6
<1> HIDE DEF hdrs
<1>9. Changes(hdrs) = [i \in 1 .. Len(names) + 1 |-> renamed((<<from>> \o names)[i])]
  <2>1. 1 .. Len(hdrs) = 1 .. Len(names) + 1
    BY <1>4, <1>8
  <2> HIDE DEF renamed
  <2> QED
    BY <1>7, <2>1 DEF Changes
<1>10. /\ PendingChanges = <<>> /\ PendingChanges' = Changes(hdrs)
       /\ PendingChanges' # <<>>
  <2>1. pc # "write"
    BY <1>1
  <2> QED
    BY <1>3, <1>4, <2>1, CallPends
<1>11. Store!RenameTree
  BY <1>5, <1>6, <1>9, <1>10, SameOrders DEF Store!RenameTree
<1> QED
  BY <1>10, <1>11 DEF Store!Call

-----------------------------------------------------------------------------
(* Every step.                                                             *)

LEMMA StoreStarts ==
  StoreInit => Store!Init /\ StoreInv
<1> SUFFICES ASSUME StoreInit PROVE Store!Init /\ StoreInv
  OBVIOUS
<1>1. CacheInv /\ tape = <<>> /\ pc = "down" /\ files = FilesOn(tape)
  BY CacheInit DEF StoreInit, Init
<1>2. PendingChanges = <<>>
  BY <1>1 DEF PendingChanges
<1>3. files = [n \in {} |-> n]
  <2>1. tape \in Seq(Header) /\ Good(tape) /\ Len(tape) = 0 /\ TypeInv
    BY <1>1, EmptyIsGood DEF CacheInv
  <2>2. files = Entries({})
    BY <1>1, <2>1, FilesAreEntries, NothingIndexed
  <2> QED
    BY <2>2 DEF Entries, Live
<1> QED
  BY <1>1, <1>2, <1>3 DEF Store!Init, StoreInv

(* A call begins without touching what is on the tape.                     *)
LEMMA CallsLeaveTape ==
  ASSUME StoreInv,
         \/ \E srcs \in Batches : Archive(srcs)
         \/ \E srcs \in Batches, skip \in BOOLEAN : UpdateContent(srcs, skip)
         \/ \E row \in db, mode \in Modes : UpdateMetadata(row, mode)
         \/ \E from, to \in ClientNames : Move(from, to)
         \/ \E n \in ClientNames : Delete(n)
         \/ InitializeFresh
         \/ Initialize /\ "overwrite" \notin Permit
  PROVE  tape' = tape
<1>1. InitializeFresh => tape = <<>>
  BY DEF StoreInv, CacheInv, InitializeFresh
<1> QED
  BY <1>1 DEF Archive, UpdateContent, UpdateMetadata, Move, Delete, InitializeFresh,
              Initialize, MkdirRoot, Call, Begin

(* An operation that indexes or a scan writes nothing, and nobody writes   *)
(* when it dies.                                                           *)
LEMMA OthersWriteNothing ==
  ASSUME Disciplined, StoreInv, TypeInv',
         \/ StartIndex \/ IndexStep \/ IndexMissing \/ IndexEnd
         \/ InitializeScan \/ \E purge \in BOOLEAN : RecoveryIndex(purge)
         \/ ScanStep \/ ScanEnd \/ Restart \/ Stop \/ LoseIndex \/ Crash
  PROVE  /\ tape' = tape /\ pc' # "write"
         /\ pc = "write" => Crash \/ (op.written = Len(op.hdrs) /\ op \in Op)
  BY DEF StartIndex, IndexStep, IndexMissing, IndexEnd, Finish, InitializeScan,
         RecoveryIndex, Scan, ScanStep, ScanEnd, Restart, Stop, LoseIndex, Crash,
         StoreInv, CacheInv, TypeInv, TypeOK

(* Every step changes the files as FileStore allows, or leaves them and    *)
(* what is still to be done alone.                                         *)
LEMMA StoreStep ==
  ASSUME Disciplined, "overwrite" \notin Permit, StoreInv, [StoreNext]_<<vars, files>>
  PROVE  StoreInv' /\ [Store!Next]_<<files, PendingChanges>>
<1>1. [Next]_vars /\ files' = FilesOn(tape') /\ (tape' = tape => files' = files)
  <2>1. CASE StoreNext
    BY <2>1 DEF StoreNext, StoreInv
  <2>2. CASE UNCHANGED <<vars, files>>
    BY <2>2 DEF vars, StoreInv
  <2> QED
    BY <2>1, <2>2
<1>2. CacheInv' /\ TypeInv'
  BY <1>1, CacheNext DEF StoreInv, CacheInv
<1>3. StoreInv'
  BY <1>1, <1>2 DEF StoreInv
<1>4. CASE UNCHANGED vars
  <2>1. files' = files /\ PendingChanges' = PendingChanges
    BY <1>1, <1>4 DEF vars, PendingChanges
  <2> QED
    BY <1>3, <2>1
<1>5. CASE WriteHeader
  BY <1>1, <1>2, <1>3, <1>5, WriteIsStep DEF Store!Next
<1>6. CASE \/ \E srcs \in Batches : Archive(srcs)
           \/ \E srcs \in Batches, skip \in BOOLEAN : UpdateContent(srcs, skip)
           \/ \E row \in db, mode \in Modes : UpdateMetadata(row, mode)
           \/ \E from, to \in ClientNames : Move(from, to)
           \/ \E n \in ClientNames : Delete(n)
           \/ InitializeFresh
           \/ Initialize /\ "overwrite" \notin Permit
  <2>1. tape' = tape /\ files' = files
    BY <1>1, <1>6, CallsLeaveTape
  <2>2. Store!Call
    BY <1>6, <2>1, SourcesAreStored, MetadataIsChmod, MoveIsRename, DeleteIsRemove,
       RootIsStored
  <2> QED
    BY <1>3, <2>2 DEF Store!Next
<1>7. CASE \/ StartIndex \/ IndexStep \/ IndexMissing \/ IndexEnd
           \/ InitializeScan \/ \E purge \in BOOLEAN : RecoveryIndex(purge)
           \/ ScanStep \/ ScanEnd \/ Restart \/ Stop \/ LoseIndex \/ Crash
  <2>1. /\ tape' = tape /\ pc' # "write"
        /\ pc = "write" => Crash \/ (op.written = Len(op.hdrs) /\ op \in Op)
    BY <1>2, <1>7, OthersWriteNothing
  <2>2. files' = files /\ PendingChanges' = <<>>
    BY <1>1, <2>1 DEF PendingChanges
  <2>3. CASE PendingChanges = <<>>
    BY <1>3, <2>2, <2>3
  <2>4. CASE PendingChanges # <<>>
    BY <1>3, <2>2, <2>4 DEF Store!Next, Store!Drop
  <2> QED
    BY <2>3, <2>4
<1>8. ASSUME ScanFail PROVE FALSE
  <2>1. /\ TypeInv /\ Good(tape) /\ UpToDate(op.pos - 1) /\ op.pos \in Position
        /\ op.pos <= Len(tape) /\ Scanned.err # "none"
    BY <1>8 DEF ScanFail, StoreInv, CacheInv, TypeInv, TypeOK, Op
  <2> QED
    BY <2>1, NextIndexed DEF Scanned
<1>9. ASSUME NEW srcs \in Batches, UpdateLocal(srcs) \/ ArchiveOverwriting(srcs)
      PROVE  FALSE
  BY <1>9 DEF UpdateLocal, ArchiveOverwriting, Disciplined
<1> QED
  BY <1>1, <1>4, <1>5, <1>6, <1>7, <1>8, <1>9 DEF Next, Progress

(* The calls promise what FileStore says (README.md:16, and the tests of   *)
(* pkg/fs that read back what they wrote, removed and renamed): every      *)
(* header that reaches the tape changes the files a scan finds the way the *)
(* call asked for, one entry after the other; a crash drops the rest; and  *)
(* a directory is removed and renamed with everything below it and nothing *)
(* else, if its pattern matches only what is below it (PlainNames).        *)
THEOREM OperationsImplementFileStore ==
  ASSUME Disciplined, "overwrite" \notin Permit
  PROVE  StoreSpec => ImplementsFileStore
<1>1. StoreInit => Store!Init /\ StoreInv
  BY StoreStarts
<1>2. StoreInv /\ [StoreNext]_<<vars, files>>
        => StoreInv' /\ [Store!Next]_<<files, PendingChanges>>
  BY StoreStep
<1> QED
  BY <1>1, <1>2, PTL DEF StoreSpec, ImplementsFileStore, Store!Spec, Store!fsVars
=============================================================================
