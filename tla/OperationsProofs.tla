-------------------------- MODULE OperationsProofs --------------------------
(***************************************************************************)
(* What holds of Operations for every set of names, sources and permits    *)
(* and every bound.  Then: indexing a tape from scratch, and why it never  *)
(* fails on the tapes that clients who keep to live names write.  What     *)
(* each call appends can be indexed after what was there, and leaves its   *)
(* position in the index.                                                  *)
(***************************************************************************)
EXTENDS Operations, IndexProofs

-----------------------------------------------------------------------------
(* Headers.                                                                *)

LEMMA SourceType == Sources \subseteq Source
  BY OperationsAssumption

(* Types.                                                                  *)

(* Indexing starts behind the header the index ends with.                  *)
TypeInv == TypeOK /\ Table(db) /\ Bounded(db) /\ (pc = "index" => op.base < op.pos)

LEMMA LastIndexedType ==
  ASSUME TypeInv
  PROVE  GetLastIndexed(db) \in Position
  BY LastIndexedIsGreatest DEF TypeInv, Bounded

LEMMA NoOpType == NoOp \in Op
<1>1. Root \in Name /\ <<>> \in Seq(Header)
  BY DEF Root, Name
<1> QED
  BY <1>1 DEF NoOp, Op, Kinds, Position

(* An operation that begins has a type, whatever it writes.                *)
LEMMA BeginType ==
  ASSUME TypeInv, NEW kind \in Kinds, NEW target \in Name, NEW hdrs \in Seq(Header),
         NEW overwrite \in BOOLEAN, NEW truncate \in BOOLEAN,
         Begin(kind, target, hdrs, overwrite, truncate)
  PROVE  /\ tape' \in Seq(Header) /\ drive' \in BOOLEAN /\ pc' = "write"
         /\ op' \in Op /\ err' \in Errors /\ trusted' \in BOOLEAN
<1>1. GetLastIndexed(db) \in Nat
  BY LastIndexedType DEF Position
<1> QED
  BY <1>1 DEF Begin, TypeInv, TypeOK, Op, Position, Errors

LEMMA CallType ==
  ASSUME TypeInv, NEW kind \in Kinds, NEW target \in Name, NEW hdrs \in Seq(Header),
         Call(kind, target, hdrs)
  PROVE  TypeInv'
<1>1. Begin(kind, target, hdrs, FALSE, FALSE) /\ db' = db
  BY DEF Call
<1>2. /\ tape' \in Seq(Header) /\ drive' \in BOOLEAN /\ pc' = "write"
      /\ op' \in Op /\ err' \in Errors /\ trusted' \in BOOLEAN
  BY <1>1, BeginType
<1> QED
  BY <1>1, <1>2 DEF TypeInv, TypeOK

LEMMA MkdirRootType ==
  ASSUME TypeInv, MkdirRoot
  PROVE  /\ tape' \in Seq(Header) /\ drive' \in BOOLEAN /\ pc' = "write"
         /\ op' \in Op /\ err' \in Errors /\ trusted' \in BOOLEAN
<1>1. PICK mode \in Modes : Begin("initialize", Root, <<RootHeader(mode)>>, TRUE, FALSE)
  BY DEF MkdirRoot
<1>2. "initialize" \in Kinds /\ Root \in Name
  BY DEF Kinds, Root, Name
<1> QED
  BY <1>1, <1>2, RootHeaderType, BeginType

(* A batch is a list of sources.                                           *)
LEMMA BatchType ==
  ASSUME NEW srcs \in Batches
  PROVE  \E k \in Nat : DOMAIN srcs = 1 .. k /\ 1 \in 1 .. k /\ srcs \in [1 .. k -> Source]
<1>1. PICK k \in 1 .. MaxBatch : srcs \in [1 .. k -> Sources]
  BY DEF Batches
<1>2. k \in Nat /\ 1 \in 1 .. k /\ DOMAIN srcs = 1 .. k
  BY <1>1, OperationsAssumption
<1>3. \A i \in 1 .. k : srcs[i] \in Source
  BY <1>1, SourceType
<1> QED
  BY <1>1, <1>2, <1>3

(* Each call of a client keeps the types.                                  *)
LEMMA ArchiveType ==
  ASSUME TypeInv, NEW srcs \in Batches, Archive(srcs)
  PROVE  TypeInv'
<1>1. PICK k \in Nat : DOMAIN srcs = 1 .. k /\ 1 \in 1 .. k /\ srcs \in [1 .. k -> Source]
  BY BatchType
<1> DEFINE hdrs == [i \in DOMAIN srcs |-> ArchiveHeader(srcs[i])]
<1>2. hdrs \in [1 .. k -> Header]
  BY <1>1, SourceHeaders
<1>3. Call("archive", srcs[1].name, hdrs)
  BY DEF Archive
<1> HIDE DEF hdrs
<1>4. srcs[1].name \in Name /\ "archive" \in Kinds /\ hdrs \in Seq(Header)
  BY <1>1, <1>2, FunctionIsSeq DEF Source, Kinds
<1> QED
  BY <1>3, <1>4, CallType

LEMMA OverwritingType ==
  ASSUME TypeInv, NEW srcs \in Batches, ArchiveOverwriting(srcs)
  PROVE  TypeInv'
<1>1. PICK k \in Nat : DOMAIN srcs = 1 .. k /\ 1 \in 1 .. k /\ srcs \in [1 .. k -> Source]
  BY BatchType
<1> DEFINE hdrs == [i \in DOMAIN srcs |-> ArchiveHeader(srcs[i])]
<1>2. hdrs \in [1 .. k -> Header]
  BY <1>1, SourceHeaders
<1>3. Begin("archive", srcs[1].name, hdrs, TRUE, TRUE) /\ db' = db
  BY DEF ArchiveOverwriting
<1> HIDE DEF hdrs
<1>4. srcs[1].name \in Name /\ "archive" \in Kinds /\ hdrs \in Seq(Header)
  BY <1>1, <1>2, FunctionIsSeq DEF Source, Kinds
<1>5. /\ tape' \in Seq(Header) /\ drive' \in BOOLEAN /\ pc' = "write"
      /\ op' \in Op /\ err' \in Errors /\ trusted' \in BOOLEAN
  BY <1>3, <1>4, BeginType
<1> QED
  BY <1>3, <1>5 DEF TypeInv, TypeOK

LEMMA ContentType ==
  ASSUME TypeInv, NEW srcs \in Batches, NEW skip \in BOOLEAN, UpdateContent(srcs, skip)
  PROVE  TypeInv'
<1>1. PICK k \in Nat : DOMAIN srcs = 1 .. k /\ 1 \in 1 .. k /\ srcs \in [1 .. k -> Source]
  BY BatchType
<1> DEFINE hdrs == [i \in DOMAIN srcs |-> ContentHeader(srcs[i], skip)]
<1>2. hdrs \in [1 .. k -> Header]
  BY <1>1, SourceHeaders
<1>3. Call("update", srcs[1].name, hdrs)
  BY DEF UpdateContent
<1> HIDE DEF hdrs
<1>4. srcs[1].name \in Name /\ "update" \in Kinds /\ hdrs \in Seq(Header)
  BY <1>1, <1>2, FunctionIsSeq DEF Source, Kinds
<1> QED
  BY <1>3, <1>4, CallType

LEMMA LocalType ==
  ASSUME TypeInv, NEW srcs \in Batches, UpdateLocal(srcs)
  PROVE  TypeInv'
<1>1. PICK k \in Nat : DOMAIN srcs = 1 .. k /\ 1 \in 1 .. k /\ srcs \in [1 .. k -> Source]
  BY BatchType
<1> DEFINE hdrs == [i \in DOMAIN srcs |-> LocalHeader(srcs[i])]
<1>2. hdrs \in [1 .. k -> Header]
  BY <1>1, SourceHeaders, TRUE \in BOOLEAN
<1>3. Call("update", srcs[1].name, hdrs)
  BY DEF UpdateLocal
<1> HIDE DEF hdrs
<1>4. srcs[1].name \in Name /\ "update" \in Kinds /\ hdrs \in Seq(Header)
  BY <1>1, <1>2, FunctionIsSeq DEF Source, Kinds
<1> QED
  BY <1>3, <1>4, CallType

LEMMA UpdateType ==
  ASSUME TypeInv,
         \/ \E srcs \in Batches, skip \in BOOLEAN : UpdateContent(srcs, skip)
         \/ \E row \in db, mode \in Modes : UpdateMetadata(row, mode)
         \/ \E srcs \in Batches : UpdateLocal(srcs)
  PROVE  TypeInv'
<1>1. ASSUME NEW row \in db, NEW mode \in Modes, UpdateMetadata(row, mode)
      PROVE  TypeInv'
  <2>1. row \in Row /\ "update" \in Kinds
    BY DEF TypeInv, Table, Kinds
  <2>2. row.name \in Name /\ <<MetadataHeader(row, mode)>> \in Seq(Header)
    BY <2>1, RowHeaders DEF Row
  <2> QED
    BY <1>1, <2>1, <2>2, CallType DEF UpdateMetadata
<1> QED
  BY <1>1, ContentType, LocalType

(* What a lookup finds, and what lies below it, are rows of the index.     *)
LEMMA LookupType ==
  ASSUME TypeInv, NEW n \in Name, Lookup(db, n) # NoRow
  PROVE  /\ Lookup(db, n) \in Row
         /\ GetHeaderChildren(db, n) \in SUBSET Row
         /\ IsFiniteSet(GetHeaderChildren(db, n))
<1>1. Lookup(db, n) \in Live(db)
  BY GetHeaderFound, GetHeaderByLinknameFound DEF Lookup
<1>2. GetHeaderChildren(db, n) \in SUBSET db
  BY DEF GetHeaderChildren, Live
<1> QED
  BY <1>1, <1>2, FS_Subset DEF TypeInv, Table, Live

LEMMA MoveType ==
  ASSUME TypeInv, NEW from \in ClientNames, NEW to \in ClientNames, Move(from, to)
  PROVE  TypeInv'
<1> DEFINE src == Lookup(db, from)
           rows == IF src.type = "dir" THEN GetHeaderChildren(db, from) ELSE {}
<1>1. from \in Name /\ to \in Name /\ "move" \in Kinds
  BY OperationsAssumption DEF Kinds
<1>2. src \in Row /\ rows \in SUBSET Row /\ IsFiniteSet(rows)
  BY <1>1, LookupType, FS_EmptySet DEF Move
<1>3. PICK children \in SetToSeqs(rows) :
        LET moved == <<src>> \o children
        IN  Call("move", from, [i \in DOMAIN moved |-> RenameHeader(moved[i], from, to)])
  BY DEF Move
<1> DEFINE moved == <<src>> \o children
           hdrs == [i \in DOMAIN moved |-> RenameHeader(moved[i], from, to)]
<1>4. moved \in Seq(Row)
  <2> HIDE DEF src, rows
  <2> QED
    BY <1>2, RowsInOrder
<1>5. hdrs \in Seq(Header)
  <2> HIDE DEF moved
  <2>1. Len(moved) \in Nat /\ DOMAIN moved = 1 .. Len(moved)
    BY <1>4, LenProperties
  <2>2. hdrs \in [1 .. Len(moved) -> Header]
    BY <1>1, <1>4, <2>1, ElementOfSeq, RowHeaders, OperationsAssumption
  <2> HIDE DEF hdrs
  <2> QED
    BY <2>1, <2>2, FunctionIsSeq
<1>6. Call("move", from, hdrs)
  BY <1>3
<1> HIDE DEF hdrs
<1> QED
  BY <1>1, <1>5, <1>6, CallType

LEMMA DeleteType ==
  ASSUME TypeInv, NEW n \in ClientNames, Delete(n)
  PROVE  TypeInv'
<1> DEFINE src == Lookup(db, n)
           rows == IF src.type = "dir" /\ src.link = NoName
                     THEN GetHeaderChildren(db, n) ELSE {}
<1>1. n \in Name /\ "delete" \in Kinds
  BY OperationsAssumption DEF Kinds
<1>2. src \in Row /\ rows \in SUBSET Row /\ IsFiniteSet(rows)
  BY <1>1, LookupType, FS_EmptySet DEF Delete
<1>3. PICK children \in SetToSeqs(rows) :
        LET deleted == <<src>> \o children
        IN  Call("delete", n, [i \in DOMAIN deleted |-> DeletionHeader(deleted[i])])
  BY DEF Delete
<1> DEFINE deleted == <<src>> \o children
           hdrs == [i \in DOMAIN deleted |-> DeletionHeader(deleted[i])]
<1>4. deleted \in Seq(Row)
  <2> HIDE DEF src, rows
  <2> QED
    BY <1>2, RowsInOrder
<1>5. hdrs \in Seq(Header)
  <2> HIDE DEF deleted
  <2>1. Len(deleted) \in Nat /\ DOMAIN deleted = 1 .. Len(deleted)
    BY <1>4, LenProperties
  <2>2. hdrs \in [1 .. Len(deleted) -> Header]
    <3>1. ASSUME NEW i \in 1 .. Len(deleted) PROVE DeletionHeader(deleted[i]) \in Header
      <4>1. deleted[i] \in Row
        BY <1>4, ElementOfSeq
      <4>2. Modes # {}
        BY OperationsAssumption
      <4> QED
        BY <1>1, <4>1, <4>2, RowHeaders
    <3> QED
      BY <2>1, <3>1
  <2> HIDE DEF hdrs
  <2> QED
    BY <2>1, <2>2, FunctionIsSeq
<1>6. Call("delete", n, hdrs)
  BY <1>3
<1> HIDE DEF hdrs
<1> QED
  BY <1>1, <1>5, <1>6, CallType

(* So does each step of an operation,                                      *)
LEMMA WriteType ==
  ASSUME TypeInv, WriteHeader \/ StartIndex
  PROVE  TypeInv'
<1>1. ASSUME WriteHeader PROVE TypeInv'
  <2>1. op \in Op /\ op.written + 1 \in 1 .. Len(op.hdrs)
    BY <1>1 DEF WriteHeader, TypeInv, TypeOK, Op
  <2>2. op.hdrs[op.written + 1] \in Header
    BY <2>1, ElementOfSeq DEF Op
  <2>3. tape' \in Seq(Header)
    BY <1>1, <2>2 DEF WriteHeader, TypeInv, TypeOK
  <2>4. op' \in Op
    <3>1. op.written \in Nat /\ op' = [op EXCEPT !.written = op.written + 1]
      BY <1>1, <2>1 DEF WriteHeader, Op
    <3> QED
      BY <2>1, <3>1 DEF Op, Position
  <2> QED
    BY <1>1, <2>3, <2>4 DEF WriteHeader, TypeInv, TypeOK
<1>2. ASSUME StartIndex PROVE TypeInv'
  <2>1. op' \in Op /\ op'.base < op'.pos
    BY <1>2 DEF StartIndex, TypeInv, TypeOK, Op, Position
  <2>2. Table({}) /\ Bounded({})
    BY FS_EmptySet DEF Table, Bounded, Within
  <2>3. db' = db \/ db' = {}
    BY <1>2 DEF StartIndex
  <2>4. Table(db') /\ Bounded(db')
    BY <2>2, <2>3 DEF TypeInv
  <2> QED
    BY <1>2, <2>1, <2>4 DEF StartIndex, TypeInv, TypeOK, Table
<1> QED
  BY <1>1, <1>2

LEMMA IndexType ==
  ASSUME TypeInv, IndexStep \/ IndexMissing \/ IndexEnd
  PROVE  TypeInv'
<1>1. ASSUME IndexStep PROVE TypeInv'
  <2> DEFINE r == IndexHeader(db, op.pos, op.hdrs[op.pos - op.base])
  <2>1. op \in Op /\ op.pos - op.base \in 1 .. Len(op.hdrs)
    BY <1>1 DEF IndexStep, TypeInv, TypeOK, Op, Position
  <2>2. op.pos \in Position /\ op.hdrs[op.pos - op.base] \in Header
    BY <2>1, ElementOfSeq DEF Op
  <2>3. Table(r.db) /\ Bounded(r.db) /\ r.err \in Errors
    BY <2>2, IndexedBounded DEF TypeInv
  <2>4. db' = r.db
    BY <1>1 DEF IndexStep
  <2>5. \/ op' = [op EXCEPT !.pos = @ + 1] /\ UNCHANGED <<tape, drive, pc, err, trusted>>
        \/ Finish(r.err) /\ UNCHANGED trusted
    BY <1>1 DEF IndexStep
  <2> HIDE DEF r
  <2>6. CASE op' = [op EXCEPT !.pos = @ + 1] /\ UNCHANGED <<tape, drive, pc, err, trusted>>
    <3>1. op' \in Op /\ (pc' = "index" => op'.base < op'.pos)
      BY <2>1, <2>2, <2>6 DEF TypeInv, Op, Position
    <3> QED
      BY <2>3, <2>4, <2>6, <3>1 DEF TypeInv, TypeOK, Table
  <2>7. CASE Finish(r.err) /\ UNCHANGED trusted
    BY <2>3, <2>4, <2>7, NoOpType DEF Finish, TypeInv, TypeOK, Table
  <2> QED
    BY <2>5, <2>6, <2>7
<1>2. ASSUME IndexMissing PROVE TypeInv'
  BY <1>2, NoOpType DEF IndexMissing, Finish, TypeInv, TypeOK, Errors
<1>3. ASSUME IndexEnd PROVE TypeInv'
  BY <1>3, NoOpType DEF IndexEnd, Finish, TypeInv, TypeOK, Errors, Op
<1> QED
  BY <1>1, <1>2, <1>3

(* each step of a scan,                                                    *)
LEMMA ScanStepType ==
  ASSUME TypeInv, ScanStep \/ ScanFail \/ ScanEnd
  PROVE  TypeInv'
<1>1. ASSUME ScanStep \/ ScanFail
      PROVE  Table(Scanned.db) /\ Bounded(Scanned.db) /\ Scanned.err \in Errors
  <2>1. op.pos \in Position /\ op.pos \in 1 .. Len(tape) /\ tape \in Seq(Header)
    BY <1>1 DEF ScanStep, ScanFail, TypeInv, TypeOK, Op, Position
  <2>2. tape[op.pos] \in Header
    BY <2>1, ElementOfSeq
  <2> QED
    BY <2>1, <2>2, IndexedBounded DEF Scanned, TypeInv
<1>2. ASSUME ScanStep PROVE TypeInv'
  <2>1. op' \in Op
    BY <1>2 DEF ScanStep, TypeInv, TypeOK, Op, Position
  <2> QED
    BY <1>1, <1>2, <2>1 DEF ScanStep, TypeInv, TypeOK, Table
<1>3. ASSUME ScanFail PROVE TypeInv'
  <2>1. CASE op.kind = "recover"
    <3>1. /\ pc' = "down" /\ op' = NoOp /\ err' = Scanned.err
          /\ UNCHANGED <<tape, drive, trusted>> /\ db' = Scanned.db
      BY <1>3, <2>1 DEF ScanFail
    <3> QED
      BY <1>1, <1>3, <3>1, NoOpType DEF TypeInv, TypeOK, Table
  <2>2. CASE op.kind # "recover"
    <3>1. MkdirRoot /\ db' = Scanned.db
      BY <1>3, <2>2 DEF ScanFail
    <3> QED
      BY <1>1, <1>3, <3>1, MkdirRootType DEF TypeInv, TypeOK, Table
  <2> QED
    BY <2>1, <2>2
<1>4. ASSUME ScanEnd PROVE TypeInv'
  BY <1>4, NoOpType DEF ScanEnd, TypeInv, TypeOK, Op
<1> QED
  BY <1>2, <1>3, <1>4

(* and each start and end of a process.                                    *)
LEMMA ScanType ==
  ASSUME TypeInv, NEW kind \in Kinds, NEW purge \in BOOLEAN, Scan(kind, purge)
  PROVE  TypeInv'
<1>1. op' \in Op
  BY NoOpType DEF Scan, Op
<1>2. Table({}) /\ Bounded({})
  BY FS_EmptySet DEF Table, Bounded, Within
<1>3. db' = db \/ db' = {}
  BY DEF Scan
<1>4. Table(db') /\ Bounded(db')
  BY <1>2, <1>3 DEF TypeInv
<1> QED
  BY <1>1, <1>4 DEF Scan, TypeInv, TypeOK, Table, Errors

LEMMA ProcessType ==
  ASSUME TypeInv,
         \/ Restart \/ InitializeScan \/ InitializeFresh \/ Initialize
         \/ \E purge \in BOOLEAN : RecoveryIndex(purge)
         \/ Stop \/ Crash \/ LoseIndex
  PROVE  TypeInv'
<1>0. "initialize" \in Kinds /\ "recover" \in Kinds /\ Root \in Name
  BY DEF Kinds, Root, Name
<1>1. ASSUME Restart PROVE TypeInv'
  BY <1>1 DEF Restart, TypeInv, TypeOK
<1>2. ASSUME InitializeScan PROVE TypeInv'
  BY <1>0, <1>2, ScanType DEF InitializeScan
<1>3. ASSUME InitializeFresh PROVE TypeInv'
  BY <1>3, MkdirRootType DEF InitializeFresh, TypeInv, TypeOK
<1>4. ASSUME Initialize PROVE TypeInv'
  <2>1. PICK mode \in Modes : Begin("initialize", Root, <<RootHeader(mode)>>, TRUE, TRUE)
    BY <1>4 DEF Initialize
  <2>2. /\ tape' \in Seq(Header) /\ drive' \in BOOLEAN /\ pc' = "write"
        /\ op' \in Op /\ err' \in Errors /\ trusted' \in BOOLEAN
    BY <1>0, <2>1, RootHeaderType, BeginType
  <2> QED
    BY <1>4, <2>2 DEF Initialize, TypeInv, TypeOK
<1>5. ASSUME NEW purge \in BOOLEAN, RecoveryIndex(purge) PROVE TypeInv'
  BY <1>0, <1>5, ScanType DEF RecoveryIndex
<1>6. ASSUME Stop PROVE TypeInv'
  BY <1>6 DEF Stop, TypeInv, TypeOK
<1>7. ASSUME Crash PROVE TypeInv'
  BY <1>7, NoOpType DEF Crash, TypeInv, TypeOK
<1>8. ASSUME LoseIndex PROVE TypeInv'
  <2>1. Table({}) /\ Bounded({})
    BY FS_EmptySet DEF Table, Bounded, Within
  <2> QED
    BY <1>8, <2>1 DEF LoseIndex, TypeInv, TypeOK
<1> QED
  BY <1>1, <1>2, <1>3, <1>4, <1>5, <1>6, <1>7, <1>8

LEMMA InitType == Init => TypeInv
<1> SUFFICES ASSUME Init PROVE TypeInv
  OBVIOUS
<1>1. Table({}) /\ Bounded({})
  BY FS_EmptySet DEF Table, Bounded, Within
<1>2. <<>> \in Seq(Header)
  OBVIOUS
<1> QED
  BY <1>1, <1>2, NoOpType DEF Init, TypeInv, TypeOK, Errors

LEMMA NextType == TypeInv /\ [Next]_vars => TypeInv'
<1> SUFFICES ASSUME TypeInv, [Next]_vars PROVE TypeInv'
  OBVIOUS
<1>1. CASE UNCHANGED vars
  BY <1>1 DEF vars, TypeInv, TypeOK
<1>2. ASSUME NEW srcs \in Batches, Archive(srcs) PROVE TypeInv'
  BY <1>2, ArchiveType
<1>6. ASSUME NEW srcs \in Batches, ArchiveOverwriting(srcs) PROVE TypeInv'
  BY <1>6, OverwritingType
<1>3. ASSUME NEW from \in ClientNames, NEW to \in ClientNames, Move(from, to)
      PROVE  TypeInv'
  BY <1>3, MoveType
<1>4. ASSUME NEW n \in ClientNames, Delete(n) PROVE TypeInv'
  BY <1>4, DeleteType
<1>5. CASE Progress
  BY <1>5, WriteType, IndexType, ScanStepType DEF Progress
<1> QED
  BY <1>1, <1>2, <1>3, <1>4, <1>5, <1>6, UpdateType, ProcessType DEF Next

(* Every variable keeps its type, for every client and environment; the    *)
(* position an operation starts from always exists (archive.go reads it    *)
(* with GetLastIndexedRecordAndBlock).                                     *)
THEOREM TypeCorrect == Spec => []TypeOK
<1>1. Spec => []TypeInv
  BY InitType, NextType, PTL DEF Spec
<1>2. TypeInv => TypeOK
  BY DEF TypeInv
<1> QED
  BY <1>1, <1>2, PTL
-----------------------------------------------------------------------------
(* How a step changes index and tape.                                      *)

(* The index is left alone, purged, or takes one header at the position    *)
(* indexing has come to.                                                   *)
Taken ==
  /\ pc \in {"index", "scan"} /\ op.pos \in Position /\ op.pos <= Len(tape)
  /\ tape' = tape
  /\ \E h \in Header : db' = IndexHeader(db, op.pos, h).db

LEMMA IndexTakes ==
  ASSUME TypeInv, IndexStep \/ ScanStep \/ ScanFail
  PROVE  Taken
<1>1. ASSUME IndexStep PROVE Taken
  <2>1. op \in Op /\ op.pos - op.base \in 1 .. Len(op.hdrs)
    BY <1>1 DEF IndexStep, TypeInv, TypeOK, Op, Position
  <2>2. op.pos \in Position /\ op.hdrs[op.pos - op.base] \in Header
    BY <2>1, ElementOfSeq DEF Op
  <2>3. db' = IndexHeader(db, op.pos, op.hdrs[op.pos - op.base]).db
    BY <1>1 DEF IndexStep
  <2>4. pc = "index" /\ op.pos <= Len(tape) /\ tape' = tape
    BY <1>1 DEF IndexStep, Finish
  <2> QED
    BY <2>2, <2>3, <2>4 DEF Taken
<1>2. ASSUME ScanStep \/ ScanFail PROVE Taken
  <2>1. op.pos \in Position /\ op.pos \in 1 .. Len(tape) /\ tape \in Seq(Header)
    BY <1>2 DEF ScanStep, ScanFail, TypeInv, TypeOK, Op, Position
  <2>2. tape[op.pos] \in Header
    BY <2>1, ElementOfSeq
  <2>3. db' = IndexHeader(db, op.pos, tape[op.pos]).db
    BY <1>2 DEF ScanStep, ScanFail, Scanned
  <2>4. pc = "scan" /\ tape' = tape
    BY <1>2 DEF ScanStep, ScanFail, MkdirRoot, Begin
  <2> QED
    BY <2>1, <2>2, <2>3, <2>4 DEF Taken
<1> QED
  BY <1>1, <1>2

LEMMA OthersKeepIndex ==
  ASSUME [Next]_vars
  PROVE  db' = db \/ db' = {} \/ IndexStep \/ ScanStep \/ ScanFail
<1>1. ASSUME WriteHeader \/ StartIndex \/ IndexMissing \/ IndexEnd \/ ScanEnd
      PROVE  db' = db \/ db' = {}
  BY <1>1 DEF WriteHeader, StartIndex, IndexMissing, IndexEnd, ScanEnd
<1>2. ASSUME NEW srcs \in Batches, Archive(srcs) \/ ArchiveOverwriting(srcs)
      PROVE  db' = db
  BY <1>2 DEF Archive, ArchiveOverwriting, Call
<1>3. ASSUME NEW from \in ClientNames, NEW to \in ClientNames, Move(from, to)
      PROVE  db' = db
  BY <1>3 DEF Move, Call
<1>4. ASSUME NEW n \in ClientNames, Delete(n) PROVE db' = db
  BY <1>4 DEF Delete, Call
<1>5. ASSUME \/ \E srcs \in Batches, skip \in BOOLEAN : UpdateContent(srcs, skip)
             \/ \E row \in db, mode \in Modes : UpdateMetadata(row, mode)
             \/ \E srcs \in Batches : UpdateLocal(srcs)
      PROVE  db' = db
  BY <1>5 DEF UpdateContent, UpdateMetadata, UpdateLocal, Call
<1>6. ASSUME \/ Restart \/ InitializeScan \/ InitializeFresh \/ Initialize
             \/ \E purge \in BOOLEAN : RecoveryIndex(purge)
             \/ Stop \/ Crash \/ LoseIndex
      PROVE  db' = db \/ db' = {}
  BY <1>6 DEF Restart, InitializeScan, InitializeFresh, Initialize, RecoveryIndex, Scan,
              Stop, Crash, LoseIndex
<1>7. CASE UNCHANGED vars
  BY <1>7 DEF vars
<1> QED
  BY <1>1, <1>2, <1>3, <1>4, <1>5, <1>6, <1>7 DEF Next, Progress

LEMMA IndexChanges ==
  ASSUME TypeInv, [Next]_vars
  PROVE  db' = db \/ db' = {} \/ Taken
  BY OthersKeepIndex, IndexTakes

(* Unless a used tape is initialized again it changes only by growing.     *)
LEMMA TapeExtends ==
  ASSUME TypeInv, [Next]_vars, "overwrite" \notin Permit
  PROVE  tape' = tape \/ \E h \in Header : tape' = tape \o <<h>>
<1>1. ASSUME WriteHeader PROVE \E h \in Header : tape' = tape \o <<h>>
  <2>1. op.hdrs \in Seq(Header) /\ op.written + 1 \in 1 .. Len(op.hdrs)
    BY <1>1 DEF WriteHeader, TypeInv, TypeOK, Op
  <2>2. op.hdrs[op.written + 1] \in Header /\ tape \in Seq(Header)
    BY <2>1, ElementOfSeq DEF TypeInv, TypeOK
  <2> QED
    BY <1>1, <2>2, AppendIsConcat DEF WriteHeader
<1>2. ASSUME Progress, ~WriteHeader PROVE tape' = tape
  BY <1>2 DEF Progress, StartIndex, IndexStep, IndexMissing, IndexEnd, Finish,
              ScanStep, ScanFail, ScanEnd, MkdirRoot, Begin
<1>3. ASSUME \/ \E srcs \in Batches : Archive(srcs) \/ ArchiveOverwriting(srcs)
             \/ \E from, to \in ClientNames : Move(from, to)
             \/ \E n \in ClientNames : Delete(n)
      PROVE  tape' = tape
  BY <1>3 DEF Archive, ArchiveOverwriting, Move, Delete, Call, Begin
<1>4. ASSUME \/ \E srcs \in Batches, skip \in BOOLEAN : UpdateContent(srcs, skip)
             \/ \E row \in db, mode \in Modes : UpdateMetadata(row, mode)
             \/ \E srcs \in Batches : UpdateLocal(srcs)
      PROVE  tape' = tape
  BY <1>4 DEF UpdateContent, UpdateMetadata, UpdateLocal, Call, Begin
<1>5. ASSUME \/ Restart \/ InitializeScan \/ InitializeFresh
             \/ \E purge \in BOOLEAN : RecoveryIndex(purge)
             \/ Stop \/ Crash \/ LoseIndex
      PROVE  tape' = tape
  BY <1>5 DEF Restart, InitializeScan, InitializeFresh, RecoveryIndex, Scan, MkdirRoot,
              Begin, Stop, Crash, LoseIndex
<1>6. ASSUME Initialize PROVE tape' = tape
  BY <1>6 DEF Initialize, Begin
<1>7. CASE UNCHANGED vars
  BY <1>7 DEF vars
<1> QED
  BY <1>1, <1>2, <1>3, <1>4, <1>5, <1>6, <1>7 DEF Next

LEMMA TapeGrows ==
  ASSUME TypeInv, [Next]_vars, "overwrite" \notin Permit
  PROVE  Len(tape) <= Len(tape')
<1>1. tape \in Seq(Header) /\ Len(tape) \in Nat
  BY DEF TypeInv, TypeOK
<1>2. ASSUME NEW h \in Header, tape' = tape \o <<h>> PROVE Len(tape') = Len(tape) + 1
  BY <1>1, <1>2, AppendIsConcat, AppendProperties
<1>3. CASE tape' = tape
  BY <1>1, <1>3
<1>4. CASE \E h \in Header : tape' = tape \o <<h>>
  BY <1>1, <1>2, <1>4
<1> QED
  BY <1>3, <1>4, TapeExtends

(* At most one row has a key, live or deleted: the rename statement of     *)
(* MoveHeader, the only one that changes a key, fails before it makes two. *)
THEOREM KeysStayUnique == Spec => []PrimaryKey
<1>1. Init => PrimaryKey
  BY DEF Init, PrimaryKey
<1>2. TypeInv /\ PrimaryKey /\ [Next]_vars => PrimaryKey'
  <2> SUFFICES ASSUME TypeInv, PrimaryKey, [Next]_vars PROVE PrimaryKey'
    OBVIOUS
  <2>1. CASE db' = db \/ db' = {}
    BY <2>1 DEF PrimaryKey
  <2>2. CASE Taken
    <3>1. PICK h \in Header : db' = IndexHeader(db, op.pos, h).db
      BY <2>2 DEF Taken
    <3>2. KeysUnique(db) /\ Table(db) /\ op.pos \in Position
      BY <2>2 DEF PrimaryKey, KeysUnique, TypeInv, Taken
    <3>3. PICK k \in Nat : Within(db, k, k)
      BY DEF TypeInv, Bounded
    <3>4. Within(db, k + op.pos, k + op.pos) /\ k + op.pos \in Nat /\ op.pos <= k + op.pos
      BY <3>2, <3>3 DEF Within, Table, Row, Position
    <3>5. KeysUnique(IndexHeader(db, op.pos, h).db)
      BY <3>2, <3>4, IndexedUnique
    <3> QED
      BY <3>1, <3>5 DEF KeysUnique, PrimaryKey
  <2> QED
    BY <2>1, <2>2, IndexChanges
<1>3. Spec => []TypeInv
  BY InitType, NextType, PTL DEF Spec
<1> QED
  BY <1>1, <1>2, <1>3, PTL DEF Spec

(* Rows never point past the end of the tape, as long as no used tape is   *)
(* initialized again: not after crashes at any step, restarts on a stale   *)
(* index or scans that do not purge it.                                    *)
THEOREM PositionsOnTape ==
  ASSUME "overwrite" \notin Permit
  PROVE  Spec => []Positions
<1>1. Init => Positions
  BY DEF Init, Positions
<1>2. TypeInv /\ Positions /\ [Next]_vars => Positions'
  <2> SUFFICES ASSUME TypeInv, Positions, [Next]_vars PROVE Positions'
    OBVIOUS
  <2>0. Len(tape) \in Nat /\ Len(tape') \in Nat /\ Len(tape) <= Len(tape')
    BY TapeGrows, NextType DEF TypeInv, TypeOK
  <2>1. CASE db' = db \/ db' = {}
    BY <2>0, <2>1 DEF Positions, TypeInv, Table, Row, Position
  <2>2. CASE Taken
    <3>1. PICK h \in Header : db' = IndexHeader(db, op.pos, h).db
      BY <2>2 DEF Taken
    <3>2. Table(db) /\ Within(db, Len(tape), Len(tape))
      BY DEF TypeInv, Positions, Within
    <3>3. op.pos \in Position /\ op.pos <= Len(tape) /\ tape' = tape
      BY <2>2 DEF Taken
    <3>4. Within(db', Len(tape), Len(tape))
      BY <2>0, <3>1, <3>2, <3>3, IndexedTable
    <3> QED
      BY <3>3, <3>4 DEF Within, Positions
  <2> QED
    BY <2>1, <2>2, IndexChanges
<1>3. Spec => []TypeInv
  BY InitType, NextType, PTL DEF Spec
<1> QED
  BY <1>1, <1>2, <1>3, PTL DEF Spec
-----------------------------------------------------------------------------
(* The position indexing continues from.                                   *)

(* Unless indexing is repeated on an index that was not purged, headers    *)
(* are indexed in the order of the tape: nothing in the index is newer     *)
(* than the position the operation has come to.                            *)
Ahead ==
  /\ pc = "write" /\ ~op.overwrite => \A r \in db : r.last <= op.base
  /\ pc \in {"index", "scan"} => \A r \in db : r.last < op.pos

LEMMA CallAhead ==
  ASSUME TypeInv, NEW kind, NEW target, NEW hdrs, Call(kind, target, hdrs)
  PROVE  Ahead'
<1>1. pc' = "write" /\ ~op'.overwrite /\ op'.base = GetLastIndexed(db) /\ db' = db
  BY DEF Call, Begin
<1>2. \A r \in db : r.last <= GetLastIndexed(db)
  BY LastIndexedIsGreatest DEF TypeInv, Bounded
<1> QED
  BY <1>1, <1>2 DEF Ahead

LEMMA TakenAhead ==
  ASSUME TypeInv, Ahead, Taken
  PROVE  NotOlder(db', db) /\ \A r \in db' : r.last <= op.pos
<1>1. PICK h \in Header : db' = IndexHeader(db, op.pos, h).db
  BY DEF Taken
<1>2. PICK k \in Nat : Within(db, k, k)
  BY DEF TypeInv, Bounded
<1>3. op.pos \in Position /\ op.pos \in Nat /\ k + op.pos \in Nat /\ op.pos <= k + op.pos
  BY <1>2 DEF Taken, Position
<1>4. Within(db, k + op.pos, op.pos)
  BY <1>2, <1>3 DEF Within, Ahead, Taken, TypeInv, Table, Row, Position
<1>5. NotOlder(IndexHeader(db, op.pos, h).db, db)
  BY <1>3, <1>4, IndexedNotOlder DEF TypeInv
<1>6. Within(IndexHeader(db, op.pos, h).db, k + op.pos, op.pos)
  BY <1>3, <1>4, IndexedTable DEF TypeInv
<1> QED
  BY <1>1, <1>5, <1>6 DEF Within

LEMMA AheadInvariant ==
  ASSUME "reindex" \notin Permit
  PROVE  TypeInv /\ Ahead /\ [Next]_vars => Ahead'
<1> SUFFICES ASSUME TypeInv, Ahead, [Next]_vars PROVE Ahead'
  OBVIOUS
<1>1. ASSUME NEW srcs \in Batches, Archive(srcs) PROVE Ahead'
  BY <1>1, CallAhead DEF Archive
<1>2. ASSUME NEW from \in ClientNames, NEW to \in ClientNames, Move(from, to) PROVE Ahead'
  BY <1>2, CallAhead DEF Move
<1>3. ASSUME NEW n \in ClientNames, Delete(n) PROVE Ahead'
  BY <1>3, CallAhead DEF Delete
<1>4. ASSUME \/ \E srcs \in Batches, skip \in BOOLEAN : UpdateContent(srcs, skip)
             \/ \E row \in db, mode \in Modes : UpdateMetadata(row, mode)
             \/ \E srcs \in Batches : UpdateLocal(srcs)
      PROVE  Ahead'
  BY <1>4, CallAhead DEF UpdateContent, UpdateMetadata, UpdateLocal
<1>5. ASSUME \/ Restart \/ InitializeFresh \/ Initialize \/ Stop \/ Crash \/ LoseIndex
             \/ \E srcs \in Batches : ArchiveOverwriting(srcs)
      PROVE  Ahead'
  BY <1>5 DEF Restart, InitializeFresh, Initialize, ArchiveOverwriting, MkdirRoot,
              Begin, Stop, Crash, LoseIndex, Ahead
<1>6. ASSUME InitializeScan \/ \E purge \in BOOLEAN : RecoveryIndex(purge)
      PROVE  Ahead'
  <2>1. db' = {}
    BY <1>6 DEF InitializeScan, RecoveryIndex, Scan
  <2>2. pc' = "scan"
    BY <1>6 DEF InitializeScan, RecoveryIndex, Scan
  <2> QED
    BY <2>1, <2>2 DEF Ahead
<1>7. ASSUME WriteHeader PROVE Ahead'
  BY <1>7 DEF WriteHeader, Ahead, TypeInv, TypeOK, Op
<1>8. ASSUME StartIndex PROVE Ahead'
  <2>1. pc' = "index" /\ op'.pos = op.base + 1 /\ op.base \in Nat
    BY <1>8 DEF StartIndex, TypeInv, TypeOK, Op
  <2>2. \A r \in db' : r.last <= op.base /\ r.last \in Nat
    BY <1>8 DEF StartIndex, Ahead, TypeInv, Table, Row, Position
  <2> QED
    BY <2>1, <2>2 DEF Ahead
<1>9. ASSUME IndexStep \/ ScanStep \/ ScanFail PROVE Ahead'
  <2>1. CASE pc' \in {"index", "scan"}
    <3>1. Taken /\ op'.pos = op.pos + 1
      <4>1. pc' = pc /\ op' = [op EXCEPT !.pos = op.pos + 1]
        BY <1>9, <2>1 DEF IndexStep, ScanStep, ScanFail, Finish, MkdirRoot, Begin
      <4>2. Taken
        BY <1>9, IndexTakes
      <4> QED
        BY <4>1, <4>2 DEF TypeInv, TypeOK, Op
    <3>2. op.pos \in Nat /\ \A r \in db' : r.last <= op.pos /\ r.last \in Nat
      BY <3>1, TakenAhead, NextType DEF Taken, TypeInv, Table, Row, Position
    <3> QED
      BY <2>1, <3>1, <3>2 DEF Ahead
  <2>2. CASE pc' \notin {"index", "scan"}
    <3>1. pc' = "write" => op'.overwrite
      BY <1>9, <2>2 DEF IndexStep, ScanStep, ScanFail, Finish, MkdirRoot, Begin
    <3> QED
      BY <2>2, <3>1 DEF Ahead
  <2> QED
    BY <2>1, <2>2
<1>10. ASSUME IndexMissing \/ IndexEnd \/ ScanEnd PROVE Ahead'
  BY <1>10 DEF IndexMissing, IndexEnd, ScanEnd, Finish, Ahead
<1>11. CASE UNCHANGED vars
  BY <1>11 DEF vars, Ahead
<1> QED
  BY <1>1, <1>2, <1>3, <1>4, <1>5, <1>6, <1>7, <1>8, <1>9, <1>10, <1>11
     DEF Next, Progress

(* As long as recovery purges the index it rebuilds, the position the next *)
(* operation indexes from never moves back, whatever headers are indexed   *)
(* and wherever a crash interrupts: no header is indexed twice.            *)
THEOREM NeverBack ==
  ASSUME "reindex" \notin Permit
  PROVE  Spec => HighWaterMark
<1>1. Init => Ahead
  BY DEF Init, Ahead
<1>2. TypeInv /\ Ahead /\ [Next]_vars
        => [db' # {} => GetLastIndexed(db') >= GetLastIndexed(db)]_vars
  <2> SUFFICES ASSUME TypeInv, Ahead, [Next]_vars, db' # {}, ~UNCHANGED vars
               PROVE  GetLastIndexed(db') >= GetLastIndexed(db)
    OBVIOUS
  <2>1. GetLastIndexed(db) \in Nat /\ GetLastIndexed(db') \in Nat /\ TypeInv'
    <3>1. TypeInv'
      BY NextType
    <3>2. GetLastIndexed(db') \in Position
      BY <3>1, LastIndexedIsGreatest DEF TypeInv, Bounded
    <3> QED
      BY <3>1, <3>2, LastIndexedType DEF Position
  <2>2. CASE db' = db
    BY <2>1, <2>2
  <2>3. CASE Taken /\ db = {}
    <3>1. GetLastIndexed(db') \in Position
      BY <2>1, LastIndexedIsGreatest DEF TypeInv, Bounded
    <3> QED
      BY <2>3, <3>1 DEF GetLastIndexed, Position
  <2>4. CASE Taken /\ db # {}
    <3>1. PICK r \in db : r.last = GetLastIndexed(db)
      BY <2>4, LastIndexedIsGreatest DEF TypeInv, Bounded
    <3>2. PICK s \in db' : r.last <= s.last
      BY <2>4, TakenAhead DEF NotOlder
    <3>3. s.last <= GetLastIndexed(db') /\ s.last \in Nat
      BY <2>1, LastIndexedIsGreatest DEF TypeInv, Bounded, Table, Row, Position
    <3> QED
      BY <2>1, <3>1, <3>2, <3>3
  <2> QED
    BY <2>2, <2>3, <2>4, IndexChanges
<1>3. Spec => []TypeInv
  BY InitType, NextType, PTL DEF Spec
<1>4. TypeInv /\ Ahead /\ [Next]_vars => Ahead'
  BY AheadInvariant
<1> QED
  BY <1>1, <1>2, <1>3, <1>4, PTL DEF Spec, HighWaterMark

-----------------------------------------------------------------------------
(* Indexing a tape from scratch.                                           *)

(* Indexing from scratch is defined by what one header more yields.        *)
LEMMA ReplayedDef ==
  ASSUME NEW t \in Seq(Header)
  PROVE  /\ Replayed(t)[0] = Indexed({})
         /\ \A i \in 1 .. Len(t) : Replayed(t)[i] = After(Replayed(t)[i - 1], i, t[i])
<1>1. \A i \in 1 .. Len(t) : 0 + i = i
  OBVIOUS
<1> QED
  BY <1>1, IndexedUpToDef DEF Replayed

(* It yields tables, whatever is on the tape.                              *)
LEMMA ReplayedType ==
  ASSUME NEW t \in Seq(Header), NEW i \in 0 .. Len(t)
  PROVE  /\ Table(Replayed(t)[i].db) /\ Bounded(Replayed(t)[i].db)
         /\ Replayed(t)[i].err \in Errors
<1> DEFINE Typed(r) == Table(r.db) /\ Bounded(r.db) /\ r.err \in Errors
           S == {n \in 0 .. Len(t) : Typed(Replayed(t)[n])}
<1>0. Len(t) \in Nat
  OBVIOUS
<1>1. 0 \in S
  <2>1. Typed(Indexed({}))
    BY FS_EmptySet DEF Table, Bounded, Within, Indexed, Errors
  <2> QED
    BY <2>1, ReplayedDef
<1>2. ASSUME NEW n \in 1 .. Len(t), n - 1 \in S PROVE n \in S
  <2> DEFINE before == Replayed(t)[n - 1]
  <2>1. Typed(before) /\ Replayed(t)[n] = After(before, n, t[n])
    BY <1>2, ReplayedDef
  <2>2. n \in Position /\ t[n] \in Header
    BY ElementOfSeq DEF Position
  <2> HIDE DEF before
  <2>3. Typed(IndexHeader(before.db, n, t[n]))
    BY <2>1, <2>2, IndexedBounded
  <2> QED
    BY <2>1, <2>3 DEF After
<1>3. \A n \in 0 .. Len(t) : n \in S
  <2> HIDE DEF S
  <2> QED
    BY <1>0, <1>1, <1>2, UpTo
<1> QED
  BY <1>3

(* What it yields is a table and an error, and nothing else.               *)
LEMMA ReplayedRecord ==
  ASSUME NEW t \in Seq(Header), NEW i \in 0 .. Len(t), Replayed(t)[i].err = "none"
  PROVE  Replayed(t)[i] = Indexed(Replayed(t)[i].db)
<1> DEFINE IsRecord(r) == r = [db |-> r.db, err |-> r.err]
           S == {n \in 0 .. Len(t) : IsRecord(Replayed(t)[n])}
<1>0. Len(t) \in Nat
  OBVIOUS
<1>1. 0 \in S
  BY <1>0, ReplayedDef DEF Indexed
<1>2. ASSUME NEW n \in 1 .. Len(t), n - 1 \in S PROVE n \in S
  <2> DEFINE before == Replayed(t)[n - 1]
  <2>1. IsRecord(before) /\ Replayed(t)[n] = After(before, n, t[n]) /\ t[n] \in Header
    BY <1>2, ReplayedDef, ElementOfSeq
  <2> HIDE DEF before
  <2>2. IsRecord(IndexHeader(before.db, n, t[n]))
    <3>1. t[n].action \in Actions
      BY <2>1 DEF Header
    <3>2. IndexHeader(before.db, n, t[n]) \in
            {IndexCreate(before.db, n, t[n]), IndexDelete(before.db, n, t[n]),
             IndexUpdate(before.db, n, t[n])}
      BY <3>1 DEF IndexHeader, Actions
    <3> QED
      BY <3>2 DEF IndexCreate, IndexDelete, IndexUpdate, Indexed, Failed
  <2> QED
    BY <2>1, <2>2 DEF After
<1>3. \A n \in 0 .. Len(t) : n \in S
  <2> HIDE DEF S
  <2> QED
    BY <1>0, <1>1, <1>2, UpTo
<1> QED
  BY <1>3 DEF Indexed

(* Headers written later do not change what the earlier ones yield.        *)
LEMMA ReplayedPrefix ==
  ASSUME NEW t \in Seq(Header), NEW s \in Seq(Header), NEW i \in 0 .. Len(t)
  PROVE  Replayed(t \o s)[i] = Replayed(t)[i]
<1> DEFINE u == t \o s
           S == {n \in 0 .. Len(t) : Replayed(u)[n] = Replayed(t)[n]}
<1>0. /\ u \in Seq(Header) /\ Len(u) = Len(t) + Len(s)
      /\ \A n \in 1 .. Len(t) : u[n] = t[n]
      /\ Len(t) \in Nat /\ Len(s) \in Nat
  BY ConcatProperties
<1> HIDE DEF u
<1>1. 0 \in S
  <2>1. Replayed(u)[0] = Indexed({}) /\ Replayed(t)[0] = Indexed({})
    BY <1>0, ReplayedDef
  <2> QED
    BY <1>0, <2>1
<1>2. ASSUME NEW n \in 1 .. Len(t), n - 1 \in S PROVE n \in S
  <2>1. n \in 1 .. Len(u)
    BY <1>0
  <2>2. /\ Replayed(u)[n] = After(Replayed(u)[n - 1], n, u[n])
        /\ Replayed(t)[n] = After(Replayed(t)[n - 1], n, t[n])
    BY <1>0, <2>1, ReplayedDef
  <2> QED
    BY <1>0, <1>2, <2>2
<1>3. \A n \in 0 .. Len(t) : n \in S
  <2> HIDE DEF S
  <2> QED
    BY <1>0, <1>1, <1>2, UpTo
<1> QED
  BY <1>3 DEF u

-----------------------------------------------------------------------------
(* Clients that keep to live names.                                        *)

UsedNames == ClientNames \cup {src.name : src \in Sources}

(* The components that occur in what clients name.                         *)
Used == UNION {{n[i] : i \in 1 .. Len(n)} : n \in UsedNames}

(* In a LIKE pattern a component in use matches no other one and no path of *)
(* several, and no name in use ends in the suffix.                         *)
PlainNames ==
  /\ ExactOn(Used)
  /\ \A n \in UsedNames : Unsuffixed(n)

(* Processes may die and indexes may be lost or overwritten, but nobody    *)
(* goes on with an index that a crash left behind, scans twice without     *)
(* purging, renames onto a name some row has, edits what is not there or   *)
(* makes links.                                                            *)
Disciplined == Permit \subseteq {"crash", "lose", "overwrite"} /\ PlainNames

PlainName(n) == n \in Seq(Used) /\ Unsuffixed(n)

PlainTable(x) ==
  /\ Table(x) /\ KeysUnique(x)
  /\ \A r \in x : r.link = NoName /\ r.from = NoName /\ PlainName(r.name)

(* The content of a live row is the one its position on the tape holds.    *)
Stored(x, t) ==
  \A r \in Live(x) :
    /\ t[r.record].data = r.size
    /\ t[r.record].action = "create" \/ t[r.record].replaces

(* What the first i headers of a tape may have made of the index.          *)
Fit(x, t, i) == PlainTable(x) /\ Within(x, i, i) /\ Stored(x, t)

(* The header indexed last has touched some row.                           *)
Touched(x, i) == \E r \in x : r.last = i

(* What clients see of a table.                                            *)
Seen(r) == [type |-> r.type, mode |-> r.mode, data |-> r.size]
Entries(x) == [n \in {r.name : r \in Live(x)} |-> Seen(GetHeader(x, n))]

(* What a header does to that.                                             *)
Effect(f, h) ==
  IF h.action = "delete" THEN [m \in DOMAIN f \ {h.name} |-> f[m]]
  ELSE IF h.from # NoName
    THEN [m \in (DOMAIN f \ {h.from}) \cup {h.name} |->
            IF m = h.name THEN f[h.from] ELSE f[m]]
  ELSE [m \in DOMAIN f \cup {h.name} |-> IF m = h.name THEN Seen(h) ELSE f[m]]

Does(x, h, y) == Entries(y) = Effect(Entries(x), h)

(* The header at p can be indexed, leaves its position and has its effect. *)
Fits(x, h, t, p) ==
  LET r == IndexHeader(x, p, h)
  IN  r.err = "none" /\ Fit(r.db, t, p) /\ Touched(r.db, p) /\ Does(x, h, r.db)

(* A tape that can be indexed from scratch, and each of whose headers      *)
(* leaves its position in the index and has its effect.                    *)
GoodAt(t, i) ==
  /\ Replayed(t)[i].err = "none"
  /\ Fit(Replayed(t)[i].db, t, i)
  /\ i > 0 => /\ Touched(Replayed(t)[i].db, i)
              /\ Does(Replayed(t)[i - 1].db, t[i], Replayed(t)[i].db)
Good(t) == \A i \in 0 .. Len(t) : GoodAt(t, i)

-----------------------------------------------------------------------------
(* Names.                                                                  *)

(* The components of a name in use are in use.                             *)
LEMMA UsedType ==
  /\ Used \subseteq Components
  /\ \A n \in UsedNames : n \in Seq(Used)
<1>1. \A n \in UsedNames : n \in Seq(Components)
  BY SourceType, OperationsAssumption DEF UsedNames, Source, Name
<1>2. ASSUME NEW n \in UsedNames, NEW i \in 1 .. Len(n) PROVE n[i] \in Used
  BY DEF Used
<1>3. ASSUME NEW n \in UsedNames PROVE n \in Seq(Used)
  <2>1. n \in [1 .. Len(n) -> Used] /\ Len(n) \in Nat
    BY <1>1, <1>2
  <2> QED
    BY <2>1, FunctionIsSeq
<1>4. Used \subseteq Components
  BY <1>1, ElementOfSeq DEF Used
<1> QED
  BY <1>3, <1>4

LEMMA PlainIsName ==
  ASSUME NEW n, PlainName(n)
  PROVE  n \in Name /\ RemoveSuffix(n) = n
<1>1. PlainOver(Used, n) /\ Used \in SUBSET Components
  BY UsedType DEF PlainName, PlainOver
<1> QED
  BY <1>1, PlainOverIsName

(* What clients name is plain.                                             *)
LEMMA UsedArePlain ==
  ASSUME PlainNames
  PROVE  /\ \A n \in ClientNames : PlainName(n)
         /\ \A src \in Sources : PlainName(src.name)
         /\ PlainName(Root)
<1>1. \A n \in UsedNames : PlainName(n)
  BY UsedType DEF PlainNames, PlainName
<1>2. PlainName(Root)
  BY DEF PlainName, Unsuffixed, Root
<1> QED
  BY <1>1, <1>2 DEF UsedNames

(* So is what comes of moving one.                                         *)
LEMMA RebaseIsPlain ==
  ASSUME NEW n, NEW from, NEW to, PlainName(n), PlainName(from), PlainName(to)
  PROVE  PlainName(Rebase(n, from, to))
  BY RebaseIsPlainOver DEF PlainName, PlainOver

(* Where LIKE confuses nothing, it finds what lies below a name.           *)
LEMMA LikeIsBelow ==
  ASSUME PlainNames, NEW n, NEW d, PlainName(n), PlainName(d), LikeBelow(n, d)
  PROVE  Below(n, d)
  BY LikeIsBelowOver DEF PlainNames, PlainName, PlainOver

(* Two entries of a tree that is moved get different names.                *)
LEMMA RebaseInjective ==
  ASSUME NEW n \in Name, NEW m \in Name, NEW from \in Name, NEW to \in Name,
         n = from \/ Below(n, from), m = from \/ Below(m, from),
         Rebase(n, from, to) = Rebase(m, from, to)
  PROVE  n = m
<1> DEFINE rest(x) == SubSeq(x, Len(from) + 1, Len(x))
<1>1. ASSUME NEW x \in Name, x = from \/ Below(x, from)
      PROVE  /\ Len(from) <= Len(x) /\ Len(x) \in Nat
             /\ \A i \in 1 .. Len(from) : x[i] = from[i]
             /\ rest(x) \in Name /\ Len(rest(x)) = Len(x) - Len(from)
             /\ \A i \in 1 .. Len(rest(x)) : rest(x)[i] = x[Len(from) + i]
  <2>1. Len(x) \in Nat /\ Len(from) \in Nat /\ Len(from) <= Len(x)
    BY <1>1 DEF Below, Name
  <2>2. \A i \in 1 .. Len(from) : x[i] = from[i]
    BY <1>1, <2>1 DEF Below, Name
  <2>3. \A i \in Len(from) + 1 .. Len(x) : x[i] \in Components
    BY <2>1, ElementOfSeq DEF Name
  <2> QED
    BY <2>1, <2>2, <2>3, SubSeqProperties DEF Name
<1>2. rest(n) = rest(m)
  <2>1. to \o rest(n) = to \o rest(m)
    BY DEF Rebase
  <2>2. rest(n) \in Seq(Components) /\ rest(m) \in Seq(Components) /\ to \in Seq(Components)
    BY <1>1 DEF Name
  <2> HIDE DEF rest
  <2>3. Len(rest(n)) = Len(rest(m))
    BY <2>1, <2>2, ConcatProperties
  <2>4. \A i \in 1 .. Len(rest(n)) : rest(n)[i] = rest(m)[i]
    <3> SUFFICES ASSUME NEW i \in 1 .. Len(rest(n)) PROVE rest(n)[i] = rest(m)[i]
      OBVIOUS
    <3>1. Len(to) + i \in Len(to) + 1 .. Len(to) + Len(rest(n))
      BY <2>2
    <3>2. /\ (to \o rest(n))[Len(to) + i] = rest(n)[i]
          /\ (to \o rest(m))[Len(to) + i] = rest(m)[i]
      BY <2>2, <2>3, <3>1, ConcatProperties
    <3> QED
      BY <2>1, <3>2
  <2> QED
    BY <2>2, <2>3, <2>4, SeqEqual
<1>3. Len(n) = Len(m)
  BY <1>1, <1>2 DEF Name
<1>4. \A i \in 1 .. Len(n) : n[i] = m[i]
  <2> SUFFICES ASSUME NEW i \in 1 .. Len(n) PROVE n[i] = m[i]
    OBVIOUS
  <2>0. Len(from) \in Nat /\ Len(n) \in Nat
    BY DEF Name
  <2>1. CASE i <= Len(from)
    BY <1>1, <1>3, <2>0, <2>1
  <2>2. CASE i > Len(from)
    <3>1. i - Len(from) \in 1 .. Len(rest(n)) /\ Len(from) + (i - Len(from)) = i
      BY <1>1, <2>0, <2>2
    <3>2. rest(n)[i - Len(from)] = n[i] /\ rest(m)[i - Len(from)] = m[i]
      <4> HIDE DEF rest
      <4> QED
        BY <1>1, <1>2, <3>1
    <3> HIDE DEF rest
    <3> QED
      BY <1>2, <3>2
  <2> QED
    BY <2>0, <2>1, <2>2
<1> QED
  BY <1>3, <1>4, SeqEqual DEF Name

-----------------------------------------------------------------------------
(* One header on a plain table.                                            *)

(* Without links a name is a key.                                          *)
LEMMA NameIsKey ==
  ASSUME NEW x, PlainTable(x), NEW r \in x, NEW s \in x, r.name = s.name
  PROVE  r = s
  BY DEF PlainTable, KeysUnique, SameKey

LEMMA LiveIsFound ==
  ASSUME NEW x, PlainTable(x), NEW r \in Live(x)
  PROVE  GetHeader(x, r.name) = r /\ r # NoRow
<1> DEFINE rows == {q \in Live(x) : q.name = r.name}
<1>1. rows = {r}
  BY NameIsKey DEF Live
<1>2. First({r}) = r
  BY DEF First
<1>3. r \in Row
  BY DEF Live, PlainTable, Table
<1> QED
  BY <1>1, <1>2, <1>3, MetadataAssumption DEF GetHeader

(* What a client finds under a name is the live row of that name.          *)
LEMMA FoundIsLive ==
  ASSUME NEW x, PlainTable(x), NEW n \in Name, Lookup(x, n) # NoRow
  PROVE  Lookup(x, n) \in Live(x) /\ Lookup(x, n).name = n
<1>1. GetHeaderByLinkname(x, n) = NoRow
  <2>1. {r \in Live(x) : r.link = n} = {}
    BY PathsAssumption DEF PlainTable, Live
  <2> QED
    BY <2>1 DEF GetHeaderByLinkname, First
<1>2. Lookup(x, n) = GetHeader(x, n)
  BY <1>1 DEF Lookup
<1> QED
  BY <1>2, GetHeaderFound

Renamed(row, name, pos) == [row EXCEPT !.name = name, !.last = pos]
Marked(row, pos) == [row EXCEPT !.deleted = TRUE, !.last = pos]

(* One row in the place of others.                                         *)
Swapped(x, gone, new) == (x \ gone) \cup {new}

(* A plain row, touched by the header at p, in the place of those that had *)
(* its name.                                                               *)
LEMMA SwapFits ==
  ASSUME NEW x, NEW t, NEW p \in Position, Fit(x, t, p - 1),
         NEW gone \in SUBSET x, NEW new \in Row,
         new.link = NoName, new.from = NoName, PlainName(new.name),
         \A r \in x \ gone : r.name # new.name,
         new.record <= p, new.last = p,
         ~new.deleted =>
           /\ t[new.record].data = new.size
           /\ t[new.record].action = "create" \/ t[new.record].replaces
  PROVE  Fit(Swapped(x, gone, new), t, p) /\ Touched(Swapped(x, gone, new), p)
<1> DEFINE y == Swapped(x, gone, new)
<1>1. PlainTable(x) /\ Within(x, p - 1, p - 1) /\ Stored(x, t) /\ p \in Nat
  BY DEF Fit, Position
<1>2. Table(y)
  <2>1. IsFiniteSet(x \ gone)
    BY <1>1, FS_Subset DEF PlainTable, Table
  <2>2. IsFiniteSet(y)
    BY <2>1, FS_AddElement DEF Swapped
  <2> QED
    BY <1>1, <2>2 DEF PlainTable, Table, Swapped
<1>3. KeysUnique(y)
  BY <1>1 DEF PlainTable, KeysUnique, SameKey, Swapped
<1>4. PlainTable(y)
  BY <1>1, <1>2, <1>3 DEF PlainTable, Swapped
<1>5. Within(y, p, p)
  BY <1>1 DEF Within, Swapped, PlainTable, Table, Row, Position
<1>6. Stored(y, t)
  BY <1>1 DEF Stored, Swapped, Live
<1>7. Touched(y, p)
  BY DEF Touched, Swapped
<1> QED
  BY <1>4, <1>5, <1>6, <1>7 DEF Fit

(* The row made from a header with a plain name has that name.             *)
LEMMA EntryOf ==
  ASSUME NEW h \in Header, PlainName(h.name), NEW i \in Position, NEW p \in Position
  PROVE  LET row == TarHeaderToDBHeader(h, i, p)
         IN  /\ IndexedName(h) = h.name
             /\ row \in Row /\ row.name = h.name /\ row.link = h.link
             /\ row.from = h.from /\ row.type = h.type /\ row.size = h.size
             /\ row.mode = h.mode /\ row.record = i /\ row.last = p /\ ~row.deleted
<1>1. IndexedName(h) = h.name
  BY PlainIsName DEF IndexedName
<1> QED
  BY <1>1, HeaderRow DEF TarHeaderToDBHeader

(* A header that creates an entry replaces what has its name.              *)
LEMMA CreateSwaps ==
  ASSUME NEW x, PlainTable(x), NEW p \in Position, NEW h \in Header,
         h.action = "create", h.link = NoName, PlainName(h.name)
  PROVE  IndexHeader(x, p, h)
           = Indexed(Swapped(x, {r \in x : r.name = h.name}, TarHeaderToDBHeader(h, p, p)))
<1> DEFINE row == TarHeaderToDBHeader(h, p, p)
<1>1. row.name = h.name /\ row.link = NoName
  BY EntryOf
<1>2. UpsertHeader(x, row) = Swapped(x, {r \in x : r.name = h.name}, row)
  <2> HIDE DEF row
  <2> QED
    BY <1>1 DEF UpsertHeader, SameKey, Swapped, PlainTable
<1>3. IndexHeader(x, p, h) = Indexed(UpsertHeader(x, row))
  BY DEF IndexHeader, IndexCreate
<1> QED
  BY <1>2, <1>3

(* One that edits an entry replaces its row.                               *)
LEMMA EditSwaps ==
  ASSUME NEW x, PlainTable(x), NEW p \in Position, NEW h \in Header,
         h.action = "update", h.link = NoName, h.from = NoName, PlainName(h.name),
         NEW old \in Live(x), old.name = h.name
  PROVE  IndexHeader(x, p, h)
           = Indexed(Swapped(x, {old},
               TarHeaderToDBHeader(h, IF h.replaces THEN p ELSE old.record, p)))
<1> DEFINE row == TarHeaderToDBHeader(h, IF h.replaces THEN p ELSE old.record, p)
<1>0. old \in x /\ old.record \in Position /\ old.link = NoName
  BY DEF Live, PlainTable, Table, Row
<1>1. row.name = h.name /\ row.link = NoName /\ IndexedName(h) = h.name
  BY <1>0, EntryOf
<1>2. OldName(h) = h.name /\ GetHeader(x, h.name) = old /\ old # NoRow
  BY <1>1, LiveIsFound DEF OldName
<1>3. IndexEdit(x, p, h) = UpdateHeaderMetadata(x, row)
  BY <1>2 DEF IndexEdit
<1>4. UpdateHeaderMetadata(x, row) = Swapped(x, {old}, row)
  <2> HIDE DEF row
  <2>1. \A r \in x : SameKey(r, row) <=> r = old
    BY <1>0, <1>1, NameIsKey DEF SameKey, PlainTable
  <2> QED
    BY <1>0, <2>1 DEF UpdateHeaderMetadata, Swapped
<1>5. IndexHeader(x, p, h) = Indexed(IndexEdit(x, p, h))
  BY DEF IndexHeader, IndexUpdate
<1> QED
  BY <1>3, <1>4, <1>5

(* One that renames an entry to a name no row has renames its row.         *)
LEMMA RenameSwaps ==
  ASSUME NEW x, PlainTable(x), NEW p \in Position, NEW h \in Header,
         h.action = "update", h.link = NoName, PlainName(h.name),
         NEW old \in Live(x), h.from = old.name, \A r \in x : r.name # h.name
  PROVE  IndexHeader(x, p, h)
           = Indexed(Swapped(x, {old}, Renamed(old, h.name, p)))
<1>0. old \in x /\ old.record \in Position /\ old.name \in Name /\ old.name # NoName
  BY PathsAssumption DEF Live, PlainTable, Table, Row
<1>1. IndexedName(h) = h.name /\ OldName(h) = old.name
  BY <1>0, EntryOf DEF OldName
<1>2. ASSUME NEW i \in Position
      PROVE  UpdateHeaderMetadata(x, TarHeaderToDBHeader(h, i, p)) = x
  <2>1. TarHeaderToDBHeader(h, i, p).name = h.name
    BY <1>2, EntryOf
  <2> QED
    BY <2>1 DEF UpdateHeaderMetadata, SameKey
<1>3. IndexEdit(x, p, h) = x
  BY <1>0, <1>1, <1>2, LiveIsFound DEF IndexEdit
<1>4. ~MoveConflict(x, old.name, h.name)
  BY DEF MoveConflict
<1>5. MoveHeader(x, old.name, h.name, p)
        = Swapped(x, {old}, Renamed(old, h.name, p))
  <2>1. \A r \in x : r.name = old.name <=> r = old
    BY <1>0, NameIsKey
  <2> QED
    BY <1>0, <2>1 DEF MoveHeader, Swapped, Renamed
<1>6. IndexHeader(x, p, h) = IndexUpdate(x, p, h)
  BY DEF IndexHeader
<1> QED
  BY <1>0, <1>1, <1>3, <1>4, <1>5, <1>6 DEF IndexUpdate

(* One that deletes an entry marks its row.                                *)
LEMMA DeleteSwaps ==
  ASSUME NEW x, PlainTable(x), NEW p \in Position, NEW h \in Header,
         h.action = "delete", PlainName(h.name), NEW old \in Live(x), old.name = h.name
  PROVE  IndexHeader(x, p, h)
           = Indexed(Swapped(x, {old}, Marked(old, p)))
<1>0. old \in x
  BY DEF Live
<1>1. IndexedName(h) = h.name
  BY PlainIsName DEF IndexedName
<1>2. GetHeader(x, h.name) = old /\ old # NoRow
  BY LiveIsFound
<1>3. DeleteHeader(x, h.name, p)
        = Swapped(x, {old}, Marked(old, p))
  BY <1>0, <1>2 DEF DeleteHeader, Swapped, Marked
<1> QED
  BY <1>1, <1>2, <1>3 DEF IndexHeader, IndexDelete

-----------------------------------------------------------------------------
(* Tapes that can be indexed.                                              *)

(* What a table points at stays where it is when the tape grows.           *)
LEMMA FitLonger ==
  ASSUME NEW x, NEW t \in Seq(Header), NEW s \in Seq(Header), NEW i \in 0 .. Len(t)
  PROVE  Fit(x, t \o s, i) <=> Fit(x, t, i)
<1> DEFINE u == t \o s
<1>1. \A k \in 1 .. Len(t) : u[k] = t[k]
  BY ConcatProperties
<1>2. ASSUME PlainTable(x), Within(x, i, i), NEW r \in Live(x)
      PROVE  r.record \in 1 .. Len(t)
  BY <1>2 DEF PlainTable, Table, Row, Position, Within, Live
<1> HIDE DEF u
<1>3. Fit(x, u, i) <=> Fit(x, t, i)
  BY <1>1, <1>2 DEF Fit, Stored
<1> QED
  BY <1>3 DEF u

(* Nor does what is good about them.                                       *)
LEMMA GoodLonger ==
  ASSUME NEW t \in Seq(Header), NEW s \in Seq(Header), NEW i \in 0 .. Len(t)
  PROVE  GoodAt(t \o s, i) <=> GoodAt(t, i)
<1>1. Replayed(t \o s)[i] = Replayed(t)[i]
  BY ReplayedPrefix
<1>2. ASSUME i > 0
      PROVE  (t \o s)[i] = t[i] /\ Replayed(t \o s)[i - 1] = Replayed(t)[i - 1]
  <2>1. i \in 1 .. Len(t) /\ i - 1 \in 0 .. Len(t)
    BY <1>2
  <2> QED
    BY <2>1, ConcatProperties, ReplayedPrefix
<1>3. Fit(Replayed(t)[i].db, t \o s, i) <=> Fit(Replayed(t)[i].db, t, i)
  BY FitLonger
<1> QED
  BY <1>1, <1>2, <1>3 DEF GoodAt

LEMMA EmptyIsGood == Good(<<>>)
<1>1. <<>> \in Seq(Header) /\ Len(<<>>) = 0
  OBVIOUS
<1>2. Replayed(<<>>)[0] = Indexed({})
  BY <1>1, ReplayedDef
<1>3. Fit({}, <<>>, 0)
  BY FS_EmptySet DEF Fit, PlainTable, Table, KeysUnique, Within, Stored, Live
<1>4. GoodAt(<<>>, 0)
  <2> DEFINE t == <<>>
  <2>0. Replayed(t)[0] = Indexed({}) /\ Fit({}, t, 0)
    BY <1>2, <1>3
  <2>2. ~ (0 > 0)
    OBVIOUS
  <2> HIDE DEF t
  <2>1. Replayed(t)[0].err = "none" /\ Fit(Replayed(t)[0].db, t, 0)
    BY <2>0 DEF Indexed
  <2>3. GoodAt(t, 0)
    BY <2>1, <2>2 DEF GoodAt
  <2> QED
    BY <2>3 DEF t
<1>5. \A i \in 0 .. 0 : i = 0
  OBVIOUS
<1> QED
  BY <1>1, <1>4, <1>5 DEF Good

(* So can be the first part of a tape that can be indexed.                 *)
LEMMA PrefixIsGood ==
  ASSUME NEW t \in Seq(Header), NEW s \in Seq(Header), Good(t \o s)
  PROVE  Good(t)
<1> SUFFICES ASSUME NEW i \in 0 .. Len(t) PROVE GoodAt(t, i)
  BY DEF Good
<1>1. i \in 0 .. Len(t \o s)
  BY ConcatProperties, LenProperties
<1> QED
  BY <1>1, GoodLonger DEF Good

(* Headers can follow one after the other: J[i] is the set of the tables   *)
(* that the first i of them may have led to.                               *)
LEMMA ExtensionIsGood ==
  ASSUME NEW t \in Seq(Header), Good(t), NEW hdrs \in Seq(Header), NEW J,
         Replayed(t)[Len(t)].db \in J[0],
         \A i \in 1 .. Len(hdrs), p \in Position : \A x \in J[i - 1] :
           (t \o hdrs)[p] = hdrs[i] /\ Fit(x, t \o hdrs, p - 1) =>
             /\ Fits(x, hdrs[i], t \o hdrs, p)
             /\ IndexHeader(x, p, hdrs[i]).db \in J[i]
  PROVE  Good(t \o hdrs)
<1> DEFINE u == t \o hdrs
           Ok(i) == GoodAt(u, Len(t) + i) /\ Replayed(u)[Len(t) + i].db \in J[i]
           S == {i \in 0 .. Len(hdrs) : Ok(i)}
<1>0. /\ u \in Seq(Header) /\ Len(u) = Len(t) + Len(hdrs)
      /\ \A i \in 1 .. Len(hdrs) : u[Len(t) + i] = hdrs[i]
      /\ Len(t) \in Nat /\ Len(hdrs) \in Nat
  BY ConcatProperties
<1>1. ASSUME NEW i \in 0 .. Len(t) PROVE GoodAt(u, i)
  BY GoodLonger DEF Good
<1>2. 0 \in S
  <2>1. Len(t) \in 0 .. Len(t) /\ Len(t) + 0 = Len(t)
    BY <1>0
  <2>2. Replayed(u)[Len(t)] = Replayed(t)[Len(t)]
    BY <2>1, ReplayedPrefix
  <2> HIDE DEF u
  <2>3. Ok(0)
    BY <1>1, <2>1, <2>2
  <2> HIDE DEF Ok
  <2> QED
    BY <1>0, <2>3
<1>3. ASSUME NEW i \in 1 .. Len(hdrs), i - 1 \in S PROVE i \in S
  <2> DEFINE p == Len(t) + i
             x == Replayed(u)[p - 1].db
             after == IndexHeader(x, p, hdrs[i])
  <2>0. /\ p \in 1 .. Len(u) /\ p - 1 = Len(t) + (i - 1) /\ p \in Position /\ p > 0
        /\ i \in 0 .. Len(hdrs) /\ u[p] = hdrs[i]
    BY <1>0 DEF Position
  <2>1. GoodAt(u, p - 1) /\ x \in J[i - 1]
    <3> HIDE DEF u
    <3> QED
      BY <1>3, <2>0
  <2> HIDE DEF p
  <2>2. Replayed(u)[p - 1].err = "none" /\ Fit(x, u, p - 1)
    BY <2>1 DEF GoodAt
  <2>3. Replayed(u)[p] = after
    <3> HIDE DEF u
    <3>1. Replayed(u)[p] = After(Replayed(u)[p - 1], p, u[p])
      BY <1>0, <2>0, ReplayedDef
    <3> QED
      BY <2>0, <2>2, <3>1 DEF After
  <2>4. Fits(x, hdrs[i], u, p) /\ after.db \in J[i]
    <3> HIDE DEF x
    <3> QED
      BY <2>0, <2>1, <2>2
  <2>5. GoodAt(u, p)
    <3> HIDE DEF u
    <3> QED
      BY <2>0, <2>3, <2>4 DEF GoodAt, Fits
  <2>6. Ok(i)
    <3> HIDE DEF u, after
    <3> QED
      BY <2>3, <2>4, <2>5 DEF p
  <2> HIDE DEF Ok
  <2> QED
    BY <2>0, <2>6
<1>4. \A i \in 0 .. Len(hdrs) : i \in S
  <2> HIDE DEF S
  <2> QED
    BY <1>0, <1>2, <1>3, UpTo
<1>5. ASSUME NEW k \in 0 .. Len(u) PROVE GoodAt(u, k)
  <2>1. CASE k <= Len(t)
    BY <1>0, <1>1, <2>1
  <2>2. CASE k > Len(t)
    <3>1. k - Len(t) \in 0 .. Len(hdrs) /\ Len(t) + (k - Len(t)) = k
      BY <1>0, <2>2
    <3>2. Ok(k - Len(t))
      BY <1>4, <3>1
    <3> HIDE DEF u
    <3> QED
      BY <3>1, <3>2
  <2> QED
    BY <1>0, <2>1, <2>2
<1> HIDE DEF u
<1>6. Good(u)
  BY <1>5 DEF Good
<1> QED
  BY <1>6 DEF u

(* What clients see before and after one row took the place of others.     *)
SeenAfter(x, gone, new, f, g) ==
  /\ DOMAIN f = {r.name : r \in Live(x)}
  /\ g = [n \in DOMAIN g |-> g[n]]
  /\ DOMAIN g = {r.name : r \in Live(x) \ gone}
                   \cup (IF new.deleted THEN {} ELSE {new.name})
  /\ \A r \in Live(x) : f[r.name] = Seen(r)
  /\ \A r \in Live(x) \ gone : g[r.name] = Seen(r)
  /\ ~new.deleted => g[new.name] = Seen(new)

LEMMA SwapSeen ==
  ASSUME NEW x, NEW gone \in SUBSET x, NEW new,
         PlainTable(x), PlainTable(Swapped(x, gone, new))
  PROVE  SeenAfter(x, gone, new, Entries(x), Entries(Swapped(x, gone, new)))
<1> DEFINE y == Swapped(x, gone, new)
<1>1. ASSUME NEW z, PlainTable(z), NEW r \in Live(z) PROVE Entries(z)[r.name] = Seen(r)
  <2>1. GetHeader(z, r.name) = r
    BY <1>1, LiveIsFound
  <2> QED
    BY <2>1 DEF Entries
<1>2. Live(y) = (Live(x) \ gone) \cup (IF new.deleted THEN {} ELSE {new})
  BY DEF Live, Swapped
<1>3. \A z : DOMAIN Entries(z) = {r.name : r \in Live(z)}
  BY DEF Entries
<1>4. Entries(y) = [n \in DOMAIN Entries(y) |-> Entries(y)[n]]
  BY DEF Entries
<1> HIDE DEF y
<1>5. /\ DOMAIN Entries(y) = {r.name : r \in Live(x) \ gone}
                                \cup (IF new.deleted THEN {} ELSE {new.name})
      /\ \A r \in Live(x) \ gone : Entries(y)[r.name] = Seen(r)
      /\ ~new.deleted => Entries(y)[new.name] = Seen(new)
  <2>1. \A r \in Live(y) : Entries(y)[r.name] = Seen(r)
    BY <1>1 DEF y
  <2> QED
    BY <1>2, <1>3, <2>1
<1> QED
  BY <1>1, <1>3, <1>4, <1>5 DEF y, SeenAfter

(* A row in the place of the one that had its name, if any: the entry is   *)
(* put there.                                                              *)
LEMMA PutDoes ==
  ASSUME NEW x, NEW gone \in SUBSET x, NEW new,
         PlainTable(x), PlainTable(Swapped(x, gone, new)), ~new.deleted,
         \A r \in gone : r.name = new.name,
         NEW h, h.action # "delete", h.from = NoName, h.name = new.name, Seen(h) = Seen(new)
  PROVE  Does(x, h, Swapped(x, gone, new))
<1> DEFINE f == Entries(x)
           g == Entries(Swapped(x, gone, new))
<1>0. SeenAfter(x, gone, new, f, g)
  BY SwapSeen
<1> HIDE DEF f, g
<1>1. /\ DOMAIN f = {r.name : r \in Live(x)}
      /\ g = [n \in DOMAIN g |-> g[n]]
      /\ DOMAIN g = {r.name : r \in Live(x) \ gone} \cup {new.name}
      /\ \A r \in Live(x) : f[r.name] = Seen(r)
      /\ \A r \in Live(x) \ gone : g[r.name] = Seen(r)
      /\ g[h.name] = Seen(h)
  BY <1>0 DEF SeenAfter
<1>2. DOMAIN g = DOMAIN f \cup {h.name}
  BY <1>1
<1>3. \A n \in DOMAIN g : g[n] = IF n = h.name THEN Seen(h) ELSE f[n]
  BY <1>1
<1>4. g = [n \in DOMAIN f \cup {h.name} |-> IF n = h.name THEN Seen(h) ELSE f[n]]
  BY <1>1, <1>2, <1>3
<1> QED
  BY <1>4 DEF Does, Effect, f, g

(* One header of each kind, where the tape u has it at the position p.     *)
LEMMA CreateFits ==
  ASSUME NEW x, NEW u, NEW p \in Position, Fit(x, u, p - 1), NEW h \in Header, u[p] = h,
         h.action = "create", h.link = NoName, h.from = NoName, PlainName(h.name),
         h.data = h.size
  PROVE  Fits(x, h, u, p)
<1> DEFINE gone == {r \in x : r.name = h.name}
           row == TarHeaderToDBHeader(h, p, p)
<1>1. IndexHeader(x, p, h) = Indexed(Swapped(x, gone, row))
  BY CreateSwaps DEF Fit
<1>2. /\ row \in Row /\ row.name = h.name /\ row.link = NoName /\ row.from = NoName
      /\ row.type = h.type /\ row.size = h.size /\ row.record = p /\ row.last = p
      /\ row.mode = h.mode /\ ~row.deleted
  BY EntryOf
<1>3. gone \in SUBSET x /\ \A r \in x \ gone : r.name # row.name
  BY <1>2
<1>4. p <= p
  BY DEF Position
<1>5. \A r \in gone : r.name = row.name
  BY <1>2
<1>6. Seen(h) = Seen(row)
  BY <1>2 DEF Seen
<1> HIDE DEF gone, row
<1>7. Fit(Swapped(x, gone, row), u, p) /\ Touched(Swapped(x, gone, row), p)
  BY <1>2, <1>3, <1>4, SwapFits
<1>8. Does(x, h, Swapped(x, gone, row))
  BY <1>2, <1>3, <1>5, <1>6, <1>7, PutDoes DEF Fit
<1> QED
  BY <1>1, <1>7, <1>8 DEF Indexed, Fits

(* An edit has the size of its own content, or keeps that of the old row.  *)
Faithful(h, old) ==
  IF h.replaces THEN h.data = h.size ELSE h.type = old.type /\ h.size = old.size

(* What was live still is.                                                 *)
StayLive(x, y) == \A q \in Live(x) : \E s \in Live(y) : s.name = q.name

LEMMA EditFits ==
  ASSUME NEW x, NEW u, NEW p \in Position, Fit(x, u, p - 1), NEW h \in Header, u[p] = h,
         h.action = "update", h.link = NoName, h.from = NoName, PlainName(h.name),
         NEW old \in Live(x), old.name = h.name,
         Faithful(h, old)
  PROVE  /\ Fits(x, h, u, p)
         /\ StayLive(x, IndexHeader(x, p, h).db)
<1> DEFINE i == IF h.replaces THEN p ELSE old.record
           row == TarHeaderToDBHeader(h, i, p)
           y == Swapped(x, {old}, row)
<1>1. IndexHeader(x, p, h) = Indexed(y)
  BY EditSwaps DEF Fit
<1>2. PlainTable(x) /\ old \in x /\ i \in Position /\ i <= p
  BY DEF Fit, Within, Live, PlainTable, Table, Row, Position
<1>3. /\ row \in Row /\ row.name = h.name /\ row.link = NoName /\ row.from = NoName
      /\ row.type = h.type /\ row.size = h.size /\ row.record = i /\ row.last = p
      /\ row.mode = h.mode /\ ~row.deleted
  BY <1>2, EntryOf
<1>4. \A r \in x \ {old} : r.name # row.name
  BY <1>2, <1>3, NameIsKey
<1>5. /\ u[row.record].data = row.size
      /\ u[row.record].action = "create" \/ u[row.record].replaces
  BY <1>3 DEF Fit, Stored, Faithful
<1> HIDE DEF i, row
<1>6. Fit(y, u, p) /\ Touched(y, p)
  BY <1>2, <1>3, <1>4, <1>5, SwapFits
<1>7. StayLive(x, y)
  BY <1>3 DEF Live, Swapped, StayLive
<1>8. Does(x, h, y)
  <2>1. Seen(h) = Seen(row) /\ {old} \in SUBSET x /\ \A r \in {old} : r.name = row.name
    BY <1>2, <1>3 DEF Seen
  <2> QED
    BY <1>2, <1>3, <1>6, <2>1, PutDoes DEF Fit
<1> HIDE DEF y
<1> QED
  BY <1>1, <1>6, <1>7, <1>8 DEF Indexed, Fits

(* Nothing is new but what has that name.                                  *)
OnlyNamed(y, x, n) == \A q \in y : q.name = n \/ q \in x

LEMMA RenameFits ==
  ASSUME NEW x, NEW u, NEW p \in Position, Fit(x, u, p - 1), NEW h \in Header,
         h.action = "update", h.link = NoName, PlainName(h.name),
         NEW old \in Live(x), h.from = old.name, \A r \in x : r.name # h.name
  PROVE  /\ Fits(x, h, u, p)
         /\ Live(x) \ {old} \subseteq Live(IndexHeader(x, p, h).db)
         /\ OnlyNamed(IndexHeader(x, p, h).db, x, h.name)
<1> DEFINE row == Renamed(old, h.name, p)
           y == Swapped(x, {old}, row)
<1>0. PlainTable(x)
  BY DEF Fit
<1>1. IndexHeader(x, p, h) = Indexed(y)
  BY <1>0, RenameSwaps
<1>2. PlainTable(x) /\ old \in x /\ old \in Row /\ old.record <= p
  BY DEF Fit, Within, Live, PlainTable, Table, Row, Position
<1>3. /\ row \in Row /\ row.name = h.name /\ row.link = NoName /\ row.from = NoName
      /\ row.type = old.type /\ row.size = old.size /\ row.record = old.record
      /\ row.last = p
  BY <1>2, PlainIsName DEF Row, PlainTable, Renamed
<1>4. /\ u[old.record].data = old.size
      /\ u[old.record].action = "create" \/ u[old.record].replaces
  BY DEF Fit, Stored
<1> HIDE DEF row
<1>5. Fit(y, u, p) /\ Touched(y, p)
  BY <1>2, <1>3, <1>4, SwapFits
<1>6. /\ Live(x) \ {old} \subseteq Live(y)
      /\ OnlyNamed(y, x, h.name)
  BY <1>3 DEF Swapped, Live, OnlyNamed
<1>7. Does(x, h, y)
  <2> DEFINE f == Entries(x)
             g == Entries(y)
  <2>0. {old} \in SUBSET x /\ PlainTable(y)
    BY <1>2, <1>5 DEF Fit
  <2>1. /\ DOMAIN f = {r.name : r \in Live(x)}
        /\ g = [n \in DOMAIN g |-> g[n]]
        /\ DOMAIN g = {r.name : r \in Live(x) \ {old}} \cup {h.name}
        /\ \A r \in Live(x) : f[r.name] = Seen(r)
        /\ \A r \in Live(x) \ {old} : g[r.name] = Seen(r)
        /\ g[h.name] = f[h.from]
    <3>1. ~row.deleted /\ Seen(row) = Seen(old)
      BY <1>2 DEF row, Renamed, Live, Row, Seen
    <3>2. SeenAfter(x, {old}, row, f, g)
      BY <1>0, <2>0, SwapSeen
    <3> HIDE DEF f, g
    <3>3. old \in Live(x)
      OBVIOUS
    <3> QED
      BY <1>3, <3>1, <3>2, <3>3 DEF SeenAfter
  <2>2. \A r \in Live(x) : r.name = h.from <=> r = old
    BY <1>0, <1>2, NameIsKey DEF Live
  <2>3. \A r \in Live(x) : r.name # h.name
    BY DEF Live
  <2>4. h.from # NoName
    BY <1>2, PathsAssumption DEF Row
  <2> HIDE DEF f, g
  <2>5. DOMAIN g = (DOMAIN f \ {h.from}) \cup {h.name}
    BY <2>1, <2>2
  <2>6. \A n \in DOMAIN g : g[n] = IF n = h.name THEN f[h.from] ELSE f[n]
    BY <2>1, <2>3
  <2>7. g = [n \in (DOMAIN f \ {h.from}) \cup {h.name} |->
               IF n = h.name THEN f[h.from] ELSE f[n]]
    BY <2>1, <2>5, <2>6
  <2> QED
    BY <2>4, <2>7 DEF Does, Effect, f, g
<1> HIDE DEF y
<1> QED
  BY <1>1, <1>5, <1>6, <1>7 DEF Indexed, Fits

LEMMA DeleteFits ==
  ASSUME NEW x, NEW u, NEW p \in Position, Fit(x, u, p - 1), NEW h \in Header,
         h.action = "delete", PlainName(h.name), NEW old \in Live(x), old.name = h.name
  PROVE  /\ Fits(x, h, u, p)
         /\ Live(x) \ {old} \subseteq Live(IndexHeader(x, p, h).db)
<1> DEFINE row == Marked(old, p)
<1>1. IndexHeader(x, p, h) = Indexed(Swapped(x, {old}, row))
  BY DeleteSwaps DEF Fit
<1>2. PlainTable(x) /\ old \in x /\ old \in Row /\ old.record <= p
  BY DEF Fit, Within, Live, PlainTable, Table, Row, Position
<1>3. /\ row \in Row /\ row.name = h.name /\ row.link = NoName /\ row.from = NoName
      /\ row.deleted /\ row.record = old.record /\ row.last = p
  BY <1>2 DEF Row, PlainTable, Marked
<1>4. \A r \in x \ {old} : r.name # row.name
  BY <1>2, <1>3, NameIsKey
<1> HIDE DEF row
<1>5. Fit(Swapped(x, {old}, row), u, p) /\ Touched(Swapped(x, {old}, row), p)
  BY <1>2, <1>3, <1>4, SwapFits
<1>6. Live(x) \ {old} \subseteq Live(Swapped(x, {old}, row))
  BY DEF Swapped, Live
<1>7. Does(x, h, Swapped(x, {old}, row))
  <2> DEFINE f == Entries(x)
             g == Entries(Swapped(x, {old}, row))
  <2>0. {old} \in SUBSET x /\ PlainTable(x) /\ PlainTable(Swapped(x, {old}, row))
    BY <1>2, <1>5 DEF Fit
  <2>1. /\ DOMAIN f = {r.name : r \in Live(x)}
        /\ g = [n \in DOMAIN g |-> g[n]]
        /\ DOMAIN g = {r.name : r \in Live(x) \ {old}}
        /\ \A r \in Live(x) : f[r.name] = Seen(r)
        /\ \A r \in Live(x) \ {old} : g[r.name] = Seen(r)
    <3>1. SeenAfter(x, {old}, row, f, g)
      BY <2>0, SwapSeen
    <3> HIDE DEF f, g
    <3> QED
      BY <1>3, <3>1 DEF SeenAfter
  <2>2. \A r \in Live(x) : r.name = h.name <=> r = old
    BY <1>2, NameIsKey DEF Live
  <2> HIDE DEF f, g
  <2>3. DOMAIN g = DOMAIN f \ {h.name} /\ \A n \in DOMAIN g : g[n] = f[n]
    BY <2>1, <2>2
  <2>4. g = [n \in DOMAIN f \ {h.name} |-> f[n]]
    BY <2>1, <2>3
  <2> QED
    BY <2>4 DEF Does, Effect, f, g
<1> QED
  BY <1>1, <1>5, <1>6, <1>7 DEF Indexed, Fits

-----------------------------------------------------------------------------
(* Every call writes headers that can follow what is on the tape.          *)

LEMMA SourceIsPlain ==
  ASSUME PlainNames, "symlink" \notin Permit, NEW src \in Sources, Allowed(src)
  PROVE  src \in Source /\ src.link = NoName /\ PlainName(src.name)
<1>1. src \in Source /\ Plausible(src)
  BY OperationsAssumption
<1>2. src.type # "link"
  BY DEF Allowed
<1>3. PlainName(src.name)
  BY UsedArePlain
<1> QED
  BY <1>1, <1>2, <1>3 DEF Plausible

LEMMA ArchiveIsGood ==
  ASSUME Disciplined, NEW t \in Seq(Header), Good(t),
         NEW n \in Nat, NEW srcs \in [1 .. n -> Sources],
         \A i \in 1 .. n : Allowed(srcs[i])
  PROVE  LET hdrs == [i \in 1 .. n |-> ArchiveHeader(srcs[i])]
         IN  hdrs \in Seq(Header) /\ Len(hdrs) = n /\ Good(t \o hdrs)
<1> DEFINE hdrs == [i \in 1 .. n |-> ArchiveHeader(srcs[i])]
           J == [i \in 0 .. n |-> SUBSET Row]
<1>1. ASSUME NEW i \in 1 .. n
      PROVE  /\ hdrs[i] \in Header /\ hdrs[i].action = "create" /\ hdrs[i].link = NoName
             /\ hdrs[i].from = NoName /\ PlainName(hdrs[i].name)
             /\ hdrs[i].data = hdrs[i].size
  <2>1. /\ srcs[i] \in Source /\ srcs[i].link = NoName /\ PlainName(srcs[i].name)
        /\ TRUE \in BOOLEAN
    BY SourceIsPlain DEF Disciplined
  <2> QED
    BY <2>1, SourceHeaders DEF ArchiveHeader
<1>2. hdrs \in Seq(Header) /\ Len(hdrs) = n
  <2>1. hdrs \in [1 .. n -> Header]
    BY <1>1
  <2> HIDE DEF hdrs
  <2> QED
    BY <2>1, FunctionIsSeq
<1>3. Len(t) \in Nat /\ \A i \in 1 .. n : (t \o hdrs)[Len(t) + i] = hdrs[i]
  <2> HIDE DEF hdrs
  <2> QED
    BY <1>2, ConcatProperties
<1> HIDE DEF hdrs
<1>4. Replayed(t)[Len(t)].db \in J[0]
  <2>1. Fit(Replayed(t)[Len(t)].db, t, Len(t))
    BY <1>3 DEF Good, GoodAt
  <2> QED
    BY <2>1 DEF Fit, PlainTable, Table
<1>5. ASSUME NEW i \in 1 .. n, NEW p \in Position, NEW x \in J[i - 1],
             (t \o hdrs)[p] = hdrs[i], Fit(x, t \o hdrs, p - 1)
      PROVE  /\ Fits(x, hdrs[i], t \o hdrs, p)
             /\ IndexHeader(x, p, hdrs[i]).db \in J[i]
  <2>1. Fits(x, hdrs[i], t \o hdrs, p)
    BY <1>1, <1>5, CreateFits
  <2> QED
    BY <2>1 DEF Fits, Fit, PlainTable, Table
<1> HIDE DEF J
<1>6. Good(t \o hdrs)
  BY <1>2, <1>4, <1>5, ExtensionIsGood
<1> QED
  BY <1>2, <1>6 DEF hdrs

(* Every entry that is replaced is live, also after the others were.       *)
LEMMA ContentIsGood ==
  ASSUME Disciplined, NEW t \in Seq(Header), Good(t),
         NEW n \in Nat, NEW srcs \in [1 .. n -> Sources], NEW skip \in BOOLEAN,
         \A i \in 1 .. n : Allowed(srcs[i]),
         \A i \in 1 .. n : \E r \in Live(Replayed(t)[Len(t)].db) : r.name = srcs[i].name
  PROVE  LET hdrs == [i \in 1 .. n |-> ContentHeader(srcs[i], skip)]
         IN  hdrs \in Seq(Header) /\ Len(hdrs) = n /\ Good(t \o hdrs)
<1> DEFINE hdrs == [i \in 1 .. n |-> ContentHeader(srcs[i], skip)]
           There(x) == \A i \in 1 .. n : \E r \in Live(x) : r.name = hdrs[i].name
           J == [i \in 0 .. n |-> {x \in SUBSET Row : There(x)}]
<1>1. ASSUME NEW i \in 1 .. n
      PROVE  /\ hdrs[i] \in Header /\ hdrs[i].action = "update" /\ hdrs[i].link = NoName
             /\ hdrs[i].from = NoName /\ PlainName(hdrs[i].name) /\ hdrs[i].replaces = TRUE
             /\ hdrs[i].data = hdrs[i].size /\ hdrs[i].name = srcs[i].name
  <2>1. srcs[i] \in Source /\ srcs[i].link = NoName /\ PlainName(srcs[i].name)
    BY SourceIsPlain DEF Disciplined
  <2> QED
    BY <2>1, SourceHeaders DEF ContentHeader
<1>2. hdrs \in Seq(Header) /\ Len(hdrs) = n
  <2>1. hdrs \in [1 .. n -> Header]
    BY <1>1
  <2> HIDE DEF hdrs
  <2> QED
    BY <2>1, FunctionIsSeq
<1>3. Len(t) \in Nat /\ \A i \in 1 .. n : (t \o hdrs)[Len(t) + i] = hdrs[i]
  <2> HIDE DEF hdrs
  <2> QED
    BY <1>2, ConcatProperties
<1> HIDE DEF hdrs
<1>4. Replayed(t)[Len(t)].db \in J[0]
  <2>1. Fit(Replayed(t)[Len(t)].db, t, Len(t))
    BY <1>3 DEF Good, GoodAt
  <2>2. There(Replayed(t)[Len(t)].db)
    BY <1>1
  <2> HIDE DEF There
  <2> QED
    BY <2>1, <2>2 DEF Fit, PlainTable, Table
<1>5. ASSUME NEW i \in 1 .. n, NEW p \in Position, NEW x \in J[i - 1],
             (t \o hdrs)[p] = hdrs[i], Fit(x, t \o hdrs, p - 1)
      PROVE  /\ Fits(x, hdrs[i], t \o hdrs, p)
             /\ IndexHeader(x, p, hdrs[i]).db \in J[i]
  <2> DEFINE r == IndexHeader(x, p, hdrs[i])
  <2>1. There(x)
    BY <1>5
  <2>2. PICK old \in Live(x) : old.name = hdrs[i].name
    BY <2>1
  <2>3. Fits(x, hdrs[i], t \o hdrs, p) /\ StayLive(x, r.db)
    <3> HIDE DEF There, J
    <3>1. /\ hdrs[i] \in Header /\ hdrs[i].action = "update" /\ hdrs[i].link = NoName
          /\ hdrs[i].from = NoName /\ PlainName(hdrs[i].name) /\ Faithful(hdrs[i], old)
      BY <1>1 DEF Faithful
    <3> QED
      BY <1>5, <2>2, <3>1, EditFits
  <2> HIDE DEF r
  <2>4. There(r.db)
    BY <2>1, <2>3 DEF StayLive
  <2> HIDE DEF There
  <2>5. r.db \in J[i]
    BY <2>3, <2>4 DEF Fits, Fit, PlainTable, Table, r
  <2> QED
    BY <2>3, <2>5 DEF r
<1> HIDE DEF J
<1>6. Good(t \o hdrs)
  BY <1>2, <1>4, <1>5, ExtensionIsGood
<1> QED
  BY <1>2, <1>6 DEF hdrs

LEMMA MetadataIsGood ==
  ASSUME NEW t \in Seq(Header), Good(t), NEW mode \in Modes,
         NEW row \in Live(Replayed(t)[Len(t)].db)
  PROVE  Good(t \o <<MetadataHeader(row, mode)>>)
<1> DEFINE h == MetadataHeader(row, mode)
           hdrs == <<h>>
           J == [i \in 0 .. 1 |-> {x \in SUBSET Row : i = 0 => row \in Live(x)}]
<1>1. Fit(Replayed(t)[Len(t)].db, t, Len(t)) /\ Len(t) \in Nat
  BY LenProperties DEF Good, GoodAt
<1>2. row \in Row /\ row.link = NoName /\ row.from = NoName /\ PlainName(row.name)
  BY <1>1 DEF Fit, PlainTable, Table, Live
<1>3. h \in Header
  BY <1>2, RowHeaders DEF Row
<1>4. /\ h.action = "update" /\ h.link = NoName /\ h.from = NoName
      /\ PlainName(h.name) /\ row.name = h.name /\ Faithful(h, row)
  BY <1>2 DEF MetadataHeader, Faithful
<1> HIDE DEF h
<1>5. Replayed(t)[Len(t)].db \in J[0]
  BY <1>1 DEF Fit, PlainTable, Table
<1>6. ASSUME NEW i \in 1 .. 1, NEW p \in Position, NEW x \in J[i - 1],
             (t \o hdrs)[p] = hdrs[i], Fit(x, t \o hdrs, p - 1)
      PROVE  /\ Fits(x, hdrs[i], t \o hdrs, p)
             /\ IndexHeader(x, p, hdrs[i]).db \in J[i]
  <2>1. i = 1 /\ hdrs[i] = h /\ row \in Live(x)
    BY <1>6
  <2>2. Fits(x, h, t \o hdrs, p)
    <3> HIDE DEF J
    <3> QED
      BY <1>3, <1>4, <1>6, <2>1, EditFits
  <2> QED
    BY <2>1, <2>2 DEF Fits, Fit, PlainTable, Table
<1>7. hdrs \in Seq(Header) /\ Len(hdrs) = 1
  BY <1>3
<1> HIDE DEF J, hdrs
<1>8. Good(t \o hdrs)
  BY <1>5, <1>6, <1>7, ExtensionIsGood
<1> QED
  BY <1>8 DEF hdrs, h

(* What a client finds under a name, and below it.                         *)
LEMMA TreeFound ==
  ASSUME Disciplined, PlainTable(db), NEW n \in ClientNames, Lookup(db, n) # NoRow,
         NEW rows, rows = {} \/ rows = GetHeaderChildren(db, n)
  PROVE  LET src == Lookup(db, n)
         IN  /\ src \in Live(db) /\ src.name = n /\ src \in Row
             /\ rows \in SUBSET Row /\ rows \in SUBSET Live(db) /\ IsFiniteSet(rows)
             /\ src \notin rows /\ \A r \in rows : Below(r.name, n)
<1> DEFINE src == Lookup(db, n)
<1>1. n \in Name /\ PlainName(n)
  BY UsedArePlain, OperationsAssumption DEF Disciplined
<1>2. src \in Live(db) /\ src.name = n
  BY <1>1, FoundIsLive
<1> HIDE DEF src
<1>3. rows \in SUBSET Live(db) /\ Live(db) \in SUBSET db /\ db \in SUBSET Row
  BY DEF GetHeaderChildren, Live, PlainTable, Table
<1>4. IsFiniteSet(rows)
  BY <1>3, FS_Subset DEF PlainTable, Table
<1>5. ASSUME NEW r \in rows PROVE Below(r.name, n)
  <2>1. LikeBelow(r.name, n) /\ PlainName(r.name)
    BY <1>3 DEF GetHeaderChildren, PlainTable
  <2> QED
    BY <1>1, <2>1, LikeIsBelow DEF Disciplined
<1>6. src \notin rows
  <2>1. ~Below(n, n)
    BY <1>1 DEF Below, Name
  <2> QED
    BY <1>2, <1>5, <2>1
<1> QED
  BY <1>2, <1>3, <1>4, <1>5, <1>6 DEF src

(* The new names are no row's, and different from each other: no rename    *)
(* conflicts, in whatever order the rows below are taken.                  *)
LEMMA MoveIsGood ==
  ASSUME Disciplined, tape \in Seq(Header), Good(tape), db = Replayed(tape)[Len(tape)].db,
         NEW from \in ClientNames, NEW to \in ClientNames, Lookup(db, from) # NoRow,
         NEW rows, rows = {} \/ rows = GetHeaderChildren(db, from),
         FreshTargets(rows \cup {Lookup(db, from)}, from, to),
         NEW rest \in SetToSeqs(rows)
  PROVE  LET moved == <<Lookup(db, from)>> \o rest
             hdrs == [i \in DOMAIN moved |-> RenameHeader(moved[i], from, to)]
         IN  hdrs \in Seq(Header) /\ Len(hdrs) > 0 /\ Good(tape \o hdrs)
<1> DEFINE src == Lookup(db, from)
           moved == <<src>> \o rest
           n == Len(moved)
           hdrs == [i \in DOMAIN moved |-> RenameHeader(moved[i], from, to)]
<1>1. Fit(db, tape, Len(tape)) /\ PlainTable(db) /\ Len(tape) \in Nat
  BY LenProperties DEF Good, GoodAt, Fit
<1>2. /\ src \in Live(db) /\ src.name = from /\ src \in Row
      /\ rows \in SUBSET Row /\ rows \in SUBSET Live(db) /\ IsFiniteSet(rows)
      /\ src \notin rows /\ \A r \in rows : Below(r.name, from)
  BY <1>1, TreeFound
<1>3. /\ moved \in Seq(Row) /\ n \in Nat /\ n > 0
      /\ \A i \in 1 .. n : moved[i] \in rows \cup {src}
      /\ \A i, j \in 1 .. n : moved[i] = moved[j] => i = j
  <2> HIDE DEF src
  <2> QED
    BY <1>2, TreeInOrder
<1> HIDE DEF moved
<1>4. DOMAIN moved = 1 .. n
  BY <1>3
<1> HIDE DEF n
<1>5. PlainName(from) /\ PlainName(to) /\ from \in Name /\ to \in Name /\ Modes # {}
  BY UsedArePlain, OperationsAssumption DEF Disciplined
<1>6. ASSUME NEW i \in 1 .. n
      PROVE  /\ moved[i] \in Live(db) /\ moved[i] \in Row
             /\ moved[i].name = from \/ Below(moved[i].name, from)
             /\ PlainName(moved[i].name) /\ moved[i].link = NoName
             /\ moved[i].name \in Name
  BY <1>1, <1>2, <1>3 DEF PlainTable, Live, Row
<1>7. ASSUME NEW i \in 1 .. n
      PROVE  /\ hdrs[i] \in Header /\ hdrs[i].action = "update" /\ hdrs[i].link = NoName
             /\ hdrs[i].from = moved[i].name
             /\ hdrs[i].name = Rebase(moved[i].name, from, to) /\ PlainName(hdrs[i].name)
  <2>1. hdrs[i] = RenameHeader(moved[i], from, to)
    BY <1>4
  <2>2. PlainName(Rebase(moved[i].name, from, to)) /\ moved[i] \in Row
    BY <1>5, <1>6, RebaseIsPlain
  <2>3. RenameHeader(moved[i], from, to) \in Header
    BY <1>5, <2>2, RowHeaders
  <2> HIDE DEF hdrs
  <2> QED
    BY <1>6, <2>1, <2>2, <2>3 DEF RenameHeader, HeaderOfRow
<1>8. hdrs \in Seq(Header) /\ Len(hdrs) = n
  <2>1. hdrs \in [1 .. n -> Header]
    BY <1>4, <1>7
  <2> HIDE DEF hdrs
  <2> QED
    BY <1>3, <2>1, FunctionIsSeq
<1> HIDE DEF hdrs
<1>9. ASSUME NEW i \in 1 .. n, NEW j \in 1 .. n, hdrs[i].name = hdrs[j].name PROVE i = j
  <2>1. moved[i].name = moved[j].name
    BY <1>5, <1>6, <1>7, <1>9, RebaseInjective
  <2>2. moved[i] = moved[j]
    BY <1>1, <1>6, <2>1, NameIsKey DEF Live
  <2> QED
    BY <1>3, <2>2
<1>10. ASSUME NEW i \in 1 .. n, NEW r \in db PROVE r.name # hdrs[i].name
  <2>1. "reuse" \notin Permit /\ "onto" \notin Permit
    BY DEF Disciplined
  <2>2. moved[i] \in rows \cup {Lookup(db, from)}
    BY <1>3
  <2> QED
    BY <1>7, <2>1, <2>2 DEF FreshTargets
<1> DEFINE Left(x, i) == \A k \in i + 1 .. n : /\ moved[k] \in Live(x)
                                               /\ \A r \in x : r.name # hdrs[k].name
           J == [i \in 0 .. n |-> {x \in SUBSET Row : Left(x, i)}]
<1>11. Replayed(tape)[Len(tape)].db \in J[0]
  <2>1. Left(db, 0)
    BY <1>6, <1>10
  <2> HIDE DEF Left
  <2> QED
    BY <1>1, <1>3, <2>1 DEF PlainTable, Table
<1>12. ASSUME NEW i \in 1 .. n, NEW p \in Position, NEW x \in J[i - 1],
              (tape \o hdrs)[p] = hdrs[i], Fit(x, tape \o hdrs, p - 1)
       PROVE  /\ Fits(x, hdrs[i], tape \o hdrs, p)
              /\ IndexHeader(x, p, hdrs[i]).db \in J[i]
  <2> DEFINE y == IndexHeader(x, p, hdrs[i]).db
  <2>1. Left(x, i - 1)
    <3> HIDE DEF Left
    <3>1. i - 1 \in 0 .. n
      BY <1>3
    <3> QED
      BY <1>12, <3>1
  <2>2. /\ moved[i] \in Live(x) /\ \A r \in x : r.name # hdrs[i].name
        /\ \A k \in i + 1 .. n : k \in i - 1 + 1 .. n /\ k # i /\ k \in 1 .. n
    BY <1>3, <2>1
  <2>3. /\ Fits(x, hdrs[i], tape \o hdrs, p)
        /\ Live(x) \ {moved[i]} \subseteq Live(y) /\ OnlyNamed(y, x, hdrs[i].name)
    <3> HIDE DEF Left, J
    <3> QED
      BY <1>7, <1>12, <2>2, RenameFits
  <2>4. Left(y, i)
    <3> HIDE DEF y
    <3> SUFFICES ASSUME NEW k \in i + 1 .. n
                 PROVE  moved[k] \in Live(y) /\ \A r \in y : r.name # hdrs[k].name
      OBVIOUS
    <3>1. moved[k] \in Live(x) /\ \A r \in x : r.name # hdrs[k].name
      BY <2>1, <2>2
    <3>2. moved[k] # moved[i] /\ hdrs[k].name # hdrs[i].name
      BY <1>3, <1>9, <2>2
    <3> QED
      BY <2>3, <3>1, <3>2 DEF OnlyNamed
  <2> HIDE DEF Left
  <2> QED
    BY <2>3, <2>4 DEF Fits, Fit, PlainTable, Table
<1> HIDE DEF J
<1>13. Good(tape \o hdrs)
  BY <1>8, <1>11, <1>12, ExtensionIsGood
<1> QED
  BY <1>3, <1>8, <1>13 DEF hdrs, moved

(* A header that deletes an entry or what lies below it.                   *)
Deletes(h, n) ==
  h.action = "delete" /\ PlainName(h.name) /\ (h.name = n \/ Below(h.name, n))

(* Each entry is still live when its turn to be deleted comes.             *)
LEMMA DeleteIsGood ==
  ASSUME Disciplined, tape \in Seq(Header), Good(tape), db = Replayed(tape)[Len(tape)].db,
         NEW n \in ClientNames, Lookup(db, n) # NoRow,
         NEW rows, rows = {} \/ rows = GetHeaderChildren(db, n),
         NEW rest \in SetToSeqs(rows)
  PROVE  LET deleted == <<Lookup(db, n)>> \o rest
             hdrs == [i \in DOMAIN deleted |-> DeletionHeader(deleted[i])]
         IN  /\ hdrs \in Seq(Header) /\ Len(hdrs) > 0 /\ Good(tape \o hdrs)
             /\ \A i \in 1 .. Len(hdrs) : Deletes(hdrs[i], n)
<1> DEFINE src == Lookup(db, n)
           deleted == <<src>> \o rest
           m == Len(deleted)
           hdrs == [i \in DOMAIN deleted |-> DeletionHeader(deleted[i])]
<1>1. Fit(db, tape, Len(tape)) /\ PlainTable(db) /\ Len(tape) \in Nat
  BY LenProperties DEF Good, GoodAt, Fit
<1>2. /\ src \in Live(db) /\ src.name = n /\ src \in Row
      /\ rows \in SUBSET Row /\ rows \in SUBSET Live(db) /\ IsFiniteSet(rows)
      /\ src \notin rows /\ \A r \in rows : Below(r.name, n)
  BY <1>1, TreeFound
<1>3. /\ deleted \in Seq(Row) /\ m \in Nat /\ m > 0
      /\ \A i \in 1 .. m : deleted[i] \in rows \cup {src}
      /\ \A i, j \in 1 .. m : deleted[i] = deleted[j] => i = j
  <2> HIDE DEF src
  <2> QED
    BY <1>2, TreeInOrder
<1> HIDE DEF deleted
<1>4. DOMAIN deleted = 1 .. m
  BY <1>3
<1> HIDE DEF m
<1>5. ASSUME NEW i \in 1 .. m
      PROVE  /\ deleted[i] \in Live(db) /\ deleted[i] \in Row
             /\ deleted[i].name = n \/ Below(deleted[i].name, n)
             /\ PlainName(deleted[i].name)
  BY <1>1, <1>2, <1>3 DEF PlainTable, Live
<1>6. ASSUME NEW i \in 1 .. m
      PROVE  /\ hdrs[i] \in Header /\ hdrs[i].action = "delete"
             /\ hdrs[i].name = deleted[i].name
  <2>1. hdrs[i] = DeletionHeader(deleted[i]) /\ deleted[i] \in Row
    BY <1>3, <1>4, <1>5
  <2>2. DeletionHeader(deleted[i]) \in Header
    <3>1. Modes # {} /\ Root \in Name
      BY OperationsAssumption DEF Root, Name
    <3> QED
      BY <2>1, <3>1, RowHeaders
  <2> HIDE DEF hdrs
  <2> QED
    BY <2>1, <2>2 DEF DeletionHeader, HeaderOfRow
<1>7. hdrs \in Seq(Header) /\ Len(hdrs) = m
  <2>1. hdrs \in [1 .. m -> Header]
    BY <1>4, <1>6
  <2> HIDE DEF hdrs
  <2> QED
    BY <1>3, <2>1, FunctionIsSeq
<1> HIDE DEF hdrs
<1> DEFINE Left(x, i) == \A k \in i + 1 .. m : deleted[k] \in Live(x)
           J == [i \in 0 .. m |-> {x \in SUBSET Row : Left(x, i)}]
<1>8. Replayed(tape)[Len(tape)].db \in J[0]
  <2>1. Left(db, 0)
    BY <1>5
  <2> HIDE DEF Left
  <2> QED
    BY <1>1, <1>3, <2>1 DEF PlainTable, Table
<1>9. ASSUME NEW i \in 1 .. m, NEW p \in Position, NEW x \in J[i - 1],
             (tape \o hdrs)[p] = hdrs[i], Fit(x, tape \o hdrs, p - 1)
      PROVE  /\ Fits(x, hdrs[i], tape \o hdrs, p)
             /\ IndexHeader(x, p, hdrs[i]).db \in J[i]
  <2> DEFINE y == IndexHeader(x, p, hdrs[i]).db
  <2>1. Left(x, i - 1)
    <3> HIDE DEF Left
    <3>1. i - 1 \in 0 .. m
      BY <1>3
    <3> QED
      BY <1>9, <3>1
  <2>2. /\ deleted[i] \in Live(x)
        /\ \A k \in i + 1 .. m : k \in i - 1 + 1 .. m /\ k # i /\ k \in 1 .. m
    BY <1>3, <2>1
  <2>3. /\ Fits(x, hdrs[i], tape \o hdrs, p)
        /\ Live(x) \ {deleted[i]} \subseteq Live(y)
    <3> HIDE DEF Left, J
    <3>1. PlainName(hdrs[i].name)
      BY <1>5, <1>6
    <3> QED
      BY <1>6, <1>9, <2>2, <3>1, DeleteFits
  <2>4. Left(y, i)
    <3> HIDE DEF y
    <3> SUFFICES ASSUME NEW k \in i + 1 .. m PROVE deleted[k] \in Live(y)
      OBVIOUS
    <3>1. deleted[k] \in Live(x)
      BY <2>1, <2>2
    <3>2. deleted[k] # deleted[i]
      BY <1>3, <2>2
    <3> QED
      BY <2>3, <3>1, <3>2
  <2> HIDE DEF Left
  <2> QED
    BY <2>3, <2>4 DEF Fits, Fit, PlainTable, Table
<1> HIDE DEF J
<1>10. Good(tape \o hdrs)
  BY <1>7, <1>8, <1>9, ExtensionIsGood
<1>11. \A i \in 1 .. Len(hdrs) : Deletes(hdrs[i], n)
  BY <1>5, <1>6, <1>7 DEF Deletes
<1> QED
  BY <1>3, <1>7, <1>10, <1>11 DEF hdrs, deleted, src

(* The root can be the first header on a tape.                             *)
LEMMA RootIsGood ==
  ASSUME Disciplined, NEW mode \in Modes
  PROVE  <<RootHeader(mode)>> \in Seq(Header) /\ Good(<<RootHeader(mode)>>)
<1> DEFINE h == RootHeader(mode)
           J == [i \in 0 .. 1 |-> SUBSET Row]
<1>1. /\ h \in Header /\ h.action = "create" /\ h.link = NoName
      /\ h.from = NoName /\ PlainName(h.name) /\ h.data = h.size
  <2>1. h \in Header
    <3>1. <<h>> \in Seq(Header)
      BY RootHeaderType
    <3> QED
      BY <3>1, ElementOfSeq
  <2>2. PlainName(Root)
    BY UsedArePlain DEF Disciplined
  <2> QED
    BY <2>1, <2>2 DEF RootHeader, ArchiveHeader, HasBody
<1> HIDE DEF h
<1>2. <<>> \in Seq(Header) /\ <<h>> \in Seq(Header) /\ <<>> \o <<h>> = <<h>>
      /\ Len(<<h>>) = 1
  BY <1>1
<1>3. Replayed(<<>>)[Len(<<>>)].db \in J[0]
  <2>1. Replayed(<<>>)[0] = Indexed({}) /\ Len(<<>>) = 0
    BY <1>2, ReplayedDef
  <2> QED
    BY <2>1 DEF Indexed
<1>4. ASSUME NEW i \in 1 .. 1, NEW p \in Position, NEW x \in J[i - 1],
             (<<>> \o <<h>>)[p] = <<h>>[i], Fit(x, <<>> \o <<h>>, p - 1)
      PROVE  /\ Fits(x, <<h>>[i], <<>> \o <<h>>, p)
             /\ IndexHeader(x, p, <<h>>[i]).db \in J[i]
  <2>1. i = 1 /\ <<h>>[i] = h
    BY <1>4
  <2>2. Fits(x, h, <<>> \o <<h>>, p)
    BY <1>1, <1>4, <2>1, CreateFits
  <2> QED
    BY <2>1, <2>2 DEF Fits, Fit, PlainTable, Table
<1> HIDE DEF J
<1>5. Good(<<>> \o <<h>>)
  BY <1>2, <1>3, <1>4, EmptyIsGood, ExtensionIsGood
<1> QED
  BY <1>2, <1>5 DEF h
=============================================================================
