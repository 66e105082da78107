------------------------------ MODULE Recovery ------------------------------
(***************************************************************************)
(* What indexing one tape header does to the metadata index               *)
(* (indexHeader in pkg/recovery/index.go).                                 *)
(***************************************************************************)
EXTENDS MetadataPersister

(* A tar header.  suffixed: AddSuffix extended the name because a content  *)
(* follows; name is the name before that.  data is the content that        *)
(* follows the header on the tape, Empty for a header that stands alone.   *)
Actions == {"create", "update", "delete"}
Header == [action : Actions, name : Name, link : NameOrNone, type : Types,
           mode : Modes, size : Sizes, replaces : BOOLEAN,
           from : NameOrNone, suffixed : BOOLEAN, data : Sizes]

Errors == {"none", "norows", "conflict", "missing"}

(* A regular header loses the suffix of the configured formats, whether    *)
(* AddSuffix put it there or not.                                          *)
IndexedName(h) ==
  IF h.type = "reg" /\ ~h.suffixed THEN RemoveSuffix(h.name) ELSE h.name

TarHeaderToDBHeader(h, record, last) ==
  [name |-> IndexedName(h), link |-> h.link, type |-> h.type, mode |-> h.mode,
   size |-> h.size, replaces |-> h.replaces, from |-> h.from,
   record |-> record, last |-> last, deleted |-> FALSE]

Indexed(db) == [db |-> db, err |-> "none"]
Failed(db, err) == [db |-> db, err |-> err]

(* Faulty: the position is taken after the header was read.                *)
IndexCreateBehind(db, pos, h) ==
  Indexed(UpsertHeader(db, TarHeaderToDBHeader(h, pos, pos + 1)))

(* Faulty: the position is counted from 0.                                 *)
IndexCreateFromZero(db, pos, h) ==
  Indexed(UpsertHeader(db, TarHeaderToDBHeader(h, pos - 1, pos)))

IndexCreate(db, pos, h) ==
  Indexed(UpsertHeader(db, TarHeaderToDBHeader(h, pos, pos)))

IndexDelete(db, pos, h) ==
  IF GetHeader(db, IndexedName(h)) = NoRow
    THEN Failed(db, "norows")
    ELSE Indexed(DeleteHeader(db, IndexedName(h), pos))

OldName(h) == IF h.from = NoName THEN IndexedName(h) ELSE h.from

(* Faulty: the content is taken to follow every header.                    *)
IndexEditHere(db, pos, h) ==
  UpdateHeaderMetadata(db, TarHeaderToDBHeader(h, pos, pos))

(* New content: the row points at this header.  Metadata only: it keeps    *)
(* the record of the row it replaces, and nothing happens without one.     *)
IndexEdit(db, pos, h) ==
  LET old == GetHeader(db, OldName(h))
  IN  IF h.replaces
        THEN UpdateHeaderMetadata(db, TarHeaderToDBHeader(h, pos, pos))
      ELSE IF old # NoRow
        THEN UpdateHeaderMetadata(db, TarHeaderToDBHeader(h, old.record, pos))
      ELSE db

IndexUpdate(db, pos, h) ==
  LET edited == IndexEdit(db, pos, h)
  IN  IF h.from = NoName
        THEN Indexed(edited)
      ELSE IF MoveConflict(edited, OldName(h), IndexedName(h))
        THEN Failed(edited, "conflict")
      ELSE Indexed(MoveHeader(edited, OldName(h), IndexedName(h), pos))

IndexHeader(db, pos, h) ==
  CASE h.action = "create" -> IndexCreate(db, pos, h)
    [] h.action = "delete" -> IndexDelete(db, pos, h)
    [] h.action = "update" -> IndexUpdate(db, pos, h)

(* Headers that follow position at are indexed one after the other, up to  *)
(* the first error: what the table is after each of them.                  *)
IndexedUpTo(db, at, hdrs) ==
  LET upTo[i \in 0 .. Len(hdrs)] ==
        IF i = 0 THEN Indexed(db)
        ELSE LET before == upTo[i - 1]
             IN  IF before.err = "none" THEN IndexHeader(before.db, at + i, hdrs[i])
                                        ELSE before
  IN  upTo
=============================================================================
