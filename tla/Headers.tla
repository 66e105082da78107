------------------------------ MODULE Headers ------------------------------
(***************************************************************************)
(* The tar headers operations write, and the rows they are made from.      *)
(***************************************************************************)
EXTENDS Recovery

(* What getSrc hands over: the FileInfo, path, link and content of a file. *)
Source == [name : Name, link : NameOrNone, type : Types, mode : Modes, data : Sizes]

HasBody(src) == src.type = "reg" /\ src.data # Empty

ArchiveHeader(src) ==
  [action |-> "create", name |-> src.name, link |-> src.link, type |-> src.type,
   mode |-> src.mode, size |-> src.data, replaces |-> FALSE, from |-> NoName,
   suffixed |-> HasBody(src), data |-> src.data]

(* skip: skipSizeCheck, set when an open file is synced, so that an empty  *)
(* content is written as well.                                             *)
ContentHeader(src, skip) ==
  [action |-> "update", name |-> src.name, link |-> src.link, type |-> src.type,
   mode |-> src.mode, size |-> src.data, replaces |-> TRUE, from |-> NoName,
   suffixed |-> src.type = "reg" /\ (src.data # Empty \/ skip), data |-> src.data]

(* chmod, chown and chtimes start from the row and keep its PAX records.   *)
MetadataHeader(row, mode) ==
  [action |-> "update", name |-> row.name, link |-> row.link, type |-> row.type,
   mode |-> mode, size |-> row.size, replaces |-> FALSE, from |-> row.from,
   suffixed |-> FALSE, data |-> Empty]

(* operation update without -o starts from a local file: no PAX records.   *)
LocalHeader(src) ==
  [action |-> "update", name |-> src.name, link |-> src.link, type |-> src.type,
   mode |-> src.mode, size |-> Empty, replaces |-> FALSE, from |-> NoName,
   suffixed |-> FALSE, data |-> Empty]

HeaderOfRow(row, action, name, from) ==
  [action |-> action, name |-> name, link |-> row.link, type |-> row.type,
   mode |-> row.mode, size |-> row.size, replaces |-> row.replaces, from |-> from,
   suffixed |-> FALSE, data |-> Empty]

DeletionHeader(row) == HeaderOfRow(row, "delete", row.name, row.from)

(* Faulty: what lies below the entry gets the name of the entry.           *)
RenameHeaderFlat(row, from, to) == HeaderOfRow(row, "update", to, row.name)

RenameHeader(row, from, to) ==
  HeaderOfRow(row, "update", Rebase(row.name, from, to), row.name)

RootHeader(mode) ==
  ArchiveHeader([name |-> Root, link |-> NoName, type |-> "dir", mode |-> mode,
                 data |-> Empty])

(* The row of that name, else the row that is a link of that name.         *)
Lookup(db, n) ==
  IF GetHeader(db, n) # NoRow THEN GetHeader(db, n) ELSE GetHeaderByLinkname(db, n)
=============================================================================
