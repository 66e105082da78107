------------------------- MODULE MetadataPersister -------------------------
(***************************************************************************)
(* The metadata index: the table headers of the SQLite database, as the    *)
(* set of its rows, and the statements pkg/persisters/metadata.go runs on  *)
(* it.  The primary key is (name, linkname).  record is where the content  *)
(* of the entry starts on the tape, last (lastknownrecord/-block) is the   *)
(* position of the newest tape header that touched the row.  Positions     *)
(* count tape headers from 1.  The operators are functions of the table;   *)
(* every statement commits on its own.                                     *)
(***************************************************************************)
EXTENDS Paths

CONSTANTS Modes, Data, Empty, NoRow

Types == {"dir", "reg", "link"}
Sizes == Data \cup {Empty}    \* the length of a content, named by the content
Position == Nat \ {0}

(* replaces and from are the PAX records STFS.ReplacesContent and          *)
(* STFS.ReplacesName the row keeps from the header it was built from.      *)
Row == [name : Name, link : NameOrNone, type : Types, mode : Modes,
        size : Sizes, replaces : BOOLEAN, from : NameOrNone,
        record : Position, last : Position, deleted : BOOLEAN]

ASSUME MetadataAssumption == Empty \notin Data /\ NoRow \notin Row

SameKey(r, s) == r.name = s.name /\ r.link = s.link
Live(db) == {r \in db : ~r.deleted}

(* LIMIT 1 over the primary key's index: the row without a link first.     *)
First(rows) ==
  IF rows = {} THEN NoRow
  ELSE IF \E r \in rows : r.link = NoName
    THEN CHOOSE r \in rows : r.link = NoName
    ELSE CHOOSE r \in rows : TRUE

GetHeader(db, n) == First({r \in Live(db) : r.name = n})
GetHeaderByLinkname(db, n) == First({r \in Live(db) : r.link = n})
GetHeaderChildren(db, n) == {r \in Live(db) : LikeBelow(r.name, n)}

(* For the root: as deep as the shallowest live name; "/" is as deep as    *)
(* "/a".                                                                   *)
AtRootDepth(db, n) ==
  /\ n # Root
  /\ \A r \in Live(db) : Len(n) <= Len(r.name) \/ (Len(n) = 1 /\ r.name = Root)

DirectChild(db, n, d) == IF d = Root THEN AtRootDepth(db, n) ELSE DirectlyBelow(n, d)

(* Rows without a link are listed by their name, links by their linkname.  *)
GetHeaderDirectChildren(db, d) ==
  {r \in Live(db) : IF r.link = NoName THEN DirectChild(db, r.name, d)
                                       ELSE DirectChild(db, r.link, d)}

(* Faulty: the linkname is not part of the key.                            *)
UpsertHeaderByName(db, row) == {r \in db : r.name # row.name} \cup {row}

(* Insert the row when its key is new, then update every other column;     *)
(* a deleted row of that key is found as well and comes back to life.      *)
UpsertHeader(db, row) == {r \in db : ~SameKey(r, row)} \cup {row}

(* Faulty: WHERE linkname = ?.                                             *)
UpdateHeadersOfLink(db, row) == {IF r.link = row.link THEN row ELSE r : r \in db}

(* UPDATE ... WHERE name = ? AND linkname = ?: no row, no change.          *)
UpdateHeaderMetadata(db, row) ==
  {IF SameKey(r, row) THEN row ELSE r : r \in db}

(* Faulty: a table without the primary key.                                *)
KeylessConflict(db, old, new) == FALSE

(* The rename of every row named old violates the primary key.             *)
MoveConflict(db, old, new) ==
  old # new /\ \E r, s \in db : r.name = old /\ s.name = new /\ r.link = s.link

MoveHeader(db, old, new, pos) ==
  {IF r.name = old THEN [r EXCEPT !.name = new, !.last = pos] ELSE r : r \in db}

(* Faulty: the mark leaves the position of the row alone.                  *)
DeleteHeaderInPlace(db, n, pos) ==
  LET hit == GetHeader(db, n)
  IN  {IF r = hit THEN [r EXCEPT !.deleted = TRUE] ELSE r : r \in db}

(* Faulty: the row is gone.                                                *)
DropHeader(db, n, pos) == db \ {GetHeader(db, n)}

(* Faulty: the update is of every row with the linkname.                   *)
DeleteHeadersOfLink(db, n, pos) ==
  LET hit == GetHeader(db, n)
  IN  {IF r.link = hit.link THEN [r EXCEPT !.deleted = TRUE, !.last = pos] ELSE r : r \in db}

(* The first live row of that name is marked; the row stays in the table.  *)
DeleteHeader(db, n, pos) ==
  LET hit == GetHeader(db, n)
  IN  {IF r = hit THEN [r EXCEPT !.deleted = TRUE, !.last = pos] ELSE r : r \in db}

(* Faulty: the greatest last of the live rows.                             *)
GetLastLive(db) ==
  IF Live(db) = {} THEN 1
  ELSE LET lasts == {r.last : r \in Live(db)}
       IN  CHOOSE m \in lasts : \A l \in lasts : l <= m

(* The greatest last of all rows, deleted ones included; the start of the  *)
(* tape when the table is empty.                                           *)
GetLastIndexed(db) ==
  IF db = {} THEN 1
  ELSE LET lasts == {r.last : r \in db}
       IN  CHOOSE m \in lasts : \A l \in lasts : l <= m
=============================================================================
