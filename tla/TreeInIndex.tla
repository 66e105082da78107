---------------------------- MODULE TreeInIndex -----------------------------
(***************************************************************************)
(* The tree clients of FileSystem see in the metadata index, and what is   *)
(* claimed of it.                                                          *)
(***************************************************************************)
EXTENDS FileSystem

(* What clients see of the entries that are no links.  It is determined by *)
(* db; being a variable it is computed once per state.                     *)
VARIABLE tree

Tree == [n \in {r.name : r \in {s \in Live(db) : s.link = NoName}} |->
           LET r == StatName(n) IN [type |-> r.type, mode |-> r.mode]]

TreeInit == Init /\ tree = Tree
TreeNext == Next /\ tree' = IF db' = db THEN tree ELSE Tree'
TreeSpec == TreeInit /\ [][TreeNext]_<<fsVars, tree>>

Files == INSTANCE FileTree WITH
  last <- [call |-> last.call, ok |-> last.res = "ok"],
  plain <- free = 0

(* As long as clients take no liberty, every call of the file system has   *)
(* the outcome and the effect it has on a tree.                            *)
ImplementsFileTree == Files!Spec

Making == {"Create", "OpenFile", "Mkdir", "MkdirAll", "Symlink"}

(* Making an entry, a link included, leaves every other entry as it was,   *)
(* with any clients: rows are told apart by name and link, and the row of  *)
(* a link has the name of its target.                                      *)
MakingSparesOthers ==
  [][last'.call.op \in Making =>
       \A n \in DOMAIN tree : n \in DOMAIN tree' /\ tree'[n] = tree[n]]_<<fsVars, tree>>

(* What a call has made is there: created, opened to be created or linked  *)
(* successfully, the name is found and has the type that was asked for,    *)
(* with any clients.                                                       *)
MadeIsFound ==
  last.res = "ok" =>
    /\ last.call.op \in {"Mkdir", "MkdirAll"}
         => IsFound(last.call.name) /\ Found(last.call.name).type = "dir"
    /\ last.call.op \in {"Create", "OpenFile"} => IsFound(last.call.name)
    /\ last.call.op = "Symlink" => StatLink(last.call.to) # NoRow

(* A rename to a free name loses no entry, with any clients: not when a    *)
(* directory is renamed to a name below its own, and not when entries lie  *)
(* below files or below directories that do not exist.  It gains none, but *)
(* if one name lies below the other an entry that was deleted may be back. *)
(* A rename to a name that is taken is the subject of RenameMoves.         *)
RenameLosesNothing ==
  [][last'.call.op = "Rename" /\ last'.res = "ok" /\ StatName(last'.call.to) = NoRow =>
       /\ Cardinality(Live(db)) <= Cardinality(Live(db'))
       /\ \/ Below(last'.call.to, last'.call.name) \/ Below(last'.call.name, last'.call.to)
          \/ Cardinality(Live(db')) = Cardinality(Live(db))]_<<fsVars, tree>>

(* A rename that succeeds leaves nothing under the old name and an entry   *)
(* under the new one, also when the new name was taken before, as          *)
(* filesystem_test.go:2982 wants it.  It is not so: a free call of a       *)
(* client, to a name that is taken, removes what has the new name and      *)
(* leaves the old one in place.                                            *)
RenameMoves ==
  last.res = "ok" /\ last.call.op = "Rename" /\ last.call.name # last.call.to
    => ~IsFound(last.call.name) /\ IsFound(last.call.to)
=============================================================================
