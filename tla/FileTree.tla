------------------------------ MODULE FileTree ------------------------------
(***************************************************************************)
(* What a file system promises: a tree of directories and files, in which  *)
(* every call has one outcome.  The promise is made to plain clients: once *)
(* one has taken a liberty (plain is FALSE) nothing is said any more.      *)
(* There are no links: making one is a liberty.                            *)
(***************************************************************************)
EXTENDS Paths

CONSTANTS Flags, Modes

VARIABLES tree,   \* a function from the names that exist to type and mode
          last,   \* the last call and whether it succeeded
          plain

treeVars == <<tree, last, plain>>

Exists(n) == n \in DOMAIN tree
IsDir(n) == Exists(n) /\ tree[n].type = "dir"
IsFile(n) == Exists(n) /\ tree[n].type = "reg"
Subtree(n) == {m \in DOMAIN tree : m = n \/ Below(m, n)}

Succeed(call) == last' = [call |-> call, ok |-> TRUE]
Refuse(call) == last' = [call |-> call, ok |-> FALSE] /\ UNCHANGED tree

Put(n, type) == \E mode \in Modes :
  tree' = [m \in DOMAIN tree \cup {n} |->
             IF m = n THEN [type |-> type, mode |-> mode] ELSE tree[m]]

Without(names) == tree' = [m \in DOMAIN tree \ names |-> tree[m]]

-----------------------------------------------------------------------------
OpenFile(call, n, flags) ==
  \/ IsDir(n) /\ "write" \in flags /\ Refuse(call)
  \/ /\ IsFile(n) \/ (IsDir(n) /\ "write" \notin flags)
     /\ Succeed(call) /\ UNCHANGED tree
  \/ ~Exists(n) /\ (IF "create" \in flags /\ IsDir(Parent(n))
                      THEN Succeed(call) /\ Put(n, "reg") ELSE Refuse(call))

Mkdir(call, n) ==
  IF ~Exists(n) /\ IsDir(Parent(n)) THEN Succeed(call) /\ Put(n, "dir") ELSE Refuse(call)

MkdirAll(call, n) ==
  \/ IsFile(n) /\ Refuse(call)
  \/ IsDir(n) /\ Succeed(call) /\ UNCHANGED tree
  \/ ~Exists(n) /\ IsDir(Parent(n)) /\ Succeed(call) /\ Put(n, "dir")

Remove(call, n) ==
  IF Subtree(n) = {n} THEN Succeed(call) /\ Without({n}) ELSE Refuse(call)

RemoveAll(call, n) == Succeed(call) /\ Without(Subtree(n))

(* Plain clients rename to names that do not exist.                        *)
Rename(call, from, to) ==
  IF from # Root /\ Exists(from) /\ ~Exists(to) /\ ~Below(to, from) /\ IsDir(Parent(to))
    THEN /\ Succeed(call)
         /\ tree' = [m \in (DOMAIN tree \ Subtree(from)) \cup
                             {Rebase(k, from, to) : k \in Subtree(from)} |->
                       IF m = to \/ Below(m, to) THEN tree[Rebase(m, to, from)] ELSE tree[m]]
    ELSE Refuse(call)

Chmod(call, n) ==
  IF Exists(n) THEN Succeed(call) /\ Put(n, tree[n].type) ELSE Refuse(call)

Symlink(call, n) ==
  (n = Root \/ Exists(n) \/ ~Exists(Parent(n))) /\ Refuse(call)

-----------------------------------------------------------------------------
Init ==
  /\ \E mode \in Modes : tree = [n \in {Root} |-> [type |-> "dir", mode |-> mode]]
  /\ last.ok = TRUE /\ plain = TRUE

Outcome(call) ==
  CASE call.op = "Create"    -> OpenFile(call, call.name, Flags)
    [] call.op = "OpenFile"  -> OpenFile(call, call.name, call.flags)
    [] call.op = "Mkdir"     -> Mkdir(call, call.name)
    [] call.op = "MkdirAll"  -> MkdirAll(call, call.name)
    [] call.op = "Remove"    -> Remove(call, call.name)
    [] call.op = "RemoveAll" -> RemoveAll(call, call.name)
    [] call.op = "Rename"    -> Rename(call, call.name, call.to)
    [] call.op = "Symlink"   -> Symlink(call, call.to)
    [] call.op = "Chmod"     -> Chmod(call, call.name)
    [] call.op = "Lstat"     -> Refuse(call)

Next == \/ plain = TRUE /\ plain' = TRUE /\ Outcome(last'.call)
        \/ plain' = FALSE

Spec == Init /\ [][Next]_treeVars
=============================================================================
