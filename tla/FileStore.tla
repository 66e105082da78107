------------------------------ MODULE FileStore ------------------------------
(***************************************************************************)
(* What the write operations promise to a client, without tape and index:  *)
(* a map from names to entries.  A call of the client stands for a list of *)
(* changes to single entries, todo; the changes take effect one after the  *)
(* other, and a crash drops the rest.  A directory is removed or renamed   *)
(* with everything below it, and with nothing else.                        *)
(***************************************************************************)
EXTENDS Paths, SequencesExt

CONSTANTS Targets,   \* the names entries are renamed to
          Entry      \* type, mode and content of an entry

VARIABLES files, todo

fsVars == <<files, todo>>

Put(n, e) == [do |-> "put", name |-> n, entry |-> e]
Remove1(n) == [do |-> "remove", name |-> n]
Rename1(n, to) == [do |-> "rename", name |-> n, to |-> to]

Without(f, n) == [m \in DOMAIN f \ {n} |-> f[m]]

Change(f, c) ==
  CASE c.do = "put" -> [m \in DOMAIN f \cup {c.name} |->
                          IF m = c.name THEN c.entry ELSE f[m]]
    [] c.do = "remove" -> Without(f, c.name)
    [] c.do = "rename" -> [m \in (DOMAIN f \ {c.name}) \cup {c.to} |->
                             IF m = c.to THEN f[c.name] ELSE f[m]]

Under(n) ==
  {m \in DOMAIN files : files[n].type = "dir" /\ Below(m, n)}

(* What a call of the client may stand for.                                *)
StoreFiles ==
  todo' \in Seq([do : {"put"}, name : Targets \cup DOMAIN files, entry : Entry])

Chmod == \E n \in DOMAIN files : \E e \in Entry :
  /\ e.type = files[n].type /\ e.data = files[n].data
  /\ todo' = <<Put(n, e)>>

RemoveTree == \E n \in DOMAIN files : \E rest \in SetToSeqs(Under(n)) :
  todo' = [i \in 1 .. Len(rest) + 1 |-> Remove1((<<n>> \o rest)[i])]

RenameTree == \E n \in DOMAIN files, to \in Targets : \E rest \in SetToSeqs(Under(n)) :
  todo' = [i \in 1 .. Len(rest) + 1 |->
             LET m == (<<n>> \o rest)[i] IN Rename1(m, Rebase(m, n, to))]

Call ==
  /\ todo = <<>> /\ todo' # <<>> /\ UNCHANGED files
  /\ StoreFiles \/ Chmod \/ RemoveTree \/ RenameTree

Step ==
  /\ todo # <<>>
  /\ files' = Change(files, Head(todo)) /\ todo' = Tail(todo)

Drop == todo # <<>> /\ todo' = <<>> /\ UNCHANGED files

Init == files = [n \in {} |-> n] /\ todo = <<>>

Next == Call \/ Step \/ Drop

Spec == Init /\ [][Next]_fsVars
=============================================================================
