---------------------------- MODULE FilesOnTape ----------------------------
(***************************************************************************)
(* Operations implements FileStore.  files is a history variable: the      *)
(* client's view of the tape, which is the entries a scan of it finds and  *)
(* the contents they point at.  It is determined by tape; being a variable *)
(* it is computed once per state.                                          *)
(***************************************************************************)
EXTENDS Operations

VARIABLE files

FilesOn(t) ==
  LET scanned == Replay(t).db
  IN  [n \in {r.name : r \in Live(scanned)} |->
         LET r == GetHeader(scanned, n)
         IN  [type |-> r.type, mode |-> r.mode, data |-> t[r.record].data]]

StoreInit == Init /\ files = FilesOn(tape)
StoreNext == Next /\ files' = IF tape' = tape THEN files ELSE FilesOn(tape')
StoreSpec == StoreInit /\ [][StoreNext]_<<vars, files>>

(* The change to the files a header stands for.                            *)
Change(h) ==
  IF h.action = "delete" THEN [do |-> "remove", name |-> h.name]
  ELSE IF h.from # NoName THEN [do |-> "rename", name |-> h.from, to |-> h.name]
  ELSE [do |-> "put", name |-> h.name,
        entry |-> [type |-> h.type, mode |-> h.mode, data |-> h.size]]

(* What the operation in progress has still to write.                      *)
PendingChanges ==
  IF pc # "write" THEN <<>>
  ELSE [i \in 1 .. Len(op.hdrs) - op.written |-> Change(op.hdrs[op.written + i])]

Store == INSTANCE FileStore WITH
  Targets <- ClientNames \cup {s.name : s \in Sources} \cup {Root},
  Entry <- [type : Types, mode : Modes, data : Sizes],
  todo <- PendingChanges

(* Every header written changes the files exactly as the call asked for:   *)
(* the operations implement the file store on the tape alone.              *)
ImplementsFileStore == Store!Spec
=============================================================================
