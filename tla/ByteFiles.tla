----------------------------- MODULE ByteFiles ------------------------------
(***************************************************************************)
(* What open files promise: each handle has a view of the bytes of its     *)
(* file and a position in it, every call on it has the outcome it has on   *)
(* any file, and closing the handle stores what was written.  The promise  *)
(* is made to plain clients: once one has taken a liberty (plain is FALSE) *)
(* nothing is said any more.  What calls by name do is not the subject.    *)
(***************************************************************************)
EXTENDS Integers, Sequences

CONSTANTS Handles, NoFile

VARIABLES files,  \* a function from names to bytes
          views,  \* what each handle sees
          last,   \* the last call, its result and what it returned
          plain

byteVars == <<files, views, last, plain>>

View(n, flags, data) ==
  [name |-> n, flags |-> flags, at |-> 0,
   data |-> IF "truncate" \in flags THEN <<>> ELSE data,
   written |-> "truncate" \in flags]

(* A position that is not promised.                                        *)
AnyPosition(h) == views'[h].at

Sees(h, data, at) ==
  /\ views' = [views EXCEPT ![h] = [name |-> @.name, flags |-> @.flags, at |-> at,
                                    data |-> data, written |-> TRUE]]
  /\ UNCHANGED files

Moves(h, at) == views' = [views EXCEPT ![h].at = at] /\ UNCHANGED files

Changed(data, at, bytes) ==
  LET end == at + Len(bytes)
  IN  [i \in 1 .. IF end > Len(data) THEN end ELSE Len(data) |->
         IF i > at /\ i <= end THEN bytes[i - at]
         ELSE IF i <= Len(data) THEN data[i] ELSE 0]

(* The end is told without any bytes, or with the last ones.               *)
ReadBytes(h, at, k) ==
  LET data == views[h].data
      n == IF at >= Len(data) THEN 0 ELSE IF at + k > Len(data) THEN Len(data) - at ELSE k
  IN  /\ last'.out = SubSeq(data, at + 1, at + n)
      /\ n = 0 => last'.res = "eof"
      /\ n = k => last'.res = "ok"

-----------------------------------------------------------------------------
Open(n) ==
  \/ /\ last'.res = "ok"
     /\ files' = IF n \in DOMAIN files THEN files
                 ELSE [m \in DOMAIN files \cup {n} |-> IF m = n THEN <<>> ELSE files[m]]
     /\ \E h \in Handles :
          /\ views[h] = NoFile /\ views'[h] # NoFile
          /\ views' = [views EXCEPT ![h] = View(n, views'[h].flags, files'[n])]
  \/ last'.res # "ok" /\ UNCHANGED <<files, views>>

Allowed(h, flag) ==
  IF flag \in views[h].flags THEN TRUE
  ELSE last'.res = "permission" /\ UNCHANGED <<files, views>>

Read(h, k) ==
  /\ Allowed(h, "read")
  /\ "read" \in views[h].flags =>
       /\ ReadBytes(h, views[h].at, k)
       /\ Moves(h, views[h].at + Len(last'.out))

ReadAt(h, k, off) ==
  /\ Allowed(h, "read")
  /\ "read" \in views[h].flags => ReadBytes(h, off, k) /\ Moves(h, AnyPosition(h))

Seek(h, off, whence) ==
  LET from == [start |-> 0, current |-> views[h].at, end |-> Len(views[h].data)]
      dst == from[whence] + off
  IN  IF dst < 0 THEN last'.res = "invalid" /\ UNCHANGED <<files, views>>
      ELSE last'.res = "ok" /\ last'.out = dst /\ Moves(h, dst)

Write(h, bytes) ==
  LET at == IF "append" \in views[h].flags THEN Len(views[h].data) ELSE views[h].at
  IN  /\ Allowed(h, "write")
      /\ "write" \in views[h].flags =>
           /\ last'.res = "ok" /\ last'.out = Len(bytes)
           /\ Sees(h, Changed(views[h].data, at, bytes), at + Len(bytes))

WriteAt(h, bytes, off) ==
  /\ Allowed(h, "write")
  /\ "write" \in views[h].flags =>
       /\ last'.res = "ok" /\ last'.out = Len(bytes)
       /\ Sees(h, Changed(views[h].data, off, bytes), AnyPosition(h))

Truncate(h, size) ==
  /\ Allowed(h, "write")
  /\ "write" \in views[h].flags =>
       /\ last'.res = "ok"
       /\ Sees(h, [i \in 1 .. size |->
                     IF i <= Len(views[h].data) THEN views[h].data[i] ELSE 0], views[h].at)

Stat(h) ==
  /\ last'.res = "ok" /\ last'.out = Len(views[h].data)
  /\ UNCHANGED <<files, views>>

Stored(h) ==
  /\ last'.res = "ok"
  /\ files' = IF views[h].written THEN [files EXCEPT ![views[h].name] = views[h].data] ELSE files

Sync(h) == Stored(h) /\ UNCHANGED views
Close(h) == Stored(h) /\ views' = [views EXCEPT ![h] = NoFile]

-----------------------------------------------------------------------------
Init == views = [h \in Handles |-> NoFile] /\ plain = TRUE

Outcome(call) ==
  CASE call.op = "OpenFile" -> Open(call.name)
    [] call.op = "Read"     -> Read(call.handle, call.args[1])
    [] call.op = "ReadAt"   -> ReadAt(call.handle, call.args[1], call.args[2])
    [] call.op = "Seek"     -> Seek(call.handle, call.args[1], call.args[2])
    [] call.op = "Write"    -> Write(call.handle, call.args)
    [] call.op = "WriteAt"  -> WriteAt(call.handle, call.args[1], call.args[2])
    [] call.op = "Truncate" -> Truncate(call.handle, call.args[1])
    [] call.op = "Stat"     -> Stat(call.handle)
    [] call.op = "Sync"     -> Sync(call.handle)
    [] call.op = "Close"    -> Close(call.handle)
    [] OTHER                -> UNCHANGED views

Next == \/ plain = TRUE /\ plain' = TRUE /\ Outcome(last'.call)
        \/ plain' = FALSE

Spec == Init /\ [][Next]_byteVars
=============================================================================
