---------------------------- MODULE MCOpenFiles ----------------------------
(***************************************************************************)
(* Instances of OpenFiles for TLC.                                         *)
(***************************************************************************)
EXTENDS OpenFiles

CONSTANTS a, b

MCComponents == {a, b}
MCLike == {<<x, <<x>>>> : x \in MCComponents}
MCStripped == [x \in MCComponents |-> x]
MCFileNames == {<<a>>, <<b>>}

NoBytes == <<>>

MCChunks == {<<1>>}
MCOffsets == -1 .. 1
MCOpenFlags == {{"read"}, {"read", "write", "create"}, {"read", "write", "append"},
                {"write", "truncate"}}

(* Nothing that is done depends on the last call; what a property says of  *)
(* it is said of the step that makes it.                                   *)
WithoutLast == <<db, drive, free, handles, loose>>
=============================================================================
