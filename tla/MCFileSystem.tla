---------------------------- MODULE MCFileSystem ----------------------------
(***************************************************************************)
(* Instances of FileSystem for TLC.                                        *)
(***************************************************************************)
EXTENDS TreeInIndex

CONSTANTS a, b, c

MCComponents == {a, b, c}
MCLike == {<<x, <<x>>>> : x \in MCComponents}
MCStripped == [x \in MCComponents |-> x]

(* The component b is a with the suffix of the configured compression.     *)
MCSuffixed == [MCStripped EXCEPT ![b] = a]

(* Two names in the root and a name that can be in either.                 *)
MCFileNames == {Root, <<a>>, <<b>>, <<a, c>>}
=============================================================================
