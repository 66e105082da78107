------------------------------ MODULE MCRoots ------------------------------
(***************************************************************************)
(* Instances of Roots for TLC and the properties it checks.                *)
(***************************************************************************)
EXTENDS Roots

CONSTANTS a, b, c, test

MCPaths == {<<a>>, <<b>>, <<a, c>>}
MCProposals == {Name("abs", <<>>), Name("abs", <<test>>), Name("rel", <<test>>),
                Empty, Name("here", <<>>), Name("dot", <<>>)}
MCForeign == {[root |-> r, path |-> <<a>>] : r \in {Name("abs", <<>>), Name("dot", <<>>)}}

(* Whatever the root is called and however names were written, a process   *)
(* finds what clients of this and of earlier ones have made, also with an  *)
(* index that was rebuilt, and nothing else.                               *)
FoundAgain == answer # NoRoot => 
  \A form \in Spellings, p \in Paths : IsFound(Asked(form, p)) <=> p \in made

(* The root that is remembered, and that everything is below, is the one   *)
(* the index has: "Ensure that the new root path is being used"            *)
(* (pkg/fs/filesystem.go:267).                                             *)
RootCached == answer # NoRoot => cache.root = Top(rows) /\ answer = cache.root
=============================================================================
