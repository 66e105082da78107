---------------------------- MODULE MCOperations ----------------------------
(***************************************************************************)
(* Instances of Operations for TLC and the properties it checks.           *)
(***************************************************************************)
EXTENDS Operations

CONSTANTS a, b, d, up, gz, w

(* The component up is d with other case; gz is b with the suffix of the   *)
(* configured compression appended; w is "d_a" , which in a pattern matches *)
(* "d/a" as well.                                                          *)
MCComponents == {a, b, d, up, gz, w}
MCLike == {<<c, <<c>>>> : c \in MCComponents}
            \cup {<<d, <<up>>>>, <<up, <<d>>>>, <<w, <<d, a>>>>}
MCStripped == [c \in MCComponents |-> IF c = gz THEN b ELSE c]

File(n, x) == [name |-> n, link |-> NoName, type |-> "reg", data |-> x]
Dir(n) == [name |-> n, link |-> NoName, type |-> "dir", data |-> Empty]
Link(target, n) == [name |-> target, link |-> n, type |-> "link", data |-> Empty]
WithMode(files) ==
  {[name |-> f.name, link |-> f.link, type |-> f.type, data |-> f.data, mode |-> m] :
     f \in files, m \in Modes}

(* Which mode is which makes no difference.                               *)
ModeSymmetry == Permutations(Modes)

(* A directory with one file, and a free name to move things to.           *)
NamesTree == {<<d>>, <<d, a>>, <<b>>}
SourcesTree == WithMode({Dir(<<d>>)} \cup {File(<<d, a>>, x) : x \in Sizes})

(* A file, a symlink to it and a file whose own name ends in the suffix.   *)
NamesLoose == {<<a>>, <<b>>}
SourcesLoose == WithMode({File(<<a>>, x) : x \in Data} \cup
                         {File(<<gz>>, Empty), Link(<<a>>, <<b>>)})

(* A file whose own name ends in the suffix next to one without it.        *)
NamesSuffix == {<<b>>, <<gz>>}
SourcesSuffix == WithMode({File(<<b>>, Empty)} \cup {File(<<gz>>, x) : x \in Data})

(* A symlink next to its target.                                           *)
SourcesLink == WithMode({File(<<a>>, Empty), Link(<<a>>, <<b>>)})

(* Two directories whose names differ in case only.                        *)
NamesCase == {<<d>>, <<up>>}
SourcesCase == WithMode({Dir(<<d>>), File(<<up, a>>, Empty)})

(* A directory whose name has a wildcard, and a path it matches.           *)
NamesWild == {<<w>>}
SourcesWild == WithMode({Dir(<<w>>), File(<<d, a, b>>, Empty)})
=============================================================================
