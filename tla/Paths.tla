------------------------------- MODULE Paths -------------------------------
(***************************************************************************)
(* Names of entries.  A cleaned absolute path is the sequence of its       *)
(* components: "/" is <<>> and "/d/a" is <<"d", "a">>.  Components are      *)
(* opaque; the two things the code looks for inside one are constants:     *)
(*   Like      the pairs <<p, run>> such that the component p, used inside *)
(*             an SQL LIKE pattern, matches the components run, a sequence *)
(*             that is not empty.  LIKE ignores the case of ASCII letters  *)
(*             and reads _ and % in p as wildcards, which match a slash as *)
(*             well: "a_b" matches "axb", and "a/b", the run <<"a", "b">>.  *)
(*   Stripped  the component without the suffix of the configured          *)
(*             compression and encryption formats, or the component        *)
(*             itself when it does not end in that suffix.                 *)
(***************************************************************************)
EXTENDS Naturals, Sequences

CONSTANTS Components, Like, Stripped, NoName

Name == Seq(Components)
NameOrNone == Name \cup {NoName}

ASSUME PathsAssumption ==
  /\ \A c \in Components : <<c, <<c>>>> \in Like
  /\ Stripped \in [Components -> Components]
  /\ NoName \notin Name

Root == <<>>

(* The directory an entry lies in; the root lies in itself.                *)
Parent(n) == SubSeq(n, 1, Len(n) - 1)

(* n lies strictly below the directory d.                                  *)
Below(n, d) == Len(n) > Len(d) /\ SubSeq(n, 1, Len(d)) = d

(* The slashes that begin the components of a pattern and the one that     *)
(* ends its last match slashes of the name n: its i-th component matches   *)
(* what n has between the i-th and the next of them.                       *)
Match(n, d, cuts) ==
  /\ cuts[0] = 0
  /\ \A i \in 1 .. Len(d) :
       cuts[i - 1] < cuts[i] /\ <<d[i], SubSeq(n, cuts[i - 1] + 1, cuts[i])>> \in Like

(* Faulty: the pattern d% , which d itself matches.                        *)
LikePrefix(n, d) == \E cuts \in [0 .. Len(d) -> 0 .. Len(n)] : Match(n, d, cuts)

(* n matches the LIKE pattern d/% : something is left for the % .          *)
LikeBelow(n, d) ==
  \E cuts \in [0 .. Len(d) -> 0 .. Len(n) - 1] : Match(n, d, cuts)

(* How often "/d/" occurs in n after the first time: replace() takes every *)
(* occurrence out of a name, and an occurrence ends in the slash the next  *)
(* one would begin with.                                                   *)
Repeats(n, d) ==
  LET from[i \in Nat] ==
        IF i + Len(d) > Len(n) THEN 0
        ELSE IF SubSeq(n, i, i + Len(d) - 1) = d THEN 1 + from[i + Len(d) + 1]
        ELSE from[i + 1]
  IN  from[Len(d) + 2]

(* What is left of n, without "/d/" wherever it occurs, has no slash.  For *)
(* d other than the root.                                                  *)
DirectlyBelow(n, d) ==
  Below(n, d) /\ Len(n) = (Len(d) + 1) * (Repeats(n, d) + 1)

(* path.Join(to, n without the prefix from): a name without that prefix    *)
(* is put below to as a whole.                                             *)
Rebase(n, from, to) ==
  IF n = from \/ Below(n, from)
    THEN to \o SubSeq(n, Len(from) + 1, Len(n))
    ELSE to \o n

(* suffix.RemoveSuffix on the last component of a name.                    *)
RemoveSuffix(n) ==
  IF n = Root THEN n ELSE [n EXCEPT ![Len(n)] = Stripped[n[Len(n)]]]
=============================================================================
