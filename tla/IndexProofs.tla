---------------------------- MODULE IndexProofs ----------------------------
(***************************************************************************)
(* Lemmas about names, the statements on the metadata index and the        *)
(* indexing of one header.                                                 *)
(***************************************************************************)
EXTENDS Headers, SequencesExt, FiniteSetTheorems, SequenceTheorems, NaturalProofs

(* A table of the database: finitely many rows.                            *)
Table(db) == db \subseteq Row /\ IsFiniteSet(db)

(* No content starts after position j, no row was touched after k.         *)
Within(db, j, k) == \A r \in db : r.record <= j /\ r.last <= k

KeysUnique(db) == \A r, s \in db : SameKey(r, s) => r = s

(* Some row of new is at least as recent as any of old.                    *)
NotOlder(new, old) == \A r \in old : \E s \in new : r.last <= s.last

-----------------------------------------------------------------------------
(* Finite sets and sequences.                                              *)

(* The image of a finite set under a function is finite.                   *)
LEMMA FiniteImage ==
  ASSUME NEW S, IsFiniteSet(S), NEW T, NEW f \in [S -> T]
  PROVE  IsFiniteSet({f[x] : x \in S})
<1> DEFINE I == {f[x] : x \in S}
<1>1. f \in Surjection(S, I)
  BY DEF Surjection
<1> HIDE DEF I
<1>2. IsFiniteSet(I)
  BY <1>1, FS_Surjection
<1> QED
  BY <1>2 DEF I

(* A function on 1 .. n is a sequence.                                     *)
LEMMA FunctionIsSeq ==
  ASSUME NEW S, NEW n \in Nat, NEW f \in [1 .. n -> S]
  PROVE  f \in Seq(S) /\ Len(f) = n
  BY SeqDef

-----------------------------------------------------------------------------
(* Names.                                                                  *)

(* Removing the suffix of the last component leaves a name.                *)
LEMMA RemoveSuffixType ==
  ASSUME NEW n \in Name
  PROVE  RemoveSuffix(n) \in Name
<1>1. CASE n = Root
  BY <1>1 DEF RemoveSuffix
<1>2. CASE n # Root
  <2>1. Len(n) \in 1 .. Len(n)
    BY <1>2 DEF Name, Root
  <2>2. Stripped[n[Len(n)]] \in Components
    BY <2>1, ElementOfSeq, PathsAssumption DEF Name
  <2> QED
    BY <1>2, <2>1, <2>2, ExceptSeq DEF RemoveSuffix, Name
<1> QED
  BY <1>1, <1>2

(* Putting a name below another directory yields a name.                   *)
LEMMA RebaseType ==
  ASSUME NEW n \in Name, NEW from \in Name, NEW to \in Name
  PROVE  Rebase(n, from, to) \in Name
<1>1. to \o n \in Name
  BY ConcatProperties DEF Name
<1>2. SubSeq(n, Len(from) + 1, Len(n)) \in Name
  <2>1. Len(from) \in Nat /\ Len(n) \in Nat
    BY LenProperties DEF Name
  <2>2. \A i \in Len(from) + 1 .. Len(n) : n[i] \in Components
    BY <2>1, ElementOfSeq DEF Name
  <2> QED
    BY <2>1, <2>2, SubSeqProperties DEF Name
<1>3. to \o SubSeq(n, Len(from) + 1, Len(n)) \in Name
  BY <1>2, ConcatProperties DEF Name
<1> QED
  BY <1>1, <1>3 DEF Rebase

LEMMA IndexedNameType ==
  ASSUME NEW h \in Header
  PROVE  IndexedName(h) \in Name
<1>1. h.name \in Name
  BY DEF Header
<1> QED
  BY <1>1, RemoveSuffixType DEF IndexedName

LEMMA OldNameType ==
  ASSUME NEW h \in Header
  PROVE  OldName(h) \in Name
<1>1. h.from \in Name \cup {NoName}
  BY DEF Header, NameOrNone
<1> QED
  BY <1>1, IndexedNameType DEF OldName

-----------------------------------------------------------------------------
(* Names made of certain components.                                       *)

(* The name of a file does not itself end in the configured suffix.        *)
Unsuffixed(n) == n # Root => Stripped[n[Len(n)]] = n[Len(n)]

PlainOver(U, n) == n \in Seq(U) /\ Unsuffixed(n)

(* Each of them, in a LIKE pattern, matches only itself: no other, and no  *)
(* path of several of them.                                                *)
ExactOn(U) == \A p \in U, run \in Seq(U) : <<p, run>> \in Like => run = <<p>>

(* The components that occur in some names.                                *)
UsedIn(names) == UNION {{n[i] : i \in 1 .. Len(n)} : n \in names}

LEMMA UsedInType ==
  ASSUME NEW names \in SUBSET Name
  PROVE  UsedIn(names) \subseteq Components /\ \A n \in names : n \in Seq(UsedIn(names))
<1>1. ASSUME NEW n \in names, NEW i \in 1 .. Len(n) PROVE n[i] \in UsedIn(names)
  BY DEF UsedIn
<1>2. ASSUME NEW n \in names PROVE n \in Seq(UsedIn(names))
  <2>1. n \in [1 .. Len(n) -> UsedIn(names)] /\ Len(n) \in Nat
    BY <1>1 DEF Name
  <2> QED
    BY <2>1, FunctionIsSeq
<1>3. UsedIn(names) \subseteq Components
  BY ElementOfSeq DEF UsedIn, Name
<1> QED
  BY <1>2, <1>3

LEMMA PlainOverIsName ==
  ASSUME NEW U \in SUBSET Components, NEW n, PlainOver(U, n)
  PROVE  n \in Name /\ RemoveSuffix(n) = n
<1>1. n \in Seq(Components)
  BY ElementOfSeq, SeqDef DEF PlainOver
<1>2. CASE n = Root
  BY <1>1, <1>2 DEF RemoveSuffix, Name
<1>3. CASE n # Root
  <2>1. RemoveSuffix(n) = [n EXCEPT ![Len(n)] = n[Len(n)]]
    BY <1>3 DEF RemoveSuffix, PlainOver, Unsuffixed
  <2> QED
    BY <1>1, <2>1 DEF Name
<1> QED
  BY <1>2, <1>3

(* So is what comes of moving one.                                         *)
LEMMA RebaseIsPlainOver ==
  ASSUME NEW U, NEW n, NEW from, NEW to, PlainOver(U, n), PlainOver(U, from), PlainOver(U, to)
  PROVE  PlainOver(U, Rebase(n, from, to))
<1>0. n \in Seq(U) /\ from \in Seq(U) /\ to \in Seq(U)
  BY DEF PlainOver
<1> DEFINE m == to \o n
           rest == SubSeq(n, Len(from) + 1, Len(n))
           k == to \o rest
<1>1. PlainOver(U, m)
  <2>1. m \in Seq(U) /\ Len(m) = Len(to) + Len(n)
    BY <1>0, ConcatProperties
  <2>2. CASE n = Root
    BY <1>0, <2>1, <2>2 DEF Root, PlainOver
  <2>3. CASE n # Root
    <3>1. Len(n) \in 1 .. Len(n) /\ m[Len(m)] = n[Len(n)]
      BY <1>0, <2>1, <2>3, ConcatProperties DEF Root
    <3> HIDE DEF m
    <3> QED
      BY <2>1, <2>3, <3>1 DEF PlainOver, Unsuffixed
  <2> QED
    BY <2>2, <2>3
<1>2. CASE n = from \/ Below(n, from)
  <2>1. Len(from) \in Nat /\ Len(n) \in Nat /\ Len(from) <= Len(n)
    BY <1>0, <1>2 DEF Below
  <2>2. /\ rest \in Seq(U) /\ Len(rest) = Len(n) - Len(from)
        /\ \A i \in 1 .. Len(rest) : rest[i] = n[Len(from) + i]
    <3>1. \A i \in Len(from) + 1 .. Len(n) : n[i] \in U
      BY <1>0, <2>1, ElementOfSeq
    <3> QED
      BY <2>1, <3>1, SubSeqProperties
  <2>3. k \in Seq(U) /\ Len(k) = Len(to) + Len(rest)
    <3> HIDE DEF rest
    <3> QED
      BY <1>0, <2>2, ConcatProperties
  <2>4. CASE n = from
    <3>1. rest = <<>>
      <4> HIDE DEF rest
      <4> QED
        BY <1>0, <2>1, <2>2, <2>4
    <3>2. k = to
      <4> HIDE DEF rest
      <4> QED
        BY <1>0, <3>1
    <3> QED
      BY <1>2, <3>2 DEF Rebase
  <2>5. CASE Below(n, from)
    <3>1. Len(rest) \in 1 .. Len(rest) /\ rest[Len(rest)] = n[Len(n)] /\ n # Root
      <4>1. Len(from) < Len(n)
        BY <2>5 DEF Below
      <4> HIDE DEF rest
      <4>2. Len(rest) \in 1 .. Len(rest) /\ Len(from) + Len(rest) = Len(n)
        BY <2>1, <2>2, <4>1
      <4>3. n # Root
        BY <2>1, <4>1 DEF Root
      <4> QED
        BY <2>2, <4>2, <4>3
    <3>2. k[Len(k)] = n[Len(n)]
      <4> HIDE DEF rest
      <4> QED
        BY <1>0, <2>2, <2>3, <3>1, ConcatProperties
    <3>3. Rebase(n, from, to) = k
      BY <1>2 DEF Rebase
    <3> HIDE DEF k
    <3> QED
      BY <2>3, <3>1, <3>2, <3>3 DEF PlainOver, Unsuffixed
  <2> QED
    BY <1>2, <2>4, <2>5
<1>3. CASE ~ (n = from \/ Below(n, from))
  BY <1>1, <1>3 DEF Rebase
<1> QED
  BY <1>2, <1>3

(* Where LIKE confuses nothing, it finds what lies below a name: each slash*)
(* of the pattern matches the slash of the name at the same place.         *)
LEMMA LikeIsBelowOver ==
  ASSUME NEW U, ExactOn(U), NEW n, NEW d, PlainOver(U, n), PlainOver(U, d), LikeBelow(n, d)
  PROVE  Below(n, d)
<1>1. n \in Seq(U) /\ d \in Seq(U) /\ Len(n) \in Nat /\ Len(d) \in Nat
  BY DEF PlainOver
<1>2. PICK cuts \in [0 .. Len(d) -> 0 .. Len(n) - 1] : Match(n, d, cuts)
  BY DEF LikeBelow
<1>3. ASSUME NEW i \in 1 .. Len(d), cuts[i - 1] = i - 1
      PROVE  cuts[i] = i /\ n[i] = d[i]
  <2> DEFINE run == SubSeq(n, i, cuts[i])
  <2>1. i \in 0 .. Len(d) /\ i <= cuts[i] /\ cuts[i] \in Nat /\ cuts[i] <= Len(n) /\ i - 1 + 1 = i
    <3>1. cuts[i - 1] < cuts[i]
      BY <1>2 DEF Match
    <3>2. i \in 0 .. Len(d)
      BY <1>1
    <3>3. cuts[i] \in 0 .. Len(n) - 1
      BY <1>2, <3>2
    <3> QED
      BY <1>1, <1>3, <3>1, <3>2, <3>3
  <2>2. <<d[i], run>> \in Like
    <3>1. <<d[i], SubSeq(n, cuts[i - 1] + 1, cuts[i])>> \in Like
      BY <1>2 DEF Match
    <3> QED
      BY <1>3, <2>1, <3>1
  <2>3. \A k \in i .. cuts[i] : n[k] \in U
    <3>1. \A k \in 1 .. Len(n) : n[k] \in U
      BY <1>1, ElementOfSeq
    <3> QED
      BY <1>1, <2>1, <3>1
  <2>4. /\ run \in Seq(U) /\ Len(run) = cuts[i] - i + 1
        /\ \A k \in 1 .. cuts[i] - i + 1 : run[k] = n[i + k - 1]
    BY <2>1, <2>3, SubSeqProperties
  <2> HIDE DEF run
  <2>5. run = <<d[i]>>
    <3>1. d[i] \in U
      BY <1>1, ElementOfSeq
    <3> QED
      BY <2>2, <2>4, <3>1 DEF ExactOn
  <2>6. Len(run) = 1 /\ run[1] = d[i]
    BY <2>5
  <2> QED
    BY <1>1, <2>1, <2>4, <2>6
<1> DEFINE S == {i \in 0 .. Len(d) : cuts[i] = i}
<1>4. \A i \in 0 .. Len(d) : i \in S
  <2>1. 0 \in S
    BY <1>1, <1>2 DEF Match
  <2>2. ASSUME NEW i \in 1 .. Len(d), i - 1 \in S PROVE i \in S
    BY <1>1, <1>3, <2>2
  <2> HIDE DEF S
  <2> QED
    BY <1>1, <2>1, <2>2, UpTo
<1>5. ASSUME NEW i \in 1 .. Len(d) PROVE n[i] = d[i]
  <2>1. i - 1 \in 0 .. Len(d)
    BY <1>1
  <2> QED
    BY <1>3, <1>4, <2>1
<1>6. Len(d) < Len(n)
  <2>1. Len(d) \in 0 .. Len(d)
    BY <1>1
  <2>2. cuts[Len(d)] = Len(d) /\ cuts[Len(d)] <= Len(n) - 1
    BY <1>2, <1>4, <2>1
  <2> QED
    BY <1>1, <2>2
<1>7. SubSeq(n, 1, Len(d)) = d
  <2>1. \A i \in 1 .. Len(d) : n[i] \in U
    BY <1>1, <1>5, ElementOfSeq
  <2>2. /\ SubSeq(n, 1, Len(d)) \in Seq(U) /\ Len(SubSeq(n, 1, Len(d))) = Len(d)
        /\ \A i \in 1 .. Len(d) : SubSeq(n, 1, Len(d))[i] = d[i]
    BY <1>1, <1>5, <1>6, <2>1, SubSeqProperties
  <2> QED
    BY <1>1, <2>2, SeqEqual
<1> QED
  BY <1>1, <1>6, <1>7 DEF Below

(* The other way round, it always finds what lies below a name.            *)
LEMMA BelowIsLike ==
  ASSUME NEW n \in Name, NEW d \in Name, Below(n, d)
  PROVE  LikeBelow(n, d)
<1>1. Len(n) > Len(d) /\ SubSeq(n, 1, Len(d)) = d /\ Len(n) \in Nat /\ Len(d) \in Nat
  BY DEF Below, Name
<1> DEFINE cuts == [i \in 0 .. Len(d) |-> i]
<1>2. cuts \in [0 .. Len(d) -> 0 .. Len(n) - 1]
  BY <1>1
<1>3. ASSUME NEW i \in 1 .. Len(d)
      PROVE  cuts[i - 1] < cuts[i] /\ <<d[i], SubSeq(n, cuts[i - 1] + 1, cuts[i])>> \in Like
  <2>1. \A k \in 1 .. Len(n) : n[k] \in Components
    BY ElementOfSeq DEF Name
  <2>2. d[i] = n[i] /\ n[i] \in Components
    <3>1. SubSeq(n, 1, Len(d))[i] = n[1 + i - 1] /\ 1 + i - 1 = i
      BY <1>1, <2>1, SubSeqProperties
    <3> QED
      BY <1>1, <2>1, <3>1
  <2>3. cuts[i - 1] + 1 = i /\ cuts[i] = i
    BY <1>1
  <2>4. SubSeq(n, i, i) = <<d[i]>>
    <3>1. /\ SubSeq(n, i, i) \in Seq(Components) /\ Len(SubSeq(n, i, i)) = 1
          /\ SubSeq(n, i, i)[1] = n[i]
      BY <1>1, <2>2, SubSeqProperties
    <3>2. <<d[i]>> \in Seq(Components) /\ Len(<<d[i]>>) = 1 /\ <<d[i]>>[1] = d[i]
      BY <2>2
    <3>3. \A k \in 1 .. 1 : SubSeq(n, i, i)[k] = <<d[i]>>[k]
      BY <2>2, <3>1, <3>2
    <3> QED
      BY <3>1, <3>2, <3>3, SeqEqual
  <2>5. <<d[i], SubSeq(n, i, i)>> \in Like
    BY <2>2, <2>4, PathsAssumption
  <2>6. i - 1 < i
    BY <1>1
  <2>7. cuts[i - 1] = i - 1
    BY <1>1
  <2> QED
    <3> HIDE DEF cuts
    <3> QED
      BY <2>3, <2>5, <2>6, <2>7
<1>4. cuts[0] = 0
  BY <1>1
<1> HIDE DEF cuts
<1> QED
  BY <1>2, <1>3, <1>4 DEF LikeBelow, Match

-----------------------------------------------------------------------------
(* Names below names.                                                      *)

(* What a beginning of a name is.                                          *)
LEMMA PrefixOf ==
  ASSUME NEW n \in Name, NEW k \in 0 .. Len(n)
  PROVE  /\ SubSeq(n, 1, k) \in Name /\ Len(SubSeq(n, 1, k)) = k
         /\ \A i \in 1 .. k : SubSeq(n, 1, k)[i] = n[i]
<1>1. Len(n) \in Nat /\ k \in Nat /\ \A i \in 1 .. k : n[i] \in Components
  BY ElementOfSeq DEF Name
<1> QED
  BY <1>1, SubSeqProperties DEF Name

(* A name is below those it begins with.                                   *)
LEMMA BelowIs ==
  ASSUME NEW n \in Name, NEW d \in Name
  PROVE  Below(n, d) <=> Len(n) > Len(d) /\ \A i \in 1 .. Len(d) : n[i] = d[i]
<1>1. Len(n) \in Nat /\ Len(d) \in Nat
  BY DEF Name
<1> SUFFICES ASSUME Len(n) > Len(d)
             PROVE  SubSeq(n, 1, Len(d)) = d <=> \A i \in 1 .. Len(d) : n[i] = d[i]
  BY <1>1 DEF Below
<1>2. /\ SubSeq(n, 1, Len(d)) \in Name /\ Len(SubSeq(n, 1, Len(d))) = Len(d)
      /\ \A i \in 1 .. Len(d) : SubSeq(n, 1, Len(d))[i] = n[i]
  BY <1>1, PrefixOf
<1> QED
  BY <1>1, <1>2, SeqEqual DEF Name

(* A name has those of its own beginnings above it that are not itself.    *)
LEMMA PrefixAbove ==
  ASSUME NEW n \in Name, NEW k \in 0 .. Len(n)
  PROVE  k < Len(n) => Below(n, SubSeq(n, 1, k))
<1>1. SubSeq(n, 1, k) \in Name /\ Len(SubSeq(n, 1, k)) = k /\ Len(n) \in Nat
  BY PrefixOf DEF Name
<1> QED
  BY <1>1 DEF Below

(* The parent of a name is a name, above it.                               *)
LEMMA ParentOf ==
  ASSUME NEW n \in Name
  PROVE  /\ Parent(n) \in Name
         /\ n # Root => /\ Len(n) > 0 /\ Len(Parent(n)) = Len(n) - 1
                        /\ Below(n, Parent(n))
         /\ n = Root => Parent(n) = Root
<1>1. CASE n = Root
  <2>1. Len(n) = 0 /\ Root \in Name
    BY <1>1 DEF Root, Name
  <2>2. SubSeq(n, 1, 0 - 1) = Root
    BY <2>1, SubSeqEmpty DEF Root
  <2> QED
    BY <1>1, <2>1, <2>2 DEF Parent
<1>2. CASE n # Root
  <2>1. Len(n) \in Nat /\ Len(n) > 0
    BY <1>2 DEF Root, Name
  <2>2. Len(n) - 1 \in 0 .. Len(n) /\ Len(n) - 1 < Len(n)
    BY <2>1
  <2> QED
    BY <1>2, <2>1, <2>2, PrefixOf, PrefixAbove DEF Parent
<1> QED
  BY <1>1, <1>2

(* A name without its last component.                                      *)
LEMMA Shortened ==
  ASSUME NEW n \in Name, Len(n) > 0
  PROVE  /\ Parent(n) \in Name /\ Len(Parent(n)) = Len(n) - 1
         /\ \A i \in 1 .. Len(n) - 1 : Parent(n)[i] = n[i]
<1> DEFINE k == Len(n) - 1
<1>1. k \in 0 .. Len(n)
  BY DEF Name
<1> HIDE DEF k
<1>2. SubSeq(n, 1, k) \in Name /\ Len(SubSeq(n, 1, k)) = k /\ \A i \in 1 .. k : SubSeq(n, 1, k)[i] = n[i]
  BY <1>1, PrefixOf
<1> QED
  BY <1>2 DEF Parent, k

(* What is below a directory is below all that this one is below.          *)
LEMMA BelowTrans ==
  ASSUME NEW a \in Name, NEW b \in Name, NEW c \in Name, Below(a, b), b = c \/ Below(b, c)
  PROVE  Below(a, c)
<1>0. Len(a) \in Nat /\ Len(b) \in Nat /\ Len(c) \in Nat
  BY DEF Name
<1>1. CASE b = c
  BY <1>1
<1>2. CASE Below(b, c)
  <2>1. Len(a) > Len(b) /\ Len(b) > Len(c)
    BY <1>2, BelowIs
  <2>2. \A i \in 1 .. Len(c) : a[i] = c[i]
    <3>1. \A i \in 1 .. Len(b) : a[i] = b[i]
      BY BelowIs
    <3>2. \A i \in 1 .. Len(c) : b[i] = c[i] /\ i \in 1 .. Len(b)
      BY <1>0, <1>2, <2>1, BelowIs
    <3> QED
      BY <3>1, <3>2
  <2> QED
    BY <1>0, <2>1, <2>2, BelowIs
<1> QED
  BY <1>1, <1>2

(* What two names in a row are.                                            *)
LEMMA ConcatOfNames ==
  ASSUME NEW x \in Name, NEW y \in Name
  PROVE  /\ x \o y \in Name /\ Len(x \o y) = Len(x) + Len(y)
         /\ \A i \in 1 .. Len(x) + Len(y) :
              (x \o y)[i] = IF i <= Len(x) THEN x[i] ELSE y[i - Len(x)]
  BY ConcatProperties DEF Name

(* The name m is n with to in place of the leading from.                   *)
Replaces(m, n, from, to) ==
  /\ m \in Name /\ Len(m) = Len(to) + (Len(n) - Len(from))
  /\ \A i \in 1 .. Len(to) : m[i] = to[i]
  /\ \A i \in 1 .. Len(n) - Len(from) : m[Len(to) + i] = n[Len(from) + i]

(* Moved to another directory and back, a name is what it was, and in the  *)
(* meantime it is below that directory.                                    *)
LEMMA RebasedBack ==
  ASSUME NEW n \in Name, NEW from \in Name, NEW to \in Name, n = from \/ Below(n, from)
  PROVE  LET m == Rebase(n, from, to)
         IN  /\ m \in Name /\ (m = to \/ Below(m, to)) /\ Rebase(m, to, from) = n
             /\ Replaces(m, n, from, to)
<1> DEFINE Rest(x, d) == SubSeq(x, Len(d) + 1, Len(x))
           m == to \o Rest(n, from)
<1>0. Len(n) \in Nat /\ Len(from) \in Nat /\ Len(to) \in Nat /\ Len(n) >= Len(from)
  BY DEF Name, Below
<1>1. ASSUME NEW x \in Name, NEW d \in Name, Len(x) >= Len(d)
      PROVE  /\ Rest(x, d) \in Name /\ Len(Rest(x, d)) = Len(x) - Len(d)
             /\ \A i \in 1 .. Len(x) - Len(d) : Rest(x, d)[i] = x[Len(d) + i]
  <2>1. Len(x) \in Nat /\ Len(d) \in Nat
    BY DEF Name
  <2>2. \A i \in Len(d) + 1 .. Len(x) : x[i] \in Components
    BY <2>1, ElementOfSeq DEF Name
  <2>3. /\ Rest(x, d) \in Seq(Components)
        /\ Len(Rest(x, d)) = IF Len(d) + 1 <= Len(x) THEN Len(x) - (Len(d) + 1) + 1 ELSE 0
        /\ \A i \in 1 .. Len(x) - (Len(d) + 1) + 1 : Rest(x, d)[i] = x[Len(d) + 1 + i - 1]
    BY <2>1, <2>2, SubSeqProperties
  <2>4. ASSUME NEW i \in 1 .. Len(x) - Len(d)
        PROVE  i \in 1 .. Len(x) - (Len(d) + 1) + 1 /\ Len(d) + 1 + i - 1 = Len(d) + i
    BY <2>1
  <2>5. Len(Rest(x, d)) = Len(x) - Len(d)
    BY <1>1, <2>1, <2>3
  <2> HIDE DEF Rest
  <2> QED
    BY <2>3, <2>4, <2>5 DEF Name
<1>2. Rebase(n, from, to) = m
  BY DEF Rebase
<1> HIDE DEF Rest
<1>3. /\ Rest(n, from) \in Name /\ Len(Rest(n, from)) = Len(n) - Len(from)
      /\ \A i \in 1 .. Len(n) - Len(from) : Rest(n, from)[i] = n[Len(from) + i]
  BY <1>0, <1>1
<1>4. /\ m \in Name /\ Len(m) = Len(to) + (Len(n) - Len(from))
      /\ \A i \in 1 .. Len(m) : m[i] = IF i <= Len(to) THEN to[i] ELSE Rest(n, from)[i - Len(to)]
  <2> DEFINE y == Rest(n, from)
  <2>1. y \in Name /\ Len(y) = Len(n) - Len(from)
    BY <1>3
  <2> HIDE DEF y
  <2>2. /\ to \o y \in Name /\ Len(to \o y) = Len(to) + Len(y)
        /\ \A i \in 1 .. Len(to) + Len(y) : (to \o y)[i] = IF i <= Len(to) THEN to[i] ELSE y[i - Len(to)]
    BY <2>1, ConcatOfNames
  <2> QED
    BY <2>1, <2>2 DEF y
<1>5. \A i \in 1 .. Len(to) : m[i] = to[i]
  BY <1>0, <1>4
<1>6. ASSUME NEW i \in 1 .. Len(n) - Len(from)
      PROVE  m[Len(to) + i] = n[Len(from) + i]
  <2>1. Len(to) + i \in 1 .. Len(m) /\ ~(Len(to) + i <= Len(to)) /\ (Len(to) + i) - Len(to) = i
    BY <1>0, <1>4
  <2> QED
    BY <1>3, <1>4, <2>1
<1> HIDE DEF m
<1>7. m = to \/ Below(m, to)
  <2>1. CASE Len(n) = Len(from)
    <3>1. Len(m) = Len(to)
      BY <1>0, <1>4, <2>1
    <3> QED
      BY <1>4, <1>5, <3>1, SeqEqual DEF Name
  <2>2. CASE Len(n) # Len(from)
    <3>1. Len(m) > Len(to)
      BY <1>0, <1>4, <2>2
    <3> QED
      BY <1>4, <1>5, <3>1, BelowIs
  <2> QED
    BY <2>1, <2>2
<1>8. \A i \in 1 .. Len(from) : n[i] = from[i]
  BY BelowIs
<1>9. Rebase(m, to, from) = n
  <2> DEFINE b == from \o Rest(m, to)
  <2>1. Rebase(m, to, from) = b
    BY <1>7 DEF Rebase, Rest
  <2>2. Len(m) >= Len(to) /\ Len(m) - Len(to) = Len(n) - Len(from)
    BY <1>0, <1>4
  <2>3. /\ Rest(m, to) \in Name /\ Len(Rest(m, to)) = Len(n) - Len(from)
        /\ \A i \in 1 .. Len(n) - Len(from) : Rest(m, to)[i] = n[Len(from) + i]
    <3>1. /\ Rest(m, to) \in Name /\ Len(Rest(m, to)) = Len(m) - Len(to)
          /\ \A i \in 1 .. Len(m) - Len(to) : Rest(m, to)[i] = m[Len(to) + i]
      BY <1>1, <1>4, <2>2
    <3> QED
      BY <1>6, <2>2, <3>1
  <2>4. /\ b \in Name /\ Len(b) = Len(n)
        /\ \A i \in 1 .. Len(b) : b[i] = IF i <= Len(from) THEN from[i] ELSE Rest(m, to)[i - Len(from)]
    <3>1. Len(b) = Len(from) + (Len(n) - Len(from)) /\ b \in Name
      BY ConcatOfNames, <2>3
    <3>2. Len(b) = Len(n)
      BY <1>0, <3>1
    <3> QED
      BY ConcatOfNames, <2>3, <3>1, <3>2
  <2>5. ASSUME NEW i \in 1 .. Len(n) PROVE b[i] = n[i]
    <3>1. CASE i <= Len(from)
      BY <1>0, <1>8, <2>4, <3>1
    <3>2. CASE ~(i <= Len(from))
      <4>1. i - Len(from) \in 1 .. Len(n) - Len(from) /\ Len(from) + (i - Len(from)) = i
        BY <1>0, <3>2
      <4> QED
        BY <2>3, <2>4, <3>2, <4>1
    <3> QED
      BY <3>1, <3>2
  <2> HIDE DEF b
  <2>6. b = n
    BY <2>4, <2>5, SeqEqual DEF Name
  <2> QED
    BY <2>1, <2>6
<1>10. Replaces(m, n, from, to)
  BY <1>4, <1>5, <1>6 DEF Replaces
<1> QED
  BY <1>2, <1>4, <1>7, <1>9, <1>10

(* No two names move to the same place.                                    *)
LEMMA RebaseApart ==
  ASSUME NEW m \in Name, NEW n \in Name, NEW from \in Name, NEW to \in Name,
         m = from \/ Below(m, from), n = from \/ Below(n, from),
         Rebase(m, from, to) = Rebase(n, from, to)
  PROVE  m = n
<1>1. Rebase(Rebase(m, from, to), to, from) = m
  BY RebasedBack
<1>2. Rebase(Rebase(n, from, to), to, from) = n
  BY RebasedBack
<1> QED
  BY <1>1, <1>2

(* The parent goes where its entry goes.                                   *)
LEMMA ParentRebased ==
  ASSUME NEW n \in Name, NEW from \in Name, NEW to \in Name, Below(n, from)
  PROVE  /\ Parent(n) = from \/ Below(Parent(n), from)
         /\ Parent(Rebase(n, from, to)) = Rebase(Parent(n), from, to)
<1> DEFINE p == Parent(n)
           m == Rebase(n, from, to)
<1>0. Len(n) \in Nat /\ Len(from) \in Nat /\ Len(to) \in Nat /\ Len(n) > Len(from)
  BY BelowIs DEF Name
<1>1. n # Root
  BY <1>0 DEF Root
<1>2. /\ p \in Name /\ Len(p) = Len(n) - 1
      /\ \A i \in 1 .. Len(n) - 1 : p[i] = n[i]
  BY <1>0, Shortened
<1> HIDE DEF p
<1>3. p = from \/ Below(p, from)
  <2>1. \A i \in 1 .. Len(from) : p[i] = from[i]
    <3>1. \A i \in 1 .. Len(from) : n[i] = from[i]
      BY BelowIs
    <3>2. \A i \in 1 .. Len(from) : i \in 1 .. Len(n) - 1
      BY <1>0
    <3> QED
      BY <1>2, <3>1, <3>2
  <2>2. CASE Len(p) = Len(from)
    BY <1>2, <2>1, <2>2, SeqEqual DEF Name
  <2>3. CASE Len(p) # Len(from)
    BY <1>0, <1>2, <2>1, <2>3, BelowIs
  <2> QED
    BY <2>2, <2>3
<1> DEFINE q == Rebase(p, from, to)
           k == Parent(m)
<1>4. Replaces(m, n, from, to) /\ Replaces(q, p, from, to)
  BY <1>2, <1>3, RebasedBack
<1> HIDE DEF m, q
<1>5. /\ m \in Name /\ Len(m) = Len(to) + (Len(n) - Len(from))
      /\ \A i \in 1 .. Len(to) : m[i] = to[i] /\ q[i] = to[i]
      /\ \A i \in 1 .. Len(n) - Len(from) : m[Len(to) + i] = n[Len(from) + i]
      /\ q \in Name /\ Len(q) = Len(to) + (Len(p) - Len(from))
      /\ \A i \in 1 .. Len(p) - Len(from) : q[Len(to) + i] = p[Len(from) + i]
  BY <1>4 DEF Replaces
<1>6. /\ k \in Name /\ Len(k) = Len(m) - 1
      /\ \A i \in 1 .. Len(m) - 1 : k[i] = m[i]
  <2>1. m \in Name /\ Len(m) > 0
    BY <1>0, <1>5
  <2> QED
    BY <2>1, Shortened
<1> HIDE DEF k
<1>7. Len(k) = Len(q)
  BY <1>0, <1>2, <1>5, <1>6
<1>8. ASSUME NEW i \in 1 .. Len(k) PROVE k[i] = q[i]
  <2>1. CASE i <= Len(to)
    BY <1>0, <1>5, <1>6, <2>1
  <2>2. CASE ~(i <= Len(to))
    <3> DEFINE j == i - Len(to)
    <3>1. /\ j \in 1 .. Len(p) - Len(from) /\ j \in 1 .. Len(n) - Len(from) /\ i = Len(to) + j
          /\ Len(from) + j \in 1 .. Len(n) - 1 /\ i \in 1 .. Len(m) - 1
      BY <1>0, <1>2, <1>5, <1>6, <2>2
    <3> HIDE DEF j
    <3>2. k[i] = n[Len(from) + j]
      BY <1>5, <1>6, <3>1
    <3>3. q[i] = n[Len(from) + j]
      BY <1>2, <1>5, <3>1
    <3> QED
      BY <3>2, <3>3
  <2> QED
    BY <1>0, <2>1, <2>2
<1>9. k = q
  BY <1>5, <1>6, <1>7, <1>8, SeqEqual DEF Name
<1> QED
  BY <1>3, <1>9 DEF p, k, q, m

(* In a name one longer than that of a directory the directory occurs at   *)
(* the beginning or nowhere.                                               *)
LEMMA OnceInChild ==
  ASSUME NEW n \in Name, NEW d \in Name, d # Root, Len(n) = Len(d) + 1
  PROVE  Repeats(n, d) = 0
<1> DEFINE D(f, i) == IF i + Len(d) > Len(n) THEN 0
                      ELSE IF SubSeq(n, i, i + Len(d) - 1) = d THEN 1 + f[i + Len(d) + 1]
                      ELSE f[i + 1]
           At(i) == SubSeq(n, i, i + Len(d) - 1) = d
           one == IF At(1) THEN 1 ELSE 0
           g == [i \in Nat |-> IF i > 1 THEN 0 ELSE IF i = 1 THEN one
                               ELSE IF At(0) THEN 1 ELSE one]
<1>1. Len(d) \in Nat /\ Len(d) > 0
  BY DEF Name, Root
<1>2. ASSUME NEW i \in Nat PROVE g[i] = D(g, i)
  <2>1. i + Len(d) > Len(n) <=> i > 1
    BY <1>1
  <2>2. i + Len(d) + 1 \in Nat /\ i + Len(d) + 1 > 1 /\ i + 1 \in Nat
    BY <1>1
  <2>3. g[i + Len(d) + 1] = 0
    BY <2>2
  <2>4. CASE i > 1
    BY <2>1, <2>4
  <2>5. CASE i = 1
    <3>1. g[i + 1] = 0 /\ g[i] = one
      BY <2>2, <2>5
    <3>2. D(g, i) = IF At(1) THEN 1 + g[i + Len(d) + 1] ELSE g[i + 1]
      BY <2>1, <2>5
    <3> HIDE DEF At, D, g
    <3> QED
      BY <2>3, <3>1, <3>2
  <2>6. CASE i = 0
    <3>1. g[i + 1] = one /\ g[i] = IF At(0) THEN 1 ELSE one
      BY <2>2, <2>6
    <3>2. D(g, i) = IF At(0) THEN 1 + g[i + Len(d) + 1] ELSE g[i + 1]
      BY <2>1, <2>6
    <3> HIDE DEF At, D, g
    <3> QED
      BY <2>3, <3>1, <3>2
  <2>7. i > 1 \/ i = 1 \/ i = 0
    OBVIOUS
  <2> HIDE DEF g, D
  <2> QED
    BY <2>4, <2>5, <2>6, <2>7
<1>3. g = [i \in Nat |-> D(g, i)]
  <2>1. DOMAIN g = Nat /\ g = [i \in Nat |-> g[i]]
    OBVIOUS
  <2> HIDE DEF g, D
  <2> QED
    BY <1>2, <2>1
<1> DEFINE from == CHOOSE f : f = [i \in Nat |-> D(f, i)]
<1>4. Repeats(n, d) = from[Len(d) + 2]
  BY DEF Repeats
<1>5. from = [i \in Nat |-> D(from, i)]
  <2>1. \E f : f = [i \in Nat |-> D(f, i)]
    <3> HIDE DEF g, D
    <3> QED
      BY <1>3
  <2> HIDE DEF D
  <2> QED
    BY <2>1
<1>6. from[Len(d) + 2] = D(from, Len(d) + 2)
  <2> HIDE DEF from, D
  <2> QED
    BY <1>1, <1>5
<1>7. Len(d) + 2 + Len(d) > Len(n)
  BY <1>1
<1> HIDE DEF from
<1> QED
  BY <1>4, <1>6, <1>7

-----------------------------------------------------------------------------
(* Rows.                                                                   *)

(* The row built from a header of the tape.                                *)
LEMMA HeaderRow ==
  ASSUME NEW h \in Header, NEW record \in Position, NEW last \in Position
  PROVE  /\ TarHeaderToDBHeader(h, record, last) \in Row
         /\ TarHeaderToDBHeader(h, record, last).record = record
         /\ TarHeaderToDBHeader(h, record, last).last = last
<1>1. IndexedName(h) \in Name
  BY IndexedNameType
<1> QED
  BY <1>1 DEF TarHeaderToDBHeader, Header, Row

(* The first of some rows is one of them.                                  *)
LEMMA FirstIsMember ==
  ASSUME NEW rows, rows # {}
  PROVE  First(rows) \in rows
  BY DEF First

(* What a lookup finds is a live row of that name.                         *)
LEMMA GetHeaderFound ==
  ASSUME NEW db, NEW n, GetHeader(db, n) # NoRow
  PROVE  GetHeader(db, n) \in Live(db) /\ GetHeader(db, n).name = n
<1> DEFINE rows == {r \in Live(db) : r.name = n}
<1>1. rows # {}
  BY DEF GetHeader, First
<1> QED
  BY <1>1, FirstIsMember DEF GetHeader

LEMMA GetHeaderByLinknameFound ==
  ASSUME NEW db, NEW n, GetHeaderByLinkname(db, n) # NoRow
  PROVE  GetHeaderByLinkname(db, n) \in Live(db)
<1> DEFINE rows == {r \in Live(db) : r.link = n}
<1>1. rows # {}
  BY DEF GetHeaderByLinkname, First
<1> QED
  BY <1>1, FirstIsMember DEF GetHeaderByLinkname

(* The position of the last indexed header is the greatest of the table.   *)
LEMMA LastIndexedIsGreatest ==
  ASSUME NEW db, Table(db), NEW j \in Nat, NEW k \in Nat, Within(db, j, k)
  PROVE  /\ GetLastIndexed(db) \in Position
         /\ db # {} => /\ \A r \in db : r.last <= GetLastIndexed(db)
                       /\ \E r \in db : r.last = GetLastIndexed(db)
<1> DEFINE lasts == {r.last : r \in db}
           IsGreatest(m) == m \in lasts /\ \A l \in lasts : l <= m
<1>1. CASE db = {}
  BY <1>1 DEF GetLastIndexed, Position
<1>2. CASE db # {}
  <2>1. lasts \in SUBSET Nat /\ lasts # {} /\ \A l \in lasts : l <= k
    BY <1>2 DEF Table, Within, Row, Position
  <2>2. \E m \in lasts : \A l \in lasts : l <= m
    <3> HIDE DEF lasts
    <3> QED
      BY <2>1, GreatestNatural
  <2>3. GetLastIndexed(db) = CHOOSE m \in lasts : \A l \in lasts : l <= m
    BY <1>2 DEF GetLastIndexed
  <2>4. GetLastIndexed(db) \in lasts /\ \A l \in lasts : l <= GetLastIndexed(db)
    <3> HIDE DEF lasts
    <3> QED
      BY <2>2, <2>3
  <2>5. lasts \subseteq Position
    BY DEF Table, Row
  <2> QED
    BY <2>4, <2>5
<1> QED
  BY <1>1, <1>2

-----------------------------------------------------------------------------
(* The statements on the table.                                            *)

(* Each of them yields a table, within j and k when it was before and the  *)
(* new positions are.                                                      *)
LEMMA UpsertTable ==
  ASSUME NEW db, Table(db), NEW row \in Row,
         NEW j \in Nat, NEW k \in Nat, Within(db, j, k), row.record <= j, row.last <= k
  PROVE  Table(UpsertHeader(db, row)) /\ Within(UpsertHeader(db, row), j, k)
<1> DEFINE others == {r \in db : ~SameKey(r, row)}
<1>1. IsFiniteSet(others)
  BY FS_Subset DEF Table
<1>2. IsFiniteSet(others \cup {row})
  <2> HIDE DEF others
  <2> QED
    BY <1>1, FS_AddElement
<1> QED
  BY <1>2 DEF UpsertHeader, Table, Within

LEMMA UpdateTable ==
  ASSUME NEW db, Table(db), NEW row \in Row,
         NEW j \in Nat, NEW k \in Nat, Within(db, j, k), row.record <= j, row.last <= k
  PROVE  /\ Table(UpdateHeaderMetadata(db, row))
         /\ Within(UpdateHeaderMetadata(db, row), j, k)
<1> DEFINE f == [r \in db |-> IF SameKey(r, row) THEN row ELSE r]
<1>1. UpdateHeaderMetadata(db, row) = {f[r] : r \in db}
  BY DEF UpdateHeaderMetadata
<1>2. f \in [db -> Row] /\ \A r \in db : f[r] = row \/ f[r] = r
  BY DEF Table
<1>3. IsFiniteSet({f[r] : r \in db})
  <2> HIDE DEF f
  <2> QED
    BY <1>2, FiniteImage DEF Table
<1> QED
  BY <1>1, <1>2, <1>3 DEF Table, Within

LEMMA MoveTable ==
  ASSUME NEW db, Table(db), NEW old \in Name, NEW new \in Name, NEW pos \in Position,
         NEW j \in Nat, NEW k \in Nat, Within(db, j, k), pos <= k
  PROVE  /\ Table(MoveHeader(db, old, new, pos))
         /\ Within(MoveHeader(db, old, new, pos), j, k)
<1> DEFINE f == [r \in db |-> IF r.name = old
                                THEN [r EXCEPT !.name = new, !.last = pos] ELSE r]
<1>1. MoveHeader(db, old, new, pos) = {f[r] : r \in db}
  BY DEF MoveHeader
<1>2. \A r \in db : /\ f[r] \in Row
                    /\ f[r].record = r.record
                    /\ f[r].last = r.last \/ f[r].last = pos
  BY DEF Table, Row
<1>3. IsFiniteSet({f[r] : r \in db})
  <2>1. f \in [db -> Row]
    BY <1>2
  <2> HIDE DEF f
  <2> QED
    BY <2>1, FiniteImage DEF Table
<1> HIDE DEF f
<1> QED
  BY <1>1, <1>2, <1>3 DEF Table, Within

LEMMA DeleteTable ==
  ASSUME NEW db, Table(db), NEW n \in Name, NEW pos \in Position,
         NEW j \in Nat, NEW k \in Nat, Within(db, j, k), pos <= k
  PROVE  /\ Table(DeleteHeader(db, n, pos))
         /\ Within(DeleteHeader(db, n, pos), j, k)
<1> DEFINE f == [r \in db |-> IF r = GetHeader(db, n)
                                THEN [r EXCEPT !.deleted = TRUE, !.last = pos] ELSE r]
<1>1. DeleteHeader(db, n, pos) = {f[r] : r \in db}
  BY DEF DeleteHeader
<1>2. \A r \in db : /\ f[r] \in Row
                    /\ f[r].record = r.record
                    /\ f[r].last = r.last \/ f[r].last = pos
  BY DEF Table, Row
<1>3. IsFiniteSet({f[r] : r \in db})
  <2>1. f \in [db -> Row]
    BY <1>2
  <2> HIDE DEF f
  <2> QED
    BY <2>1, FiniteImage DEF Table
<1> HIDE DEF f
<1> QED
  BY <1>1, <1>2, <1>3 DEF Table, Within

(* None of them makes the newest position of the table older, as long as   *)
(* the position they write is at least as new as all before.               *)
LEMMA UpsertNotOlder ==
  ASSUME NEW db, Table(db), NEW row \in Row, \A r \in db : r.last <= row.last
  PROVE  NotOlder(UpsertHeader(db, row), db)
<1> SUFFICES ASSUME NEW r \in db
             PROVE  \E s \in UpsertHeader(db, row) : r.last <= s.last
  BY DEF NotOlder
<1> QED
  BY DEF UpsertHeader

LEMMA UpdateNotOlder ==
  ASSUME NEW db, Table(db), NEW row \in Row, \A r \in db : r.last <= row.last
  PROVE  NotOlder(UpdateHeaderMetadata(db, row), db)
<1> SUFFICES ASSUME NEW r \in db
             PROVE  \E s \in UpdateHeaderMetadata(db, row) : r.last <= s.last
  BY DEF NotOlder
<1> DEFINE s == IF SameKey(r, row) THEN row ELSE r
<1>1. s \in UpdateHeaderMetadata(db, row)
  BY DEF UpdateHeaderMetadata
<1>2. r.last <= s.last
  BY DEF Table, Row, Position
<1> QED
  BY <1>1, <1>2

LEMMA MoveNotOlder ==
  ASSUME NEW db, Table(db), NEW old, NEW new, NEW pos \in Position,
         \A r \in db : r.last <= pos
  PROVE  NotOlder(MoveHeader(db, old, new, pos), db)
<1> SUFFICES ASSUME NEW r \in db
             PROVE  \E s \in MoveHeader(db, old, new, pos) : r.last <= s.last
  BY DEF NotOlder
<1> DEFINE s == IF r.name = old THEN [r EXCEPT !.name = new, !.last = pos] ELSE r
<1>1. s \in MoveHeader(db, old, new, pos)
  BY DEF MoveHeader
<1>2. r.last <= s.last
  BY DEF Table, Row, Position
<1> QED
  BY <1>1, <1>2

LEMMA DeleteNotOlder ==
  ASSUME NEW db, Table(db), NEW n, NEW pos \in Position,
         \A r \in db : r.last <= pos
  PROVE  NotOlder(DeleteHeader(db, n, pos), db)
<1> SUFFICES ASSUME NEW r \in db
             PROVE  \E s \in DeleteHeader(db, n, pos) : r.last <= s.last
  BY DEF NotOlder
<1> DEFINE s == IF r = GetHeader(db, n)
                  THEN [r EXCEPT !.deleted = TRUE, !.last = pos] ELSE r
<1>1. s \in DeleteHeader(db, n, pos)
  BY DEF DeleteHeader
<1>2. r.last <= s.last
  BY DEF Table, Row, Position
<1> QED
  BY <1>1, <1>2

(* Each of them keeps keys unique, a rename when nothing has the new key.  *)
LEMMA UpsertUnique ==
  ASSUME NEW db, KeysUnique(db), NEW row
  PROVE  KeysUnique(UpsertHeader(db, row))
  BY DEF KeysUnique, UpsertHeader, SameKey

LEMMA UpdateUnique ==
  ASSUME NEW db, KeysUnique(db), NEW row
  PROVE  KeysUnique(UpdateHeaderMetadata(db, row))
  BY DEF KeysUnique, UpdateHeaderMetadata, SameKey

LEMMA MoveUnique ==
  ASSUME NEW db, db \subseteq Row, KeysUnique(db), NEW old, NEW new, NEW pos,
         ~MoveConflict(db, old, new)
  PROVE  KeysUnique(MoveHeader(db, old, new, pos))
<1> DEFINE f(r) == IF r.name = old THEN [r EXCEPT !.name = new, !.last = pos] ELSE r
<1>1. ASSUME NEW r \in db
      PROVE  f(r).link = r.link /\ f(r).name = IF r.name = old THEN new ELSE r.name
  BY DEF Row
<1>2. ASSUME NEW r \in db, NEW s \in db, SameKey(f(r), f(s))
      PROVE  r = s
  <2>1. r.link = s.link
    BY <1>1, <1>2 DEF SameKey
  <2>2. r.name = s.name
    BY <1>1, <1>2, <2>1 DEF SameKey, MoveConflict
  <2> QED
    BY <2>1, <2>2 DEF KeysUnique, SameKey
<1>3. MoveHeader(db, old, new, pos) = {f(r) : r \in db}
  BY DEF MoveHeader
<1> HIDE DEF f
<1> QED
  BY <1>2, <1>3 DEF KeysUnique

LEMMA DeleteUnique ==
  ASSUME NEW db, db \subseteq Row, KeysUnique(db), NEW n, NEW pos
  PROVE  KeysUnique(DeleteHeader(db, n, pos))
<1> DEFINE f(r) == IF r = GetHeader(db, n)
                     THEN [r EXCEPT !.deleted = TRUE, !.last = pos] ELSE r
<1>1. ASSUME NEW r \in db PROVE f(r).link = r.link /\ f(r).name = r.name
  BY DEF Row
<1>2. ASSUME NEW r \in db, NEW s \in db, SameKey(f(r), f(s))
      PROVE  r = s
  BY <1>1, <1>2 DEF KeysUnique, SameKey
<1>3. DeleteHeader(db, n, pos) = {f(r) : r \in db}
  BY DEF DeleteHeader
<1> HIDE DEF f
<1> QED
  BY <1>2, <1>3 DEF KeysUnique

-----------------------------------------------------------------------------
(* Indexing a header.                                                      *)

LEMMA EditTable ==
  ASSUME NEW db, Table(db), NEW pos \in Position, NEW h \in Header,
         NEW j \in Nat, NEW k \in Nat, Within(db, j, k), pos <= j, pos <= k
  PROVE  Table(IndexEdit(db, pos, h)) /\ Within(IndexEdit(db, pos, h), j, k)
<1> DEFINE old == GetHeader(db, OldName(h))
<1>1. CASE h.replaces
  <2>1. IndexEdit(db, pos, h) = UpdateHeaderMetadata(db, TarHeaderToDBHeader(h, pos, pos))
    BY <1>1 DEF IndexEdit
  <2> QED
    BY <2>1, HeaderRow, UpdateTable
<1>2. CASE ~h.replaces /\ old # NoRow
  <2>1. old \in db
    BY <1>2, GetHeaderFound DEF Live
  <2>2. old.record \in Position /\ old.record <= j
    BY <2>1 DEF Table, Within, Row
  <2>3. IndexEdit(db, pos, h)
          = UpdateHeaderMetadata(db, TarHeaderToDBHeader(h, old.record, pos))
    BY <1>2 DEF IndexEdit
  <2> HIDE DEF old
  <2> QED
    BY <2>2, <2>3, HeaderRow, UpdateTable
<1>3. CASE ~h.replaces /\ old = NoRow
  BY <1>3 DEF IndexEdit
<1> QED
  BY <1>1, <1>2, <1>3

(* Whatever header is indexed into a table at a position, a table is what  *)
(* comes out, and it points no further than before or than that position.  *)
LEMMA IndexedTable ==
  ASSUME NEW db, Table(db), NEW pos \in Position, NEW h \in Header,
         NEW j \in Nat, NEW k \in Nat, Within(db, j, k), pos <= j, pos <= k
  PROVE  /\ Table(IndexHeader(db, pos, h).db)
         /\ Within(IndexHeader(db, pos, h).db, j, k)
         /\ IndexHeader(db, pos, h).err \in Errors
<1>1. CASE h.action = "create"
  <2>1. IndexHeader(db, pos, h)
          = Indexed(UpsertHeader(db, TarHeaderToDBHeader(h, pos, pos)))
    BY <1>1 DEF IndexHeader, IndexCreate
  <2> QED
    BY <2>1, HeaderRow, UpsertTable DEF Indexed, Errors
<1>2. CASE h.action = "delete"
  <2>1. IndexHeader(db, pos, h) = IndexDelete(db, pos, h)
    BY <1>2 DEF IndexHeader
  <2>2. IndexedName(h) \in Name
    BY IndexedNameType
  <2> QED
    BY <2>1, <2>2, DeleteTable DEF IndexDelete, Indexed, Failed, Errors
<1>3. CASE h.action = "update"
  <2>1. IndexHeader(db, pos, h) = IndexUpdate(db, pos, h)
    BY <1>3 DEF IndexHeader
  <2>2. /\ Table(IndexEdit(db, pos, h)) /\ Within(IndexEdit(db, pos, h), j, k)
        /\ OldName(h) \in Name /\ IndexedName(h) \in Name
    BY EditTable, OldNameType, IndexedNameType
  <2> QED
    BY <2>1, <2>2, MoveTable DEF IndexUpdate, Indexed, Failed, Errors
<1> QED
  BY <1>1, <1>2, <1>3 DEF Header, Actions

(* Keys stay unique.                                                       *)
LEMMA IndexedUnique ==
  ASSUME NEW db, Table(db), KeysUnique(db), NEW pos \in Position, NEW h \in Header,
         NEW j \in Nat, NEW k \in Nat, Within(db, j, k), pos <= j, pos <= k
  PROVE  KeysUnique(IndexHeader(db, pos, h).db)
<1>1. CASE h.action = "create"
  BY <1>1, UpsertUnique DEF IndexHeader, IndexCreate, Indexed
<1>2. CASE h.action = "delete"
  <2>1. db \subseteq Row
    BY DEF Table
  <2> QED
    BY <1>2, <2>1, DeleteUnique DEF IndexHeader, IndexDelete, Indexed, Failed
<1>3. CASE h.action = "update"
  <2>1. KeysUnique(IndexEdit(db, pos, h))
    BY UpdateUnique DEF IndexEdit
  <2>2. IndexEdit(db, pos, h) \subseteq Row
    BY EditTable DEF Table
  <2>3. IndexHeader(db, pos, h) = IndexUpdate(db, pos, h)
    BY <1>3 DEF IndexHeader
  <2> QED
    BY <2>1, <2>2, <2>3, MoveUnique DEF IndexUpdate, Indexed, Failed
<1> QED
  BY <1>1, <1>2, <1>3 DEF Header, Actions

(* Indexing at the newest position never makes the table older.            *)
LEMMA IndexedNotOlder ==
  ASSUME NEW db, Table(db), NEW pos \in Position, NEW h \in Header,
         NEW j \in Nat, Within(db, j, pos), pos <= j
  PROVE  NotOlder(IndexHeader(db, pos, h).db, db)
<1>0. pos \in Nat /\ (\A r \in db : r.last <= pos) /\ NotOlder(db, db)
  BY DEF Within, Position, NotOlder, Table, Row
<1>1. CASE h.action = "create"
  BY <1>0, <1>1, HeaderRow, UpsertNotOlder DEF IndexHeader, IndexCreate, Indexed
<1>2. CASE h.action = "delete"
  BY <1>0, <1>2, DeleteNotOlder DEF IndexHeader, IndexDelete, Indexed, Failed
<1>3. CASE h.action = "update"
  <2> DEFINE edited == IndexEdit(db, pos, h)
             moved == MoveHeader(edited, OldName(h), IndexedName(h), pos)
  <2>1. NotOlder(edited, db)
    <3>1. ASSUME NEW record \in Position
          PROVE  NotOlder(UpdateHeaderMetadata(db, TarHeaderToDBHeader(h, record, pos)), db)
      BY <1>0, HeaderRow, UpdateNotOlder
    <3>2. GetHeader(db, OldName(h)) # NoRow => GetHeader(db, OldName(h)).record \in Position
      BY GetHeaderFound DEF Live, Table, Row
    <3> QED
      BY <1>0, <3>1, <3>2 DEF IndexEdit
  <2>2. Table(edited) /\ \A r \in edited : r.last <= pos
    BY <1>0, EditTable DEF Within
  <2>3. NotOlder(moved, edited)
    BY <2>2, MoveNotOlder
  <2>4. NotOlder(moved, db)
    <3>1. Table(moved)
      BY <1>0, EditTable, MoveTable, OldNameType, IndexedNameType
    <3> HIDE DEF edited, moved
    <3> QED
      BY <2>1, <2>2, <2>3, <3>1 DEF NotOlder, Table, Row, Position
  <2>5. IndexHeader(db, pos, h).db \in {edited, moved}
    BY <1>3 DEF IndexHeader, IndexUpdate, Indexed, Failed
  <2> QED
    BY <2>1, <2>4, <2>5
<1> QED
  BY <1>1, <1>2, <1>3 DEF Header, Actions

(* The positions in the index are bounded, so there is a last one.         *)
Bounded(t) == \E k \in Nat : Within(t, k, k)

(* Indexing any header at any position keeps the index so.                 *)
LEMMA IndexedBounded ==
  ASSUME NEW t, Table(t), Bounded(t), NEW pos \in Position, NEW h \in Header
  PROVE  /\ Table(IndexHeader(t, pos, h).db)
         /\ Bounded(IndexHeader(t, pos, h).db)
         /\ IndexHeader(t, pos, h).err \in Errors
<1>1. PICK k \in Nat : Within(t, k, k)
  BY DEF Bounded
<1>2. k + pos \in Nat /\ pos <= k + pos
  BY DEF Position
<1>3. Within(t, k + pos, k + pos)
  BY <1>1 DEF Within, Position, Table, Row
<1>4. Within(IndexHeader(t, pos, h).db, k + pos, k + pos)
  BY <1>2, <1>3, IndexedTable
<1> QED
  BY <1>2, <1>3, <1>4, IndexedTable DEF Bounded

-----------------------------------------------------------------------------
(* Indexing several headers.                                               *)

(* What indexing one header more yields.                                   *)
After(before, i, h) ==
  IF before.err = "none" THEN IndexHeader(before.db, i, h) ELSE before

(* Indexing several headers is defined by what one header more yields.     *)
LEMMA IndexedUpToDef ==
  ASSUME NEW Hs, NEW t \in Seq(Hs), NEW db, NEW at
  PROVE  /\ IndexedUpTo(db, at, t)[0] = Indexed(db)
         /\ \A i \in 1 .. Len(t) :
              IndexedUpTo(db, at, t)[i] = After(IndexedUpTo(db, at, t)[i - 1], at + i, t[i])
<1> DEFINE More(before, i) == After(before, at + i, t[i])
           D(g, i) == IF i = 0 THEN Indexed(db) ELSE More(g[i - 1], i)
           S == {n \in 0 .. Len(t) : \E g : g = [i \in 0 .. n |-> D(g, i)]}
<1> HIDE DEF More
<1>0. Len(t) \in Nat
  OBVIOUS
<1>1. 0 \in S
  <2> DEFINE g == [i \in 0 .. 0 |-> Indexed(db)]
  <2>1. g = [i \in 0 .. 0 |-> D(g, i)]
    OBVIOUS
  <2>2. \E gg : gg = [i \in 0 .. 0 |-> D(gg, i)]
    <3> HIDE DEF g, D
    <3> QED
      BY <2>1
  <2> HIDE DEF D
  <2> QED
    BY <1>0, <2>2
<1>2. ASSUME NEW n \in 1 .. Len(t), n - 1 \in S PROVE n \in S
  <2>1. PICK g : g = [i \in 0 .. n - 1 |-> D(g, i)]
    BY <1>2
  <2> DEFINE f == [i \in 0 .. n |-> IF i = n THEN More(g[n - 1], n) ELSE g[i]]
  <2>2. \A i \in 0 .. n - 1 : f[i] = g[i] /\ g[i] = D(g, i)
    BY <2>1
  <2>3. \A i \in 0 .. n : f[i] = D(f, i)
    <3>1. ASSUME NEW i \in 1 .. n - 1 PROVE f[i] = D(f, i)
      <4>1. f[i] = g[i] /\ g[i] = D(g, i) /\ f[i - 1] = g[i - 1]
        BY <1>0, <2>2
      <4> HIDE DEF f
      <4> QED
        BY <4>1
    <3>2. f[n] = D(f, n)
      <4>1. f[n] = More(g[n - 1], n) /\ f[n - 1] = g[n - 1]
        BY <1>0, <2>2
      <4> HIDE DEF f
      <4> QED
        BY <4>1
    <3>3. f[0] = D(f, 0)
      BY <1>0, <2>2
    <3> HIDE DEF f, D
    <3> QED
      BY <3>1, <3>2, <3>3
  <2>4. f = [i \in 0 .. n |-> D(f, i)]
    BY <2>3
  <2>5. \E gg : gg = [i \in 0 .. n |-> D(gg, i)]
    <3> HIDE DEF f, D
    <3> QED
      BY <2>4
  <2> HIDE DEF D
  <2> QED
    BY <1>0, <2>5
<1>3. Len(t) \in S
  <2> HIDE DEF S
  <2>1. \A n \in 0 .. Len(t) : n \in S
    BY <1>0, <1>1, <1>2, UpTo
  <2> QED
    BY <1>0, <2>1
<1>4. IndexedUpTo(db, at, t) = CHOOSE g : g = [i \in 0 .. Len(t) |-> D(g, i)]
  BY DEF IndexedUpTo, After, More
<1>5. IndexedUpTo(db, at, t) = [i \in 0 .. Len(t) |-> D(IndexedUpTo(db, at, t), i)]
  <2>1. PICK g : g = [i \in 0 .. Len(t) |-> D(g, i)]
    BY <1>3
  <2> HIDE DEF D
  <2> QED
    BY <2>1, <1>4
<1> QED
  BY <1>0, <1>5 DEF More

(* A single header.                                                        *)
LEMMA OneIndexed ==
  ASSUME NEW db, NEW at, NEW h
  PROVE  IndexedUpTo(db, at, <<h>>)[Len(<<h>>)] = IndexHeader(db, at + 1, h)
<1>1. <<h>> \in Seq({h}) /\ Len(<<h>>) = 1 /\ <<h>>[1] = h
  OBVIOUS
<1>2. /\ IndexedUpTo(db, at, <<h>>)[0] = Indexed(db)
      /\ IndexedUpTo(db, at, <<h>>)[1] = After(IndexedUpTo(db, at, <<h>>)[1 - 1], at + 1, <<h>>[1])
  <2>1. 1 \in 1 .. Len(<<h>>)
    BY <1>1
  <2>2. \A n \in 1 .. Len(<<h>>) :
          IndexedUpTo(db, at, <<h>>)[n] = After(IndexedUpTo(db, at, <<h>>)[n - 1], at + n, <<h>>[n])
    BY <1>1, IndexedUpToDef
  <2> QED
    BY <1>1, <2>1, <2>2, IndexedUpToDef
<1>3. IndexedUpTo(db, at, <<h>>)[1] = After(Indexed(db), at + 1, h)
  BY <1>1, <1>2
<1> QED
  BY <1>1, <1>3 DEF After, Indexed

(* A table with unique keys remains one.                                   *)
LEMMA IndexedUpToKeeps ==
  ASSUME NEW t \in Seq(Header), NEW db, Table(db), Bounded(db), KeysUnique(db), NEW at \in Nat
  PROVE  /\ Table(IndexedUpTo(db, at, t)[Len(t)].db)
         /\ KeysUnique(IndexedUpTo(db, at, t)[Len(t)].db)
<1> DEFINE Kept(r) == Table(r.db) /\ Bounded(r.db) /\ KeysUnique(r.db)
           S == {n \in 0 .. Len(t) : Kept(IndexedUpTo(db, at, t)[n])}
<1>0. Len(t) \in Nat
  OBVIOUS
<1>1. 0 \in S
  <2>1. IndexedUpTo(db, at, t)[0] = Indexed(db) /\ Indexed(db).db = db
    BY IndexedUpToDef DEF Indexed
  <2> QED
    BY <1>0, <2>1
<1>2. ASSUME NEW n \in 1 .. Len(t), n - 1 \in S PROVE n \in S
  <2> DEFINE before == IndexedUpTo(db, at, t)[n - 1]
  <2>1. Kept(before)
    BY <1>0, <1>2
  <2>2. IndexedUpTo(db, at, t)[n] = After(before, at + n, t[n])
    BY IndexedUpToDef
  <2>3. at + n \in Position /\ t[n] \in Header
    BY ElementOfSeq DEF Position
  <2> HIDE DEF before
  <2>4. Kept(IndexHeader(before.db, at + n, t[n]))
    <3>1. PICK k \in Nat : Within(before.db, k, k)
      BY <2>1 DEF Bounded
    <3>2. k + (at + n) \in Nat /\ at + n <= k + (at + n)
      BY <2>3 DEF Position
    <3>3. Within(before.db, k + (at + n), k + (at + n))
      BY <2>1, <2>3, <3>1 DEF Within, Position, Table, Row
    <3>4. KeysUnique(IndexHeader(before.db, at + n, t[n]).db)
      BY <2>1, <2>3, <3>2, <3>3, IndexedUnique
    <3> QED
      BY <2>1, <2>3, <3>4, IndexedBounded
  <2> QED
    BY <2>1, <2>2, <2>4 DEF After
<1>3. \A n \in 0 .. Len(t) : n \in S
  <2> HIDE DEF S
  <2> QED
    BY <1>0, <1>1, <1>2, UpTo
<1> QED
  BY <1>0, <1>3

-----------------------------------------------------------------------------
(* Headers.                                                                *)

(* The headers made from a file are headers.                               *)
LEMMA SourceHeaders ==
  ASSUME NEW src \in Source, NEW skip \in BOOLEAN
  PROVE  /\ ArchiveHeader(src) \in Header
         /\ ContentHeader(src, skip) \in Header
         /\ LocalHeader(src) \in Header
  BY DEF Source, Header, Actions, ArchiveHeader, ContentHeader, LocalHeader, HasBody,
         Types, Sizes, NameOrNone

(* So are those made from a row.                                           *)
LEMMA RowHeaders ==
  ASSUME NEW row \in Row, NEW mode \in Modes, NEW from \in Name, NEW to \in Name
  PROVE  /\ MetadataHeader(row, mode) \in Header
         /\ DeletionHeader(row) \in Header
         /\ RenameHeader(row, from, to) \in Header
<1>1. Rebase(row.name, from, to) \in Name
  BY RebaseType DEF Row
<1> QED
  BY <1>1 DEF Row, Header, Actions, MetadataHeader, DeletionHeader, RenameHeader,
              HeaderOfRow, Sizes, NameOrNone

LEMMA RootHeaderType ==
  ASSUME NEW mode \in Modes
  PROVE  <<RootHeader(mode)>> \in Seq(Header)
<1> DEFINE src == [name |-> Root, link |-> NoName, type |-> "dir", mode |-> mode,
                   data |-> Empty]
<1>1. Root \in Name
  BY DEF Root, Name
<1>2. src \in Source
  BY <1>1 DEF Source, Types, Sizes, NameOrNone
<1>3. ArchiveHeader(src) \in Header
  BY <1>2, SourceHeaders
<1> QED
  BY <1>3 DEF RootHeader

(* An operation on one entry and on the rows below it, in any order.       *)
LEMMA RowsInOrder ==
  ASSUME NEW S, NEW src \in S, NEW rows \in SUBSET S, IsFiniteSet(rows),
         NEW rest \in SetToSeqs(rows)
  PROVE  <<src>> \o rest \in Seq(S)
<1>1. Cardinality(rows) \in Nat
  BY FS_CardinalityType
<1>2. rest \in [1 .. Cardinality(rows) -> S]
  BY DEF SetToSeqs
<1>3. rest \in Seq(S)
  BY <1>1, <1>2, FunctionIsSeq
<1> QED
  BY <1>3, ConcatProperties

(* An entry and the rows below it, each of them once.                      *)
LEMMA TreeInOrder ==
  ASSUME NEW src \in Row, NEW rows \in SUBSET Row, IsFiniteSet(rows), src \notin rows,
         NEW rest \in SetToSeqs(rows)
  PROVE  LET all == <<src>> \o rest
         IN  /\ all \in Seq(Row) /\ Len(all) \in Nat /\ Len(all) > 0
             /\ \A i \in 1 .. Len(all) : all[i] \in rows \cup {src}
             /\ \A r \in rows \cup {src} : \E i \in 1 .. Len(all) : all[i] = r
             /\ \A i, j \in 1 .. Len(all) : all[i] = all[j] => i = j
<1> DEFINE n == Cardinality(rows)
           all == <<src>> \o rest
<1>1. n \in Nat
  BY FS_CardinalityType
<1>2. /\ rest \in [1 .. n -> rows]
      /\ \A i, j \in 1 .. n : i # j => rest[i] # rest[j]
  BY DEF SetToSeqs
<1>3. rest \in Seq(rows) /\ Len(rest) = n
  <2> HIDE DEF n
  <2> QED
    BY <1>1, <1>2, FunctionIsSeq
<1>4. \A r \in rows : \E i \in 1 .. n : rest[i] = r
  <2>1. IsFiniteSet(1 .. n) /\ Cardinality(1 .. n) = n
    <3>1. IsFiniteSet(1 .. n) /\ Cardinality(1 .. n) = IF 1 > n THEN 0 ELSE n - 1 + 1
      BY <1>1, FS_Interval
    <3> HIDE DEF n
    <3> QED
      BY <1>1, <3>1
  <2>2. rest \in Injection(1 .. n, rows)
    <3> HIDE DEF n
    <3> QED
      BY <1>2 DEF Injection, IsInjective
  <2>3. rest \in Surjection(1 .. n, rows)
    BY <2>1, <2>2, FS_Injection
  <2> QED
    BY <2>3 DEF Surjection
<1> HIDE DEF n
<1>5. /\ all \in Seq(rows \cup {src}) /\ Len(all) = n + 1
      /\ \A i \in 1 .. n + 1 : all[i] = IF i = 1 THEN src ELSE rest[i - 1]
  <2>1. <<src>> \in Seq(rows \cup {src}) /\ rest \in Seq(rows \cup {src})
    BY <1>3
  <2> QED
    BY <1>1, <1>3, <2>1, ConcatProperties
<1>6. all \in Seq(Row)
  BY RowsInOrder
<1> HIDE DEF all
<1>7. \A i, j \in 1 .. Len(all) : all[i] = all[j] => i = j
  BY <1>1, <1>2, <1>5
<1>8. \A i \in 1 .. Len(all) : all[i] \in rows \cup {src}
  BY <1>5, ElementOfSeq
<1>9. ASSUME NEW r \in rows \cup {src} PROVE \E i \in 1 .. Len(all) : all[i] = r
  <2>1. CASE r = src
    <3>1. 1 \in 1 .. Len(all) /\ all[1] = src
      BY <1>1, <1>5
    <3> QED
      BY <2>1, <3>1
  <2>2. CASE r \in rows
    <3>1. PICK i \in 1 .. n : rest[i] = r
      BY <1>4, <2>2
    <3>2. i + 1 \in 1 .. Len(all) /\ i + 1 # 1 /\ i + 1 - 1 = i
      BY <1>1, <1>5
    <3>3. all[i + 1] = r
      BY <1>5, <3>1, <3>2
    <3> QED
      BY <3>2, <3>3
  <2> QED
    BY <2>1, <2>2
<1> QED
  BY <1>1, <1>5, <1>6, <1>7, <1>8, <1>9 DEF all

-----------------------------------------------------------------------------
=============================================================================
