----------------------------- MODULE PipesProofs -----------------------------
(***************************************************************************)
(* Theorems about Pipes: what went through the pipes comes back, however   *)
(* entries are renamed, changed and rewritten, whichever formats were put  *)
(* around it; and the index that operations keep is that of the tape.      *)
(***************************************************************************)
EXTENDS Pipes, SequenceTheorems, NaturalProofs

KeyOrNone == Keys \cup {NoKey}
Configuration == Configurations(Nat, KeyOrNone)
PlainOrSigned == PlainHeader \cup SignedHeader
AnyHeader == PlainHeader \cup SignedHeader \cup SealedHeader
TapeEntry == [header : AnyHeader, body : Stream]

(* What operations put on the tape for a header.                           *)
Wrapped(h, c) == EncryptHeader(SignHeader(h, c), c)

Damaged(s) == [s EXCEPT !.damaged = TRUE]

(* A place on the tape holds the content x of a file: nothing, if it is    *)
(* empty and was archived, else x behind the pipes, and its signature.     *)
Holds(e, x, c) ==
  \E h \in PlainHeader :
    /\ e.header = Wrapped(h, c)
    /\ \/ h.size = Plain(Empty) /\ h.signature = None /\ e.body = Plain(Empty) /\ x = Empty
       \/ /\ h.size = Through(x, c) /\ h.signature = Signature(Plain(x), c)
          /\ e.body \in {Through(x, c), Damaged(Through(x, c))}

(* A row of an entry with content x, and where it is on the tape.          *)
RowHolds(row, x, t, c) ==
  /\ row.at \in 1 .. Len(t)
  /\ row.from = None /\ row.suffixes = <<>> /\ row.size = Plain(x)
  /\ row.uncompressed = Plain(x) \/ (row.uncompressed = None /\ x = Empty)
  /\ row.type = "reg" => Holds(t[row.at], x, c)

(* An index of the entries with these contents.                            *)
Index(f, g, t, c) ==
  /\ DOMAIN f = DOMAIN g /\ DOMAIN f \subseteq Names
  /\ f \in [DOMAIN f -> Row] /\ g \in [DOMAIN f -> Contents]
  /\ \A n \in DOMAIN f : RowHolds(f[n], g[n], t, c)

(* Nothing is on the tape of a writer who cannot sign or encrypt.          *)
KeysUsable == tape # <<>> => ~EncryptRefused(conf) /\ ~SignRefused(conf)

PipesInv ==
  /\ conf \in Writers /\ drive \in {"free", "locked"} /\ tape \in Seq(TapeEntry)
  /\ Index(rows, contents, tape, conf)
  /\ KeysUsable
  /\ IndexedAlike

-----------------------------------------------------------------------------
(* Layers.                                                                 *)

LEMMA FamilyType ==
  ASSUME NEW z \in Compressions
  PROVE  Family(z) \in Compressions /\ (Family(z) = "none" <=> z = "none")
BY DEF Compressions, Family

LEMMA PlainType == \A x \in Contents : Plain(x) \in Stream
BY DEF Plain, Stream

(* A layer that was put around a stream is there, and can be taken off.    *)
LEMMA AroundPeeled ==
  ASSUME NEW s \in Stream, NEW f \in Compressions \cup Encryptions,
         NEW k \in KeyOrNone \cup {None}
  PROVE  /\ Around(s, f, k) \in Stream
         /\ Around(s, f, k).damaged = s.damaged
         /\ f # "none" => /\ IsAround(Around(s, f, k), f, k)
                          /\ Peeled(Around(s, f, k)) = s
<1> DEFINE l == [format |-> f, key |-> k]
           a == Around(s, f, k)
<1>1. l \in Layer
  BY DEF Layer, KeyOrNone
<1>2. CASE f = "none"
  BY <1>2 DEF Around
<1>3. CASE f # "none"
  <2>1. /\ s = [data |-> s.data, layers |-> s.layers, damaged |-> s.damaged]
        /\ s.layers \in Seq(Layer) /\ s.data \in Contents /\ s.damaged \in BOOLEAN
    BY DEF Stream
  <2>2. a = [data |-> s.data, layers |-> Append(s.layers, l), damaged |-> s.damaged]
    BY <1>3, <2>1 DEF Around
  <2>3. /\ Append(s.layers, l) \in Seq(Layer)
        /\ Len(Append(s.layers, l)) = Len(s.layers) + 1
        /\ Append(s.layers, l)[Len(s.layers) + 1] = l
        /\ SubSeq(Append(s.layers, l), 1, Len(s.layers)) = s.layers
        /\ Len(s.layers) \in Nat
    <3> HIDE DEF l
    <3> QED
      BY <1>1, <2>1, AppendProperties
  <2>4. a \in Stream
    BY <2>1, <2>2, <2>3 DEF Stream
  <2>5. IsAround(a, f, k)
    <3>1. Len(a.layers) = Len(s.layers) + 1 /\ a.layers[Len(a.layers)] = l
      BY <2>2, <2>3
    <3>2. a.layers # <<>>
      BY <2>3, <3>1
    <3> QED
      BY <3>1, <3>2 DEF IsAround
  <2>6. Peeled(a) = s
    <3>1. SubSeq(a.layers, 1, Len(a.layers) - 1) = s.layers
      BY <2>2, <2>3
    <3>2. \A q : [a EXCEPT !.layers = q]
                 = [data |-> s.data, layers |-> q, damaged |-> s.damaged]
      BY <2>2
    <3>3. Peeled(a) = [a EXCEPT !.layers = s.layers]
      BY <3>1 DEF Peeled
    <3> QED
      BY <2>1, <3>2, <3>3
  <2> QED
    BY <2>2, <2>4, <2>5, <2>6
<1> QED
  BY <1>2, <1>3

LEMMA ThroughType ==
  ASSUME NEW x \in Contents, NEW c \in Configuration
  PROVE  /\ Around(Plain(x), Family(c.compression), None) \in Stream
         /\ Through(x, c) \in Stream
         /\ ~Through(x, c).damaged
<1>1. /\ c.compression \in Compressions /\ c.encryption \in Encryptions
      /\ c.recipient \in KeyOrNone
  BY DEF Configuration, Configurations
<1>2. Family(c.compression) \in Compressions
  BY <1>1, FamilyType
<1>3. /\ Around(Plain(x), Family(c.compression), None) \in Stream
      /\ Around(Plain(x), Family(c.compression), None).damaged = FALSE
  BY <1>2, PlainType, AroundPeeled DEF Plain
<1> QED
  BY <1>1, <1>3, AroundPeeled DEF Through

(* What went through the pipes comes back through the same ones.           *)
LEMMA OpenedAgain ==
  ASSUME NEW x \in Contents, NEW c \in Configuration, GoodKeys(c)
  PROVE  UNION {Decompressed(d, c) : d \in Decrypted(Through(x, c), c)} = {Plain(x)}
<1> DEFINE inner == Around(Plain(x), Family(c.compression), None)
           outer == Around(inner, c.encryption, c.recipient)
<1>1. /\ c.compression \in Compressions /\ c.encryption \in Encryptions
      /\ c.recipient \in KeyOrNone
      /\ Family(c.compression) \in Compressions
      /\ Family(c.compression) = "none" <=> c.compression = "none"
  BY FamilyType DEF Configuration, Configurations
<1>2. inner \in Stream /\ ~outer.damaged /\ outer = Through(x, c) /\ Plain(x) \in Stream
  BY ThroughType, PlainType DEF Through
<1>3. /\ inner.damaged = FALSE
      /\ c.compression # "none" => /\ IsAround(inner, Family(c.compression), None)
                                   /\ Peeled(inner) = Plain(x)
      /\ c.compression = "none" => inner = Plain(x)
  <2>1. Plain(x).damaged = FALSE
    BY DEF Plain
  <2>2. c.compression = "none" => inner = Plain(x)
    BY <1>1 DEF Around
  <2> QED
    BY <1>1, <1>2, <2>1, <2>2, AroundPeeled
<1>4. /\ c.encryption # "none" => /\ IsAround(outer, c.encryption, c.recipient)
                                  /\ Peeled(outer) = inner
      /\ c.encryption = "none" => outer = inner
  <2>1. c.encryption = "none" => outer = inner
    BY DEF Around
  <2> HIDE DEF inner
  <2> QED
    BY <1>1, <1>2, <2>1, AroundPeeled
<1> HIDE DEF inner, outer
<1>5. Decrypted(outer, c) = {inner}
  BY <1>2, <1>4 DEF Decrypted, GoodKeys
<1>6. Decompressed(inner, c) = {Plain(x)}
  BY <1>3 DEF Decompressed
<1> QED
  BY <1>2, <1>5, <1>6

(* So does a signature of it.                                              *)
LEMMA VerifiedAgain ==
  ASSUME NEW term, NEW c \in Configuration, GoodKeys(c), ~SignRefused(c)
  PROVE  /\ c.signature # "none" => IsSignature(Signature(term, c), term, c)
         /\ Verified(term, Signature(term, c), c) = {term}
<1>1. c.signature \in Signatures
  BY DEF Configuration, Configurations
<1>2. c.signature # "none" => IsSignature(Signature(term, c), term, c)
  BY <1>1 DEF IsSignature, Signature, GoodKeys, Signatures
<1> QED
  BY <1>2 DEF Verified, SignRefused

(* Whatever a stream is read with, streams come out.                       *)
LEMMA OpenedType ==
  ASSUME NEW s \in Stream, NEW r
  PROVE  UNION {Decompressed(d, r) : d \in Decrypted(s, r)} \subseteq Stream
<1>1. ASSUME NEW d \in Stream, d.layers # <<>> PROVE Peeled(d) \in Stream
  <2>1. /\ d = [data |-> d.data, layers |-> d.layers, damaged |-> d.damaged]
        /\ d.layers \in Seq(Layer) /\ d.data \in Contents /\ d.damaged \in BOOLEAN
    BY DEF Stream
  <2>2. SubSeq(d.layers, 1, Len(d.layers) - 1) \in Seq(Layer)
    BY <2>1, <1>1
  <2> QED
    BY <2>1, <2>2 DEF Peeled, Stream
<1>2. Decrypted(s, r) \subseteq Stream
  BY <1>1 DEF Decrypted, IsAround
<1>3. ASSUME NEW d \in Stream PROVE Decompressed(d, r) \subseteq Stream
  BY <1>1, <1>3 DEF Decompressed, IsAround
<1> QED
  BY <1>2, <1>3

(* A stream that has been damaged is one.                                  *)
LEMMA DamagedType == \A s \in Stream : Damaged(s) \in Stream /\ Damaged(s).damaged
BY DEF Damaged, Stream

-----------------------------------------------------------------------------
(* Headers.                                                                *)

(* What a header becomes on the tape.                                      *)
LEMMA WrappedType ==
  ASSUME NEW h \in PlainHeader, NEW c \in Configuration
  PROVE  SignHeader(h, c) \in PlainOrSigned /\ Wrapped(h, c) \in AnyHeader
<1>1. /\ c.signature \in Signatures /\ c.encryption \in Encryptions
      /\ c.identity \in KeyOrNone /\ c.recipient \in KeyOrNone
  BY DEF Configuration, Configurations
<1>2. h.size \in Stream
  BY DEF PlainHeader
<1>3. c.signature # "none" => Signature(h, c) \in SignatureOf(PlainHeader)
  BY <1>1 DEF Signature, SignatureOf, KeyOrNone
<1>4. SignHeader(h, c) \in PlainOrSigned
  BY <1>2, <1>3 DEF SignHeader, PlainOrSigned, SignedHeader
<1>5. SignHeader(h, c).size \in Stream
  BY <1>4 DEF PlainOrSigned, PlainHeader, SignedHeader
<1> QED
  BY <1>1, <1>4, <1>5 DEF Wrapped, EncryptHeader, AnyHeader, PlainOrSigned, SealedHeader, KeyOrNone

(* Headers of the three kinds are not each other's.                        *)
LEMMA WrapKinds ==
  /\ \A h \in PlainHeader : h.wrap = "none"
  /\ \A h \in PlainOrSigned : h.wrap # "sealed"
BY DEF PlainHeader, PlainOrSigned, SignedHeader

(* Its writer reads a header as it was.                                    *)
LEMMA HeaderReadAgain ==
  ASSUME NEW h \in PlainHeader, NEW c \in Configuration, GoodKeys(c),
         ~EncryptRefused(c), ~SignRefused(c)
  PROVE  HeadersRead(Wrapped(h, c), c) = {h}
<1> DEFINE s == SignHeader(h, c)
<1>1. DecryptedHeader(Wrapped(h, c), c) = {s}
  BY DEF DecryptedHeader, Wrapped, EncryptHeader, GoodKeys
<1>2. VerifiedHeader(s, c) = {h}
  <2>1. CASE c.signature = "none"
    BY <2>1 DEF VerifiedHeader, SignHeader
  <2>2. CASE c.signature # "none"
    <3>1. /\ s.wrap = "signed" /\ s.embedded = h
          /\ s.signature = Signature(h, c)
      BY <2>2 DEF SignHeader
    <3>2. VerifiedString(h, Signature(h, c), c)
      BY <2>2, VerifiedAgain DEF VerifiedString, SignRefused
    <3> QED
      BY <2>2, <3>1, <3>2 DEF VerifiedHeader
  <2> QED
    BY <2>1, <2>2
<1> QED
  BY <1>1, <1>2 DEF HeadersRead

(* Nobody who asks for signatures reads another one in its place.          *)
LEMMA NoOtherHeader ==
  ASSUME NEW h \in PlainHeader, NEW c \in Configuration, NEW r, r.signature # "none",
         NEW d \in HeadersRead(Wrapped(h, c), r)
  PROVE  d = h
<1>1. PICK e \in DecryptedHeader(Wrapped(h, c), r) : d \in VerifiedHeader(e, r)
  BY DEF HeadersRead
<1>2. e.wrap = "signed" /\ d = e.embedded
  BY <1>1 DEF VerifiedHeader
<1>3. SignHeader(h, c) \in PlainOrSigned /\ h.wrap = "none"
  BY WrappedType, WrapKinds
<1>4. e \in {Wrapped(h, c), Wrapped(h, c).embedded} /\ (e # Wrapped(h, c) => Wrapped(h, c).wrap = "sealed")
  BY <1>1 DEF DecryptedHeader
<1>5. e = SignHeader(h, c)
  <2>1. CASE c.encryption = "none"
    BY <1>3, <1>4, <2>1, WrapKinds DEF Wrapped, EncryptHeader
  <2>2. CASE c.encryption # "none"
    BY <1>2, <1>4, <2>2 DEF Wrapped, EncryptHeader
  <2> QED
    BY <2>1, <2>2
<1> QED
  BY <1>2, <1>3, <1>5 DEF SignHeader

(* The size of a header is not hidden.                                     *)
LEMMA WrappedSize ==
  ASSUME NEW h, NEW c
  PROVE  Wrapped(h, c).size = h.size
BY DEF Wrapped, EncryptHeader, SignHeader

-----------------------------------------------------------------------------
(* Names.                                                                  *)

(* A suffix that was put on a name comes off again, and no other does.     *)
LEMMA TrimmedLast ==
  ASSUME NEW T, NEW s \in Seq(T), NEW a \in T
  PROVE  /\ s \o <<a>> \in Seq(T) /\ Trimmed(s \o <<a>>, a) = s
         /\ \A b : a # b => Trimmed(s \o <<a>>, b) = s \o <<a>>
<1> DEFINE u == Append(s, a)
<1>1. s \o <<a>> = u
  BY AppendIsConcat
<1>2. /\ u \in Seq(T) /\ Len(u) = Len(s) + 1 /\ u[Len(s) + 1] = a
      /\ Len(s) \in Nat /\ SubSeq(u, 1, Len(s)) = s
  BY AppendProperties
<1>3. u # <<>> /\ u[Len(u)] = a /\ SubSeq(u, 1, Len(u) - 1) = s
  BY <1>2
<1> HIDE DEF u
<1> QED
  BY <1>1, <1>2, <1>3 DEF Trimmed

(* A name that got two suffixes loses both.                                *)
LEMMA BothTrimmed ==
  ASSUME NEW T, NEW z \in T, NEW e \in T
  PROVE  /\ SuffixOf(z) \o SuffixOf(e) \in Seq(T)
         /\ Trimmed(Trimmed(SuffixOf(z) \o SuffixOf(e), e), z) = <<>>
<1>1. <<>> \in Seq(T) /\ <<z>> \in Seq(T) /\ <<e>> \in Seq(T)
  OBVIOUS
<1>2. Trimmed(<<>>, z) = <<>> /\ Trimmed(<<>>, e) = <<>>
  BY DEF Trimmed
<1>0. ASSUME NEW a \in T
      PROVE  Trimmed(<<a>>, a) = <<>> /\ \A b : a # b => Trimmed(<<a>>, b) = <<a>>
  <2>1. <<a>> = <<>> \o <<a>>
    BY ConcatEmptySeq
  <2>2. <<>> \in Seq(T)
    OBVIOUS
  <2>3. /\ Trimmed(<<>> \o <<a>>, a) = <<>>
        /\ \A b : a # b => Trimmed(<<>> \o <<a>>, b) = <<>> \o <<a>>
    BY <2>2, TrimmedLast
  <2> QED
    BY <2>1, <2>3
<1>3. CASE z = "none"
  <2>1. Trimmed(SuffixOf(e), e) = <<>> /\ SuffixOf(e) \in Seq(T)
    BY <1>0, <1>1, <1>2 DEF SuffixOf
  <2>2. SuffixOf(z) \o SuffixOf(e) = SuffixOf(e)
    BY <1>3, <2>1, ConcatEmptySeq DEF SuffixOf
  <2> QED
    BY <1>2, <2>1, <2>2
<1>4. CASE z # "none"
  <2>1. SuffixOf(z) = <<z>> /\ Trimmed(<<z>>, z) = <<>>
    BY <1>0, <1>4 DEF SuffixOf
  <2>2. CASE e = "none"
    <3>1. SuffixOf(z) \o SuffixOf(e) = <<z>>
      BY <1>1, <2>1, <2>2, ConcatEmptySeq DEF SuffixOf
    <3>2. Trimmed(<<z>>, e) = <<z>>
      BY <1>0, <1>4, <2>2
    <3> QED
      BY <1>1, <2>1, <3>1, <3>2
  <2>3. CASE e # "none"
    <3>1. SuffixOf(z) \o SuffixOf(e) = <<z>> \o <<e>>
      BY <2>1, <2>3 DEF SuffixOf
    <3>2. <<z>> \o <<e>> \in Seq(T) /\ Trimmed(<<z>> \o <<e>>, e) = <<z>>
      BY <1>1, TrimmedLast
    <3> QED
      BY <2>1, <3>1, <3>2
  <2> QED
    BY <2>2, <2>3
<1> QED
  BY <1>3, <1>4

(* The suffixes a configuration adds are those it takes off.               *)
LEMMA SuffixesTrimmed ==
  ASSUME NEW c \in Configuration
  PROVE  /\ AddSuffix(c) \in Seq(Compressions \cup Encryptions)
         /\ Trimmed(Trimmed(AddSuffix(c), c.encryption), Family(c.compression)) = <<>>
         /\ Trimmed(Trimmed(<<>>, c.encryption), Family(c.compression)) = <<>>
<1>1. Family(c.compression) \in Compressions /\ c.encryption \in Encryptions
  BY FamilyType DEF Configuration, Configurations
<1>2. Trimmed(Trimmed(<<>>, c.encryption), Family(c.compression)) = <<>>
  BY DEF Trimmed
<1> QED
  BY <1>1, <1>2, BothTrimmed DEF AddSuffix

-----------------------------------------------------------------------------
(* Indexing the tape.                                                      *)

(* What recovery has after each header, by what it has before it.          *)
LEMMA IndexedDef ==
  ASSUME NEW E, NEW t \in Seq(E), NEW c
  PROVE  /\ Indexed(t, c)[0] = [err |-> FALSE, index |-> <<>>]
         /\ \A i \in 1 .. Len(t) :
              Indexed(t, c)[i] = Rescanned(Indexed(t, c)[i - 1], i, t[i].header, c)
<1> DEFINE Base == [err |-> FALSE, index |-> <<>>]
           More(before, i) == Rescanned(before, i, t[i].header, c)
           D(g, i) == IF i = 0 THEN Base ELSE More(g[i - 1], i)
           S == {n \in 0 .. Len(t) : \E g : g = [i \in 0 .. n |-> D(g, i)]}
<1> HIDE DEF More, Base
<1>0. Len(t) \in Nat
  OBVIOUS
<1>1. 0 \in S
  <2> DEFINE g == [i \in 0 .. 0 |-> Base]
  <2>1. g = [i \in 0 .. 0 |-> D(g, i)]
    OBVIOUS
  <2>2. \E gg : gg = [i \in 0 .. 0 |-> D(gg, i)]
    <3> HIDE DEF g, D
    <3> QED
      BY <2>1
  <2> HIDE DEF D
  <2> QED
    BY <1>0, <2>2
<1>2. ASSUME NEW n \in 1 .. Len(t), n - 1 \in S PROVE n \in S
  <2>1. PICK g : g = [i \in 0 .. n - 1 |-> D(g, i)]
    BY <1>2
  <2> DEFINE f == [i \in 0 .. n |-> IF i = n THEN More(g[n - 1], n) ELSE g[i]]
  <2>2. \A i \in 0 .. n - 1 : f[i] = g[i] /\ g[i] = D(g, i)
    BY <2>1
  <2>3. \A i \in 0 .. n : f[i] = D(f, i)
    <3>1. ASSUME NEW i \in 1 .. n - 1 PROVE f[i] = D(f, i)
      <4>1. f[i] = g[i] /\ g[i] = D(g, i) /\ f[i - 1] = g[i - 1]
        BY <1>0, <2>2
      <4> HIDE DEF f
      <4> QED
        BY <4>1
    <3>2. f[n] = D(f, n)
      <4>1. f[n] = More(g[n - 1], n) /\ f[n - 1] = g[n - 1]
        BY <1>0, <2>2
      <4> HIDE DEF f
      <4> QED
        BY <4>1
    <3>3. f[0] = D(f, 0)
      <4>1. 0 \in 0 .. n - 1
        BY <1>0
      <4>2. f[0] = g[0] /\ g[0] = D(g, 0)
        BY <2>2, <4>1
      <4> HIDE DEF f
      <4> QED
        BY <4>2
    <3> HIDE DEF f, D
    <3> QED
      BY <3>1, <3>2, <3>3
  <2>4. f = [i \in 0 .. n |-> D(f, i)]
    BY <2>3
  <2>5. \E gg : gg = [i \in 0 .. n |-> D(gg, i)]
    <3> HIDE DEF f, D
    <3> QED
      BY <2>4
  <2> HIDE DEF D
  <2> QED
    BY <1>0, <2>5
<1> HIDE DEF S
<1>3. \A n \in 0 .. Len(t) : n \in S
  BY <1>0, <1>1, <1>2, UpTo
<1>4. Len(t) \in 0 .. Len(t)
  BY <1>0
<1>5. \E g : g = [i \in 0 .. Len(t) |-> D(g, i)]
  <2>1. Len(t) \in S
    BY <1>3, <1>4
  <2> HIDE DEF D
  <2> QED
    BY <2>1 DEF S
<1>6. Indexed(t, c) = CHOOSE g : g = [i \in 0 .. Len(t) |-> D(g, i)]
  BY DEF Indexed, More, Base
<1>7. Indexed(t, c) = [i \in 0 .. Len(t) |-> D(Indexed(t, c), i)]
  <2> HIDE DEF D
  <2> QED
    BY <1>5, <1>6
<1>8. \A i \in 0 .. Len(t) : Indexed(t, c)[i] = D(Indexed(t, c), i)
  BY <1>7
<1>9. 0 \in 0 .. Len(t) /\ \A i \in 1 .. Len(t) : i \in 0 .. Len(t) /\ i # 0
  BY <1>0
<1> QED
  BY <1>8, <1>9 DEF More, Base

(* It depends on the headers only, and not on those that follow.           *)
LEMMA IndexedSame ==
  ASSUME NEW E, NEW t \in Seq(E), NEW u \in Seq(E), NEW c, Len(t) <= Len(u),
         \A i \in 1 .. Len(t) : u[i].header = t[i].header
  PROVE  \A i \in 0 .. Len(t) : Indexed(u, c)[i] = Indexed(t, c)[i]
<1> DEFINE S == {n \in 0 .. Len(t) : Indexed(u, c)[n] = Indexed(t, c)[n]}
<1>0. Len(t) \in Nat /\ Len(u) \in Nat /\ \A n \in 1 .. Len(t) : n \in 1 .. Len(u)
  OBVIOUS
<1>1. 0 \in S
  BY <1>0, IndexedDef
<1>2. ASSUME NEW n \in 1 .. Len(t), n - 1 \in S PROVE n \in S
  <2>1. /\ Indexed(u, c)[n] = Rescanned(Indexed(u, c)[n - 1], n, u[n].header, c)
        /\ Indexed(t, c)[n] = Rescanned(Indexed(t, c)[n - 1], n, t[n].header, c)
    BY <1>0, IndexedDef
  <2> QED
    BY <1>0, <1>2, <2>1
<1>3. \A n \in 0 .. Len(t) : n \in S
  <2> HIDE DEF S
  <2> QED
    BY <1>0, <1>1, <1>2, UpTo
<1> QED
  BY <1>3

(* A header at the end of the tape is indexed last.                        *)
LEMMA IndexedAppend ==
  ASSUME NEW E, NEW t \in Seq(E), NEW e \in E, NEW c
  PROVE  Indexed(Append(t, e), c)[Len(t) + 1]
           = Rescanned(Indexed(t, c)[Len(t)], Len(t) + 1, e.header, c)
<1> DEFINE u == Append(t, e)
<1>1. /\ u \in Seq(E) /\ Len(u) = Len(t) + 1 /\ u[Len(t) + 1] = e /\ Len(t) \in Nat
      /\ \A i \in 1 .. Len(t) : u[i] = t[i]
  BY AppendProperties
<1> HIDE DEF u
<1>2. Indexed(u, c)[Len(t)] = Indexed(t, c)[Len(t)]
  BY <1>1, IndexedSame
<1>3. Len(t) + 1 \in 1 .. Len(u) /\ (Len(t) + 1) - 1 = Len(t)
  BY <1>1
<1>4. Indexed(u, c)[Len(t) + 1]
        = Rescanned(Indexed(u, c)[(Len(t) + 1) - 1], Len(t) + 1, u[Len(t) + 1].header, c)
  BY <1>1, <1>3, IndexedDef
<1> QED
  BY <1>1, <1>2, <1>3, <1>4 DEF u

-----------------------------------------------------------------------------
(* Rows.                                                                   *)

LEMMA IndexWith ==
  ASSUME NEW f, NEW g, NEW t, NEW c, Index(f, g, t, c),
         NEW n \in Names, NEW row \in Row, NEW x \in Contents, RowHolds(row, x, t, c)
  PROVE  Index(WithRow(f, n, row), WithRow(g, n, x), t, c)
<1> DEFINE ff == WithRow(f, n, row)
           gg == WithRow(g, n, x)
<1>1. /\ DOMAIN ff = DOMAIN f \cup {n} /\ DOMAIN gg = DOMAIN f \cup {n}
      /\ ff = [m \in DOMAIN ff |-> IF m = n THEN row ELSE f[m]]
      /\ gg = [m \in DOMAIN ff |-> IF m = n THEN x ELSE g[m]]
  BY DEF WithRow, Index
<1> HIDE DEF ff, gg
<1>2. \A m \in DOMAIN ff : /\ ff[m] \in Row /\ gg[m] \in Contents
                           /\ RowHolds(ff[m], gg[m], t, c)
  BY <1>1 DEF Index
<1>3. ff \in [DOMAIN ff -> Row] /\ gg \in [DOMAIN ff -> Contents]
  BY <1>1, <1>2
<1>4. DOMAIN ff \subseteq Names
  BY <1>1 DEF Index
<1> QED
  BY <1>1, <1>2, <1>3, <1>4 DEF Index, ff, gg

LEMMA IndexWithout ==
  ASSUME NEW f, NEW g, NEW t, NEW c, Index(f, g, t, c), NEW n
  PROVE  Index(Without(f, n), Without(g, n), t, c)
BY DEF Without, Index

(* What one place on the tape holds it still holds when more follows.      *)
LEMMA IndexLonger ==
  ASSUME NEW f, NEW g, NEW t \in Seq(TapeEntry), NEW c, Index(f, g, t, c), NEW e \in TapeEntry
  PROVE  Index(f, g, Append(t, e), c)
<1> DEFINE u == Append(t, e)
<1>1. Len(u) = Len(t) + 1 /\ Len(t) \in Nat /\ \A i \in 1 .. Len(t) : u[i] = t[i]
  BY AppendProperties
<1> HIDE DEF u
<1>2. ASSUME NEW n \in DOMAIN f PROVE RowHolds(f[n], g[n], u, c)
  BY <1>1, <1>2 DEF Index, RowHolds
<1> QED
  BY <1>2 DEF Index, u

LEMMA HeaderType ==
  ASSUME NEW n \in Names, NEW type \in {"reg", "dir"}, NEW a \in {"create", "update", "delete"}
  PROVE  Header(n, type, a) \in PlainHeader
<1>1. Plain(Empty) \in Stream
  BY PlainType, PipesAssumption
<1>2. <<>> \in Seq(Compressions \cup Encryptions)
  OBVIOUS
<1> QED
  BY <1>1, <1>2 DEF Header, PlainHeader

LEMMA WithBodyType ==
  ASSUME NEW h \in PlainHeader, NEW x \in Contents, NEW c \in Configuration
  PROVE  WithBody(h, x, c) \in PlainHeader
<1>1. /\ Through(x, c) \in Stream /\ Plain(x) \in Stream
      /\ AddSuffix(c) \in Seq(Compressions \cup Encryptions)
  BY ThroughType, PlainType, SuffixesTrimmed
<1>2. Signature(Plain(x), c) \in SignatureOf(Stream) \cup {None}
  BY <1>1 DEF Signature, SignatureOf, Configuration, Configurations, KeyOrNone
<1> QED
  BY <1>1, <1>2 DEF WithBody, PlainHeader

LEMMA RowType ==
  ASSUME NEW h \in PlainHeader, NEW at \in Nat, NEW c \in Configuration,
         RemoveSuffix(h, c) = <<>>
  PROVE  /\ RowOf(h, at, c) \in Row
         /\ RowOf(h, at, c).type = h.type /\ RowOf(h, at, c).at = at
         /\ RowOf(h, at, c).from = h.from /\ RowOf(h, at, c).suffixes = <<>>
         /\ RowOf(h, at, c).uncompressed = h.uncompressed
         /\ RowOf(h, at, c).size = IF h.uncompressed # None THEN h.uncompressed ELSE h.size
<1>1. <<>> \in Seq(Compressions \cup Encryptions)
  OBVIOUS
<1> QED
  BY <1>1 DEF RowOf, Row, PlainHeader

(* The row of an entry whose content is behind its header.                 *)
LEMMA BodyRow ==
  ASSUME NEW g \in PlainHeader, g.from = None, g.type = "reg", NEW x \in Contents,
         NEW c \in Configuration, NEW t \in Seq(TapeEntry), NEW at \in 1 .. Len(t),
         t[at] = [header |-> Wrapped(WithBody(g, x, c), c), body |-> Through(x, c)]
  PROVE  /\ RowOf(WithBody(g, x, c), at, c) \in Row
         /\ RowHolds(RowOf(WithBody(g, x, c), at, c), x, t, c)
<1> DEFINE h == WithBody(g, x, c)
<1>1. /\ h \in PlainHeader /\ h.type = "reg" /\ h.from = None /\ h.uncompressed = Plain(x)
      /\ h.suffixes = AddSuffix(c) /\ h.size = Through(x, c)
      /\ h.signature = Signature(Plain(x), c)
  <2>1. h \in PlainHeader
    BY WithBodyType
  <2> QED
    BY <2>1 DEF WithBody, PlainHeader
<1> HIDE DEF h
<1>2. RemoveSuffix(h, c) = <<>>
  BY <1>1, SuffixesTrimmed DEF RemoveSuffix
<1>3. Plain(x) # None
  BY PlainType, PipesAssumption
<1>4. at \in Nat
  OBVIOUS
<1>5. Holds(t[at], x, c)
  BY <1>1 DEF Holds, h
<1> QED
  BY <1>1, <1>2, <1>3, <1>4, <1>5, RowType DEF RowHolds, h

(* The row of an entry without a content.                                  *)
LEMMA EmptyRow ==
  ASSUME NEW h \in PlainHeader, h.from = None, h.suffixes = <<>>, h.uncompressed = None,
         h.size = Plain(Empty), h.signature = None,
         NEW c \in Configuration, NEW t \in Seq(TapeEntry), NEW at \in 1 .. Len(t),
         t[at] = [header |-> Wrapped(h, c), body |-> Plain(Empty)]
  PROVE  RowOf(h, at, c) \in Row /\ RowHolds(RowOf(h, at, c), Empty, t, c)
<1>1. RemoveSuffix(h, c) = <<>>
  BY SuffixesTrimmed DEF RemoveSuffix
<1>2. at \in Nat
  OBVIOUS
<1>3. Holds(t[at], Empty, c)
  BY DEF Holds
<1> QED
  BY <1>1, <1>2, <1>3, RowType DEF RowHolds

(* The row of an entry that is changed but for its content.                *)
LEMMA ChangedRow ==
  ASSUME NEW row \in Row, NEW x \in Contents, NEW t \in Seq(TapeEntry), NEW c \in Configuration,
         RowHolds(row, x, t, c), NEW h \in PlainHeader,
         h.type = row.type, h.from = None, h.suffixes = <<>>, h.size = Plain(Empty),
         h.uncompressed = row.uncompressed
  PROVE  RowOf(h, row.at, c) \in Row /\ RowHolds(RowOf(h, row.at, c), x, t, c)
<1>1. RemoveSuffix(h, c) = <<>>
  BY SuffixesTrimmed DEF RemoveSuffix
<1>2. row.at \in Nat
  BY DEF Row
<1>3. Plain(x) # None
  BY PlainType, PipesAssumption
<1> QED
  BY <1>1, <1>2, <1>3, RowType DEF RowHolds

-----------------------------------------------------------------------------
(* Steps.                                                                  *)

(* What appending a header does, whatever it says.                         *)
LEMMA HeaderAppended ==
  ASSUME PipesInv, NEW h \in PlainHeader, NEW body \in Stream, NEW hasBody, NEW written,
         Append1(h, body, hasBody, written)
  PROVE  /\ conf' = conf /\ drive' \in {"free", "locked"} /\ tape' \in Seq(TapeEntry)
         /\ KeysUsable' /\ IndexedAlike'
         /\ \/ UNCHANGED <<tape, rows, contents>>
            \/ \E e \in TapeEntry :
                 /\ e = [header |-> Wrapped(h, conf), body |-> body]
                 /\ tape' = Append(tape, e) /\ tape'[Len(tape')] = e
                 /\ Len(tape') \in 1 .. Len(tape')
                 /\ rows' = IndexHeader(rows, Len(tape'), h, conf)
                 /\ contents' = written
<1>0. conf \in Configuration
  BY PipesAssumption DEF PipesInv, Configuration, KeyOrNone
<1>1. CASE Refused(conf, hasBody)
  <2>1. UNCHANGED <<conf, tape, rows, contents>> /\ drive' = "locked"
    BY <1>1 DEF Append1
  <2> QED
    BY <2>1 DEF PipesInv, KeysUsable, IndexedAlike, RecoveryIndex
<1>2. CASE ~Refused(conf, hasBody)
  <2> DEFINE e == [header |-> Wrapped(h, conf), body |-> body]
  <2>1. /\ conf' = conf /\ drive' = drive /\ tape' = Append(tape, e) /\ contents' = written
        /\ rows' = IndexHeader(rows, Len(tape'), h, conf)
    BY <1>2 DEF Append1, Wrapped, Remembered
  <2>2. ~EncryptRefused(conf) /\ ~SignRefused(conf)
    BY <1>2 DEF Refused
  <2>3. e \in TapeEntry
    BY <1>0, WrappedType DEF TapeEntry
  <2>4. tape \in Seq(TapeEntry)
    BY DEF PipesInv
  <2>5. e.header = Wrapped(h, conf)
    OBVIOUS
  <2> HIDE DEF e
  <2>6. /\ tape' \in Seq(TapeEntry) /\ Len(tape') = Len(tape) + 1 /\ Len(tape) \in Nat
        /\ tape'[Len(tape')] = e
    BY <2>1, <2>3, <2>4, AppendProperties
  <2>7. IndexedAlike'
    <3> SUFFICES ASSUME GoodKeys(conf)
                 PROVE  Indexed(tape', conf)[Len(tape')] = [err |-> FALSE, index |-> rows']
      BY <2>1 DEF IndexedAlike, RecoveryIndex
    <3>1. Indexed(tape, conf)[Len(tape)] = [err |-> FALSE, index |-> rows]
      BY DEF PipesInv, IndexedAlike, RecoveryIndex
    <3>2. Indexed(tape', conf)[Len(tape) + 1]
            = Rescanned([err |-> FALSE, index |-> rows], Len(tape) + 1, e.header, conf)
      BY <2>1, <2>3, <2>4, <3>1, IndexedAppend
    <3>3. HeadersRead(e.header, conf) = {h}
      BY <1>0, <2>2, <2>5, HeaderReadAgain
    <3>4. (CHOOSE d \in {h} : TRUE) = h /\ {h} # {}
      OBVIOUS
    <3>5. Indexed(tape', conf)[Len(tape) + 1]
            = [err |-> FALSE, index |-> IndexHeader(rows, Len(tape) + 1, h, conf)]
      BY <3>2, <3>3, <3>4 DEF Rescanned
    <3> QED
      BY <2>1, <2>6, <3>5
  <2>8. KeysUsable'
    BY <2>1, <2>2 DEF KeysUsable, EncryptRefused, SignRefused
  <2>9. Len(tape') \in 1 .. Len(tape')
    BY <2>6
  <2>10. drive' \in {"free", "locked"}
    BY <2>1 DEF PipesInv
  <2> QED
    BY <2>1, <2>3, <2>6, <2>7, <2>8, <2>9, <2>10 DEF e
<1> QED
  BY <1>1, <1>2

(* So it is enough to look at the index.                                   *)
LEMMA AppendedKeeps ==
  ASSUME PipesInv, NEW h \in PlainHeader, NEW body \in Stream, NEW hasBody, NEW written,
         Append1(h, body, hasBody, written),
         \A t \in Seq(TapeEntry) : \A at \in 1 .. Len(t) :
            Index(rows, contents, t, conf) /\ t[at] = [header |-> Wrapped(h, conf), body |-> body]
              => Index(IndexHeader(rows, at, h, conf), written, t, conf)
  PROVE  PipesInv'
<1>1. /\ conf' = conf /\ drive' \in {"free", "locked"} /\ tape' \in Seq(TapeEntry)
      /\ KeysUsable' /\ IndexedAlike'
  BY HeaderAppended
<1>2. Index(rows', contents', tape', conf)
  <2>1. Index(rows, contents, tape, conf) /\ tape \in Seq(TapeEntry)
    BY DEF PipesInv
  <2>2. CASE UNCHANGED <<tape, rows, contents>>
    BY <2>1, <2>2
  <2>3. ASSUME NEW e \in TapeEntry,
               e = [header |-> Wrapped(h, conf), body |-> body],
               tape' = Append(tape, e), tape'[Len(tape')] = e,
               Len(tape') \in 1 .. Len(tape'),
               rows' = IndexHeader(rows, Len(tape'), h, conf), contents' = written
        PROVE  Index(rows', contents', tape', conf)
    <3>1. Index(rows, contents, tape', conf)
      BY <2>1, <2>3, IndexLonger
    <3>2. Index(IndexHeader(rows, Len(tape'), h, conf), written, tape', conf)
      BY <1>1, <2>3, <3>1
    <3> QED
      BY <2>3, <3>2
  <2> QED
    BY <2>2, <2>3, HeaderAppended
<1> QED
  BY <1>1, <1>2 DEF PipesInv
(* A content changes neither the name nor what is done.                    *)
LEMMA WithBodyFields ==
  ASSUME NEW h \in PlainHeader, NEW x, NEW c
  PROVE  /\ WithBody(h, x, c).name = h.name /\ WithBody(h, x, c).action = h.action
         /\ WithBody(h, x, c).from = h.from /\ WithBody(h, x, c).replaces = h.replaces
BY DEF WithBody, PlainHeader

LEMMA InvTypes ==
  ASSUME PipesInv
  PROVE  /\ conf \in Configuration /\ Plain(Empty) \in Stream /\ Empty \in Contents
         /\ \A n \in DOMAIN rows : /\ n \in Names /\ rows[n] \in Row /\ contents[n] \in Contents
                                   /\ rows[n].from = None
BY PlainType, PipesAssumption DEF PipesInv, Index, RowHolds, Configuration, KeyOrNone

LEMMA ArchiveKeeps ==
  ASSUME PipesInv, NEW n \in Names, NEW type \in {"reg", "dir"}, NEW x \in Contents,
         Archive(n, type, x)
  PROVE  PipesInv'
<1> DEFINE h == Header(n, type, "create")
<1>1. conf \in Configuration /\ Plain(Empty) \in Stream /\ Through(x, conf) \in Stream
  BY InvTypes, ThroughType
<1>2. /\ h \in PlainHeader /\ h.name = n /\ h.action = "create" /\ h.from = None
      /\ h.suffixes = <<>> /\ h.uncompressed = None /\ h.size = Plain(Empty)
      /\ h.signature = None /\ h.type = type
  BY HeaderType DEF Header
<1>3. CASE x = Empty
  <2>1. Append1(h, Plain(Empty), FALSE, WithRow(contents, n, x))
    BY <1>3 DEF Archive
  <2> HIDE DEF h
  <2>2. ASSUME NEW t \in Seq(TapeEntry), NEW at \in 1 .. Len(t), Index(rows, contents, t, conf),
               t[at] = [header |-> Wrapped(h, conf), body |-> Plain(Empty)]
        PROVE  Index(IndexHeader(rows, at, h, conf), WithRow(contents, n, x), t, conf)
    <3>1. IndexHeader(rows, at, h, conf) = WithRow(rows, n, RowOf(h, at, conf))
      BY <1>2 DEF IndexHeader
    <3>2. RowOf(h, at, conf) \in Row /\ RowHolds(RowOf(h, at, conf), x, t, conf)
      BY <1>1, <1>2, <1>3, <2>2, EmptyRow
    <3> QED
      BY <2>2, <3>1, <3>2, IndexWith
  <2> QED
    BY <1>1, <1>2, <2>1, <2>2, AppendedKeeps
<1>4. CASE x # Empty
  <2> DEFINE b == WithBody(h, x, conf)
  <2>1. Append1(b, Through(x, conf), TRUE, WithRow(contents, n, x)) /\ type = "reg"
    BY <1>4 DEF Archive
  <2>2. b \in PlainHeader /\ b.name = n /\ b.action = "create"
    BY <1>1, <1>2, WithBodyType, WithBodyFields
  <2> HIDE DEF h
  <2>3. ASSUME NEW t \in Seq(TapeEntry), NEW at \in 1 .. Len(t), Index(rows, contents, t, conf),
               t[at] = [header |-> Wrapped(b, conf), body |-> Through(x, conf)]
        PROVE  Index(IndexHeader(rows, at, b, conf), WithRow(contents, n, x), t, conf)
    <3>1. RowOf(b, at, conf) \in Row /\ RowHolds(RowOf(b, at, conf), x, t, conf)
      BY <1>1, <1>2, <2>1, <2>3, BodyRow
    <3> HIDE DEF b
    <3>2. IndexHeader(rows, at, b, conf) = WithRow(rows, n, RowOf(b, at, conf))
      BY <2>2 DEF IndexHeader
    <3> QED
      BY <2>3, <3>1, <3>2, IndexWith
  <2> HIDE DEF b
  <2> QED
    BY <1>1, <2>1, <2>2, <2>3, AppendedKeeps
<1> QED
  BY <1>3, <1>4

LEMMA UpdateKeeps ==
  ASSUME PipesInv, NEW n \in Names, NEW x \in Contents, Update(n, x)
  PROVE  PipesInv'
<1> DEFINE h == [Header(n, "reg", "update") EXCEPT !.replaces = TRUE]
           b == WithBody(h, x, conf)
<1>1. conf \in Configuration /\ Through(x, conf) \in Stream
  BY InvTypes, ThroughType
<1>2. /\ h \in PlainHeader /\ h.name = n /\ h.action = "update" /\ h.from = None
      /\ h.type = "reg" /\ h.replaces
  <2>1. Header(n, "reg", "update") \in PlainHeader
    BY HeaderType
  <2>2. h \in PlainHeader /\ h.replaces
    BY <2>1 DEF PlainHeader
  <2> QED
    BY <2>2 DEF Header
<1>3. n \in DOMAIN rows /\ Append1(b, Through(x, conf), TRUE, WithRow(contents, n, x))
  BY DEF Update
<1> HIDE DEF h
<1>4. b \in PlainHeader /\ b.name = n /\ b.action = "update" /\ b.from = None /\ b.replaces
  BY <1>1, <1>2, WithBodyType, WithBodyFields
<1>5. ASSUME NEW t \in Seq(TapeEntry), NEW at \in 1 .. Len(t), Index(rows, contents, t, conf),
             t[at] = [header |-> Wrapped(b, conf), body |-> Through(x, conf)]
      PROVE  Index(IndexHeader(rows, at, b, conf), WithRow(contents, n, x), t, conf)
  <2>1. RowOf(b, at, conf) \in Row /\ RowHolds(RowOf(b, at, conf), x, t, conf)
    BY <1>1, <1>2, <1>5, BodyRow
  <2> HIDE DEF b
  <2>2. IndexHeader(rows, at, b, conf) = WithRow(rows, n, RowOf(b, at, conf))
    BY <1>3, <1>4 DEF IndexHeader, IndexUpdate
  <2> QED
    BY <1>5, <2>1, <2>2, IndexWith
<1> HIDE DEF b
<1> QED
  BY <1>1, <1>3, <1>4, <1>5, AppendedKeeps

(* A header made from a row.                                               *)
LEMMA HeaderOfRowType ==
  ASSUME PipesInv, NEW n \in DOMAIN rows, NEW a \in {"update", "delete"}
  PROVE  /\ HeaderOfRow(n, a) \in PlainHeader
         /\ HeaderOfRow(n, a).name = n /\ HeaderOfRow(n, a).action = a
         /\ HeaderOfRow(n, a).type = rows[n].type /\ HeaderOfRow(n, a).from = None
         /\ HeaderOfRow(n, a).suffixes = <<>> /\ HeaderOfRow(n, a).size = Plain(Empty)
         /\ HeaderOfRow(n, a).uncompressed = rows[n].uncompressed
<1>1. n \in Names /\ rows[n] \in Row /\ rows[n].from = None
  BY InvTypes
<1>2. Header(n, rows[n].type, a) \in PlainHeader
  BY <1>1, HeaderType DEF Row
<1>3. HeaderOfRow(n, a) \in PlainHeader
  BY <1>1, <1>2 DEF HeaderOfRow, PlainHeader, Row
<1> QED
  BY <1>1, <1>3 DEF HeaderOfRow, Header

LEMMA ChmodKeeps ==
  ASSUME PipesInv, NEW n \in Names, Chmod(n)
  PROVE  PipesInv'
<1> DEFINE h == [HeaderOfRow(n, "update") EXCEPT !.replaces = FALSE]
           x == contents[n]
<1>1. /\ n \in DOMAIN rows /\ Append1(h, Plain(Empty), FALSE, contents)
  BY DEF Chmod
<1>2. /\ conf \in Configuration /\ Plain(Empty) \in Stream
      /\ rows[n] \in Row /\ contents[n] \in Contents
  BY <1>1, InvTypes
<1>3. /\ h \in PlainHeader /\ h.name = n /\ h.action = "update" /\ ~h.replaces
      /\ h.type = rows[n].type /\ h.from = None /\ h.suffixes = <<>> /\ h.size = Plain(Empty)
      /\ h.uncompressed = rows[n].uncompressed
  <2>1. HeaderOfRow(n, "update") \in PlainHeader
    BY <1>1, HeaderOfRowType
  <2>2. h \in PlainHeader /\ ~h.replaces
    BY <2>1 DEF PlainHeader
  <2> QED
    BY <1>1, <2>2, HeaderOfRowType
<1> HIDE DEF h
<1>4. ASSUME NEW t \in Seq(TapeEntry), NEW at \in 1 .. Len(t), Index(rows, contents, t, conf),
             t[at] = [header |-> Wrapped(h, conf), body |-> Plain(Empty)]
      PROVE  Index(IndexHeader(rows, at, h, conf), contents, t, conf)
  <2> DEFINE row == RowOf(h, rows[n].at, conf)
  <2>1. RowHolds(rows[n], x, t, conf)
    BY <1>1, <1>4 DEF Index
  <2>2. row \in Row /\ RowHolds(row, x, t, conf)
    BY <1>2, <1>3, <2>1, ChangedRow
  <2>3. IndexHeader(rows, at, h, conf) = WithRow(rows, n, row)
    BY <1>1, <1>3 DEF IndexHeader, IndexUpdate
  <2> HIDE DEF row
  <2>4. WithRow(contents, n, x) = contents
    BY <1>1, <1>4 DEF WithRow, Index
  <2> QED
    BY <1>2, <1>4, <2>2, <2>3, <2>4, IndexWith
<1> QED
  BY <1>1, <1>2, <1>3, <1>4, AppendedKeeps

LEMMA MoveKeeps ==
  ASSUME PipesInv, NEW n \in Names, NEW to \in Names, Move(n, to)
  PROVE  PipesInv'
<1> DEFINE h == [HeaderOfRow(n, "update") EXCEPT !.name = to, !.from = n]
           written == WithRow(Without(contents, n), to, contents[n])
<1>1. n \in DOMAIN rows /\ to \notin DOMAIN rows /\ Append1(h, Plain(Empty), FALSE, written)
  BY DEF Move
<1>2. /\ conf \in Configuration /\ Plain(Empty) \in Stream
      /\ rows[n] \in Row /\ contents[n] \in Contents
  BY <1>1, InvTypes
<1>3. h \in PlainHeader /\ h.name = to /\ h.action = "update" /\ h.from = n
  <2>1. HeaderOfRow(n, "update") \in PlainHeader /\ HeaderOfRow(n, "update").action = "update"
    BY <1>1, HeaderOfRowType
  <2> QED
    BY <2>1 DEF PlainHeader
<1> HIDE DEF h
<1>4. n # None
  BY PipesAssumption
<1>5. ASSUME NEW t \in Seq(TapeEntry), NEW at \in 1 .. Len(t), Index(rows, contents, t, conf),
             t[at] = [header |-> Wrapped(h, conf), body |-> Plain(Empty)]
      PROVE  Index(IndexHeader(rows, at, h, conf), written, t, conf)
  <2>1. IndexHeader(rows, at, h, conf) = WithRow(Without(rows, n), to, rows[n])
    BY <1>1, <1>3, <1>4 DEF IndexHeader, IndexUpdate
  <2>2. RowHolds(rows[n], contents[n], t, conf)
    BY <1>1, <1>5 DEF Index
  <2>3. Index(Without(rows, n), Without(contents, n), t, conf)
    BY <1>5, IndexWithout
  <2> QED
    BY <1>2, <2>1, <2>2, <2>3, IndexWith
<1> HIDE DEF written
<1> QED
  BY <1>1, <1>2, <1>3, <1>5, AppendedKeeps

LEMMA DeleteKeeps ==
  ASSUME PipesInv, NEW n \in Names, Delete(n)
  PROVE  PipesInv'
<1> DEFINE h == HeaderOfRow(n, "delete")
<1>1. n \in DOMAIN rows /\ Append1(h, Plain(Empty), FALSE, Without(contents, n))
  BY DEF Delete
<1>2. conf \in Configuration /\ Plain(Empty) \in Stream
  BY InvTypes
<1>3. h \in PlainHeader /\ h.name = n /\ h.action = "delete"
  BY <1>1, HeaderOfRowType
<1> HIDE DEF h
<1>4. ASSUME NEW t \in Seq(TapeEntry), NEW at \in 1 .. Len(t), Index(rows, contents, t, conf),
             t[at] = [header |-> Wrapped(h, conf), body |-> Plain(Empty)]
      PROVE  Index(IndexHeader(rows, at, h, conf), Without(contents, n), t, conf)
  BY <1>3, <1>4, IndexWithout DEF IndexHeader
<1> QED
  BY <1>1, <1>2, <1>3, <1>4, AppendedKeeps

(* Damage changes neither headers nor what a body is the body of.          *)
LEMMA DamageKeeps ==
  ASSUME PipesInv, NEW at \in DOMAIN tape, Damage(at)
  PROVE  PipesInv'
<1>1. /\ tape \in Seq(TapeEntry) /\ at \in 1 .. Len(tape) /\ tape[at] \in TapeEntry
      /\ Index(rows, contents, tape, conf) /\ KeysUsable /\ IndexedAlike
  BY DEF PipesInv
<1> DEFINE e == [tape[at] EXCEPT !.body.damaged = TRUE]
<1>2. /\ tape' = [tape EXCEPT ![at] = e] /\ UNCHANGED <<conf, rows, contents, drive>>
      /\ tape[at].body # Plain(Empty) /\ ~tape[at].body.damaged
  BY DEF Damage
<1>3. e \in TapeEntry /\ e.header = tape[at].header /\ e.body = Damaged(tape[at].body)
  <2>1. tape[at].body \in Stream
    BY <1>1 DEF TapeEntry
  <2>2. e = [tape[at] EXCEPT !.body = Damaged(tape[at].body)]
    BY <1>1, <2>1 DEF TapeEntry, Damaged
  <2> QED
    BY <1>1, <2>1, <2>2, DamagedType DEF TapeEntry
<1> HIDE DEF e
<1>4. /\ tape' \in Seq(TapeEntry) /\ Len(tape') = Len(tape)
      /\ \A i \in 1 .. Len(tape) : tape'[i] = IF i = at THEN e ELSE tape[i]
  BY <1>1, <1>2, <1>3, ExceptSeq
<1>5. \A i \in 1 .. Len(tape) : tape'[i].header = tape[i].header
  BY <1>3, <1>4
<1>6. IndexedAlike'
  <2>1. Indexed(tape', conf)[Len(tape)] = Indexed(tape, conf)[Len(tape)]
    BY <1>1, <1>4, <1>5, IndexedSame
  <2> QED
    BY <1>1, <1>2, <1>4, <2>1 DEF IndexedAlike, RecoveryIndex
<1>7. KeysUsable'
  BY <1>1, <1>2 DEF KeysUsable, EncryptRefused, SignRefused
<1>8. ASSUME NEW i \in 1 .. Len(tape), NEW x, Holds(tape[i], x, conf)
      PROVE  Holds(tape'[i], x, conf)
  <2>1. CASE i # at
    BY <1>4, <1>8, <2>1
  <2>2. CASE i = at
    <3>1. PICK h \in PlainHeader :
            /\ tape[at].header = Wrapped(h, conf)
            /\ \/ /\ h.size = Plain(Empty) /\ h.signature = None /\ tape[at].body = Plain(Empty)
                  /\ x = Empty
               \/ /\ h.size = Through(x, conf) /\ h.signature = Signature(Plain(x), conf)
                  /\ tape[at].body \in {Through(x, conf), Damaged(Through(x, conf))}
      BY <1>8, <2>2 DEF Holds
    <3>2. tape[at].body # Damaged(Through(x, conf))
      BY <1>2 DEF Damaged, Through, Around, Plain
    <3> QED
      BY <1>2, <1>3, <1>4, <2>2, <3>1, <3>2 DEF Holds
  <2> QED
    BY <2>1, <2>2
<1>9. Index(rows, contents, tape', conf)
  BY <1>1, <1>4, <1>8 DEF Index, RowHolds
<1> QED
  BY <1>2, <1>4, <1>6, <1>7, <1>9 DEF PipesInv
-----------------------------------------------------------------------------
(* Theorems.                                                               *)

LEMMA PipesInvInit == Init => PipesInv
<1> SUFFICES ASSUME Init PROVE PipesInv
  OBVIOUS
<1>1. conf \in Writers /\ tape = <<>> /\ rows = <<>> /\ contents = <<>> /\ drive = "free"
  BY DEF Init
<1>2. tape \in Seq(TapeEntry) /\ Len(tape) = 0
  BY <1>1
<1>3. Index(rows, contents, tape, conf)
  <2>1. DOMAIN rows = {} /\ DOMAIN contents = {}
    BY <1>1
  <2>2. rows = [n \in {} |-> n] /\ contents = [n \in {} |-> n]
    BY <1>1
  <2> QED
    BY <2>1, <2>2 DEF Index
<1>4. IndexedAlike
  BY <1>1, <1>2, IndexedDef DEF IndexedAlike, RecoveryIndex
<1> QED
  BY <1>1, <1>2, <1>3, <1>4 DEF PipesInv, KeysUsable

LEMMA PipesInvNext == PipesInv /\ [Next]_vars => PipesInv'
<1> SUFFICES ASSUME PipesInv, [Next]_vars PROVE PipesInv'
  OBVIOUS
<1>1. CASE UNCHANGED vars
  BY <1>1 DEF vars, PipesInv, KeysUsable, IndexedAlike, RecoveryIndex
<1>2. ASSUME NEW n \in Names, NEW type \in {"reg", "dir"}, NEW x \in Contents, Archive(n, type, x)
      PROVE  PipesInv'
  BY <1>2, ArchiveKeeps
<1>3. ASSUME NEW n \in Names, NEW x \in Contents, Update(n, x) PROVE PipesInv'
  BY <1>3, UpdateKeeps
<1>4. ASSUME NEW n \in Names, NEW to \in Names, Move(n, to) PROVE PipesInv'
  BY <1>4, MoveKeeps
<1>5. ASSUME NEW n \in Names, Chmod(n) \/ Delete(n) PROVE PipesInv'
  BY <1>5, ChmodKeeps, DeleteKeeps
<1>6. ASSUME NEW at \in DOMAIN tape, Damage(at) PROVE PipesInv'
  BY <1>6, DamageKeeps
<1> QED
  BY <1>1, <1>2, <1>3, <1>4, <1>5, <1>6 DEF Next

LEMMA PipesInvariant == Spec => []PipesInv
BY PipesInvInit, PipesInvNext, PTL DEF Spec

(* Whatever is written, with whatever configuration, the tape holds        *)
(* headers wrapped at most twice, and the index their rows.                *)
THEOREM PipesTypeCorrect == Spec => []TypeOK
<1>1. PipesInv => TypeOK
  BY DEF PipesInv, TypeOK, Index, TapeEntry, AnyHeader
<1> QED
  BY <1>1, PipesInvariant, PTL

(* The index has the sizes of what clients wrote and names without         *)
(* suffixes, for every format, also where a later header has no content    *)
(* and takes the size from the row before it (pkg/recovery/index.go).      *)
THEOREM SizesAlwaysMatch == Spec => []SizesMatch
<1>1. PipesInv => SizesMatch
  BY DEF PipesInv, SizesMatch, Index, RowHolds
<1> QED
  BY <1>1, PipesInvariant, PTL

(* The index made of remembered headers is that of the wrapped ones on the *)
(* tape, on tapes of any length.                                           *)
THEOREM AlwaysIndexedAlike == Spec => []IndexedAlike
<1>1. PipesInv => IndexedAlike
  BY DEF PipesInv
<1> QED
  BY <1>1, PipesInvariant, PTL

(* A reader who asks for signatures gets what was written or an error,     *)
(* with any keys, formats, drives and record sizes.                        *)
THEOREM SignedIsAlwaysOriginal == Spec => []SignedIsOriginal
<1>1. ASSUME PipesInv, NEW n \in DOMAIN rows, IsFile(n), NEW r \in Readers, r.signature # "none",
             NEW d \in Fetched(rows[n].at, r)
      PROVE  d = Plain(contents[n])
  <2> DEFINE e == tape[rows[n].at]
             x == contents[n]
  <2>1. conf \in Configuration /\ x \in Contents
    BY <1>1, InvTypes
  <2>2. Holds(e, x, conf)
    BY <1>1 DEF PipesInv, Index, RowHolds, IsFile
  <2>3. PICK h \in PlainHeader :
          /\ e.header = Wrapped(h, conf)
          /\ h.signature = None \/ h.signature = Signature(Plain(x), conf)
    BY <2>2 DEF Holds
  <2>4. PICK g \in HeadersRead(e.header, r) : d \in FetchContent(g, e.body, r)
    BY <1>1 DEF Fetched
  <2>5. g = h /\ g.wrap = "none"
    BY <1>1, <2>1, <2>3, <2>4, NoOtherHeader, WrapKinds
  <2>6. PICK s \in Stream : d \in Verified(s, h.signature, r)
    <3>1. e.body \in Stream
      <4>1. tape \in Seq(TapeEntry) /\ rows[n].at \in 1 .. Len(tape)
        BY <1>1 DEF PipesInv, Index, RowHolds
      <4>2. tape[rows[n].at] \in TapeEntry
        BY <4>1, ElementOfSeq
      <4> QED
        BY <4>2 DEF TapeEntry
    <3>2. PICK s \in UNION {Decompressed(o, r) : o \in Decrypted(e.body, r)} :
            d \in Verified(s, h.signature, r)
      BY <2>4, <2>5 DEF FetchContent
    <3> QED
      BY <3>1, <3>2, OpenedType
  <2>7. d = s /\ IsSignature(h.signature, s, r)
    BY <1>1, <2>6 DEF Verified
  <2>8. h.signature # None
    <3>1. r \in Configurations(Nat, Keys \cup {NoKey})
      BY PipesAssumption
    <3>2. [format |-> r.signature, of |-> s, key |-> r.recipient, subkey |-> FALSE]
            \in SignatureOf(Stream)
      BY <3>1 DEF SignatureOf, Configurations
    <3> QED
      BY <2>7, <3>2, PipesAssumption DEF IsSignature
  <2>9. h.signature.of = Plain(x)
    BY <2>3, <2>8 DEF Signature
  <2> QED
    BY <2>7, <2>9 DEF IsSignature
<1>2. PipesInv => SignedIsOriginal
  BY <1>1 DEF SignedIsOriginal
<1> QED
  BY <1>2, PipesInvariant, PTL

(* What went through the pipes comes back through them, for every format,  *)
(* drive and record size the writer is not refused, after any number of    *)
(* changes.                                                                *)
THEOREM AlwaysRoundTrip == Spec => []RoundTrip
<1>1. ASSUME PipesInv, NEW n \in DOMAIN rows, IsFile(n), Piped(n), ~Body(n).damaged, GoodKeys(conf)
      PROVE  Fetched(rows[n].at, conf) = {Plain(contents[n])}
  <2> DEFINE e == tape[rows[n].at]
             x == contents[n]
  <2>1. conf \in Configuration /\ x \in Contents
    BY <1>1, InvTypes
  <2>2. Holds(e, x, conf) /\ tape # <<>>
    BY <1>1 DEF PipesInv, Index, RowHolds, IsFile
  <2>3. PICK h \in PlainHeader :
          /\ e.header = Wrapped(h, conf)
          /\ \/ h.size = Plain(Empty)
             \/ /\ h.signature = Signature(Plain(x), conf)
                /\ e.body \in {Through(x, conf), Damaged(Through(x, conf))}
    BY <2>2 DEF Holds
  <2>4. h.size # Plain(Empty)
    BY <1>1, <2>3, WrappedSize DEF Piped
  <2>5. Damaged(Through(x, conf)).damaged
    BY <2>1, ThroughType, DamagedType
  <2>6. e.body = Through(x, conf) /\ h.signature = Signature(Plain(x), conf)
    BY <1>1, <2>3, <2>4, <2>5 DEF Body
  <2>7. ~EncryptRefused(conf) /\ ~SignRefused(conf)
    BY <1>1, <2>2 DEF PipesInv, KeysUsable
  <2>8. HeadersRead(e.header, conf) = {h}
    BY <1>1, <2>1, <2>3, <2>7, HeaderReadAgain
  <2>9. UNION {Decompressed(d, conf) : d \in Decrypted(Through(x, conf), conf)} = {Plain(x)}
    BY <1>1, <2>1, OpenedAgain
  <2>10. Verified(Plain(x), Signature(Plain(x), conf), conf) = {Plain(x)}
    BY <1>1, <2>1, <2>7, VerifiedAgain
  <2>11. FetchContent(h, e.body, conf) = {Plain(x)}
    <3>1. h.wrap # "sealed"
      BY WrapKinds
    <3> QED
      BY <2>6, <2>9, <2>10, <3>1 DEF FetchContent
  <2> QED
    BY <2>8, <2>11 DEF Fetched
<1>2. PipesInv => RoundTrip
  BY <1>1 DEF RoundTrip
<1> QED
  BY <1>2, PipesInvariant, PTL
=============================================================================
