---------------------------- MODULE BlocksProofs ----------------------------
(***************************************************************************)
(* Theorems about Blocks, for records and blocks of any size, drives with  *)
(* any contents and processes that die anywhere: every scan gets to its    *)
(* end, the positions it computes ascend, it indexes every header before   *)
(* the first torn archive, and each where it can be fetched, and a query   *)
(* finds what is indexed.                                                  *)
(*                                                                         *)
(* The first part is about positions alone (BlocksInv); the second about   *)
(* where the headers are (LaidOut) and how far a scan has come on its way  *)
(* from one to the next (LayoutInv); the last about queries (QueryInv).    *)
(***************************************************************************)
EXTENDS Blocks, SequenceTheorems, NaturalProofs

-----------------------------------------------------------------------------
(* Arithmetic.                                                             *)

(* Division rounding up.                                                   *)
LEMMA CeilOf ==
  ASSUME NEW a \in Nat, NEW b \in Nat \ {0}
  PROVE  /\ (a + b - 1) \div b \in Nat
         /\ ((a + b - 1) \div b) * b >= a
         /\ ((a + b - 1) \div b) * b < a + b
OBVIOUS

LEMMA FloorOf ==
  ASSUME NEW a \in Nat, NEW b \in Nat \ {0}
  PROVE  /\ a \div b \in Nat
         /\ (a \div b) * b <= a
         /\ a < (a \div b) * b + b
OBVIOUS

LEMMA ProductInt == \A p, q \in Int : p * q \in Int
OBVIOUS

LEMMA ProductNat == \A p, q \in Nat : p * q \in Nat
OBVIOUS

LEMMA ProductMonotone ==
  ASSUME NEW b \in Nat \ {0}
  PROVE  /\ \A p, q \in Int : p <= q => p * b <= q * b
         /\ \A p, q \in Int : p * b < q * b => p < q
OBVIOUS

LEMMA ProductDistributes ==
  \A p, q, b \in Int : (p + q) * b = p * b + q * b /\ (p - q) * b = p * b - q * b
OBVIOUS

LEMMA UnitSizes ==
  /\ RecordSize \in Nat \ {0} /\ BlockUnits \in Nat \ {0}
  /\ RecordUnits \in Nat \ {0}
BY ArchivesAssumption DEF RecordUnits

-----------------------------------------------------------------------------
(* What is on a drive.                                                     *)

(* Units of the first n headers.                                           *)
Units(n) == {"pax", "header", "data", "zero"} \X (0 .. n) \X Nat

LEMMA BlockType ==
  ASSUME NEW n \in Nat, NEW id \in 0 .. n, NEW what \in {"pax", "header", "data", "zero"}
  PROVE  Block(what, id) \in Seq(Units(n)) /\ Len(Block(what, id)) = BlockUnits
<1>1. \A p \in 1 .. BlockUnits : <<what, id, p>> \in Units(n)
  BY UnitSizes DEF Units
<1> QED
  BY <1>1, UnitSizes DEF Block

LEMMA ZerosType ==
  ASSUME NEW n \in Nat, NEW k \in Nat
  PROVE  Zeros(k) \in Seq(Units(n)) /\ Len(Zeros(k)) = k
<1>1. ZeroUnit \in Units(n)
  BY DEF ZeroUnit, Units
<1> QED
  BY <1>1 DEF Zeros

LEMMA PaddingType ==
  ASSUME NEW size \in Nat
  PROVE  PaddingOf(size) \in Nat
<1>1. size % BlockUnits \in 0 .. BlockUnits - 1
  BY UnitSizes
<1>2. BlockUnits - (size % BlockUnits) \in Nat
  BY <1>1, UnitSizes
<1> QED
  BY <1>2, UnitSizes DEF PaddingOf

LEMMA ContentType ==
  ASSUME NEW n \in Nat, NEW id \in 1 .. n, NEW size \in Nat
  PROVE  Content(id, size) \in Seq(Units(n)) /\ Len(Content(id, size)) = size
<1>1. CASE size = BlockUnits
  BY <1>1, BlockType DEF Content, Ghost
<1>2. CASE size # BlockUnits
  <2>1. \A u \in 1 .. size : <<"data", id, u>> \in Units(n)
    BY DEF Units
  <2> QED
    BY <1>2, <2>1 DEF Content
<1> QED
  BY <1>1, <1>2

LEMMA EntryType ==
  ASSUME NEW n \in Nat, NEW id \in 1 .. n, NEW h \in HeaderShape
  PROVE  Entry(id, h) \in Seq(Units(n))
<1> DEFINE pax == IF h.pax THEN Block("pax", id) ELSE <<>>
<1>1. h.size \in Nat
  BY ArchivesAssumption DEF HeaderShape
<1>2. id \in 0 .. n
  OBVIOUS
<1>3. pax \in Seq(Units(n)) /\ Block("header", id) \in Seq(Units(n))
  BY <1>2, BlockType
<1>4. Content(id, h.size) \in Seq(Units(n)) /\ Zeros(PaddingOf(h.size)) \in Seq(Units(n))
  BY <1>1, ContentType, PaddingType, ZerosType
<1> HIDE DEF pax
<1>5. pax \o Block("header", id) \in Seq(Units(n))
  BY <1>3, ConcatProperties
<1>6. pax \o Block("header", id) \o Content(id, h.size) \in Seq(Units(n))
  BY <1>4, <1>5, ConcatProperties
<1>7. pax \o Block("header", id) \o Content(id, h.size) \o Zeros(PaddingOf(h.size)) \in Seq(Units(n))
  BY <1>4, <1>6, ConcatProperties
<1> QED
  BY <1>7 DEF Entry, pax

(* Headers written later do not matter.                                    *)
LEMMA UnitsMonotone ==
  ASSUME NEW m \in Nat, NEW n \in Nat, m <= n
  PROVE  Units(m) \subseteq Units(n) /\ Seq(Units(m)) \subseteq Seq(Units(n))
<1>1. Units(m) \subseteq Units(n)
  BY DEF Units
<1> QED
  BY <1>1, SeqMonotonic

(* The entries of a batch, by what one more adds.                          *)
LEMMA EntriesDef ==
  ASSUME NEW first, NEW E, NEW t \in Seq(E)
  PROVE  /\ EntriesUpTo(first, t)[0] = <<>>
         /\ \A i \in 1 .. Len(t) :
              EntriesUpTo(first, t)[i] = EntriesUpTo(first, t)[i - 1] \o Entry(first + i - 1, t[i])
<1> DEFINE Base == <<>>
           More(before, i) == before \o Entry(first + i - 1, t[i])
           D(g, i) == IF i = 0 THEN Base ELSE More(g[i - 1], i)
           S == {n \in 0 .. Len(t) : \E g : g = [i \in 0 .. n |-> D(g, i)]}
<1> HIDE DEF More, Base
<1>0. Len(t) \in Nat
  OBVIOUS
<1>1. 0 \in S
  <2> DEFINE g == [i \in 0 .. 0 |-> Base]
  <2>1. g = [i \in 0 .. 0 |-> D(g, i)]
    OBVIOUS
  <2>2. \E gg : gg = [i \in 0 .. 0 |-> D(gg, i)]
    <3> HIDE DEF g, D
    <3> QED
      BY <2>1
  <2> HIDE DEF D
  <2> QED
    BY <1>0, <2>2
<1>2. ASSUME NEW n \in 1 .. Len(t), n - 1 \in S PROVE n \in S
  <2>1. PICK g : g = [i \in 0 .. n - 1 |-> D(g, i)]
    BY <1>2
  <2> DEFINE f == [i \in 0 .. n |-> IF i = n THEN More(g[n - 1], n) ELSE g[i]]
  <2>2. \A i \in 0 .. n - 1 : f[i] = g[i] /\ g[i] = D(g, i)
    BY <2>1
  <2>3. \A i \in 0 .. n : f[i] = D(f, i)
    <3>1. ASSUME NEW i \in 1 .. n - 1 PROVE f[i] = D(f, i)
      <4>1. f[i] = g[i] /\ g[i] = D(g, i) /\ f[i - 1] = g[i - 1]
        BY <1>0, <2>2
      <4> HIDE DEF f
      <4> QED
        BY <4>1
    <3>2. f[n] = D(f, n)
      <4>1. f[n] = More(g[n - 1], n) /\ f[n - 1] = g[n - 1]
        BY <1>0, <2>2
      <4> HIDE DEF f
      <4> QED
        BY <4>1
    <3>3. f[0] = D(f, 0)
      <4>1. 0 \in 0 .. n - 1
        BY <1>0
      <4>2. f[0] = g[0] /\ g[0] = D(g, 0)
        BY <2>2, <4>1
      <4> HIDE DEF f
      <4> QED
        BY <4>2
    <3> HIDE DEF f, D
    <3> QED
      BY <3>1, <3>2, <3>3
  <2>4. f = [i \in 0 .. n |-> D(f, i)]
    BY <2>3
  <2>5. \E gg : gg = [i \in 0 .. n |-> D(gg, i)]
    <3> HIDE DEF f, D
    <3> QED
      BY <2>4
  <2> HIDE DEF D
  <2> QED
    BY <1>0, <2>5
<1>3. Len(t) \in S
  <2> HIDE DEF S
  <2>1. \A n \in 0 .. Len(t) : n \in S
    BY <1>0, <1>1, <1>2, UpTo
  <2> QED
    BY <1>0, <2>1
<1>4. EntriesUpTo(first, t) = CHOOSE g : g = [i \in 0 .. Len(t) |-> D(g, i)]
  BY DEF EntriesUpTo, More, Base
<1>5. EntriesUpTo(first, t) = [i \in 0 .. Len(t) |-> D(EntriesUpTo(first, t), i)]
  <2> HIDE DEF D
  <2> QED
    BY <1>3, <1>4
<1>6. \A i \in 0 .. Len(t) : EntriesUpTo(first, t)[i] = D(EntriesUpTo(first, t), i)
  BY <1>5
<1>7. 0 \in 0 .. Len(t) /\ \A i \in 1 .. Len(t) : i \in 0 .. Len(t) /\ i # 0
  BY <1>0
<1> QED
  BY <1>6, <1>7 DEF More, Base

LEMMA EntriesType ==
  ASSUME NEW n \in Nat, NEW first \in Nat \ {0}, NEW batch \in Seq(HeaderShape),
         first + Len(batch) <= n + 1
  PROVE  Entries(first, batch) \in Seq(Units(n))
<1> DEFINE S == {k \in 0 .. Len(batch) : EntriesUpTo(first, batch)[k] \in Seq(Units(n))}
<1>0. Len(batch) \in Nat
  OBVIOUS
<1>1. 0 \in S
  <2>1. EntriesUpTo(first, batch)[0] = <<>>
    BY EntriesDef
  <2>2. <<>> \in Seq(Units(n)) /\ 0 \in 0 .. Len(batch)
    BY <1>0
  <2> QED
    BY <2>1, <2>2
<1>2. ASSUME NEW k \in 1 .. Len(batch), k - 1 \in S PROVE k \in S
  <2>1. EntriesUpTo(first, batch)[k]
          = EntriesUpTo(first, batch)[k - 1] \o Entry(first + k - 1, batch[k])
    BY <1>2, EntriesDef
  <2>2. first + k - 1 \in 1 .. n /\ batch[k] \in HeaderShape
    BY <1>0, ElementOfSeq
  <2>3. Entry(first + k - 1, batch[k]) \in Seq(Units(n))
    BY <2>2, EntryType
  <2>4. EntriesUpTo(first, batch)[k - 1] \in Seq(Units(n))
    BY <1>2
  <2>5. EntriesUpTo(first, batch)[k] \in Seq(Units(n))
    BY <2>1, <2>3, <2>4, ConcatProperties
  <2> QED
    BY <1>0, <2>5
<1>3. \A k \in 0 .. Len(batch) : k \in S
  <2> HIDE DEF S
  <2> QED
    BY <1>0, <1>1, <1>2, UpTo
<1> QED
  BY <1>0, <1>3 DEF Entries

(* What an operation writes.                                               *)
LEMMA ArchiveType ==
  ASSUME NEW n \in Nat, NEW first \in Nat \ {0}, NEW batch \in Seq(HeaderShape),
         first + Len(batch) <= n + 1, NEW regular
  PROVE  Archive(regular, first, batch) \in Seq(Units(n))
<1> DEFINE out == Entries(first, batch) \o Trailer
<1>1. Trailer \in Seq(Units(n))
  <2>1. 2 * BlockUnits \in Nat
    BY UnitSizes
  <2> QED
    BY <2>1, ZerosType DEF Trailer
<1>2. out \in Seq(Units(n)) /\ Len(out) \in Nat
  BY <1>1, EntriesType, ConcatProperties, SMTT(20)
<1> HIDE DEF out
<1>3. CASE Len(out) < RecordUnits
  <2>1. RecordUnits - Len(out) \in Nat
    BY <1>2, <1>3, UnitSizes
  <2>2. out \o Zeros(RecordUnits - Len(out)) \in Seq(Units(n))
    BY <1>2, <2>1, ZerosType, ConcatProperties
  <2> QED
    BY <1>2, <2>2 DEF Archive, out
<1>4. CASE ~(Len(out) < RecordUnits)
  BY <1>2, <1>4 DEF Archive, out
<1> QED
  BY <1>3, <1>4

-----------------------------------------------------------------------------
(* What is read.                                                           *)

Kinds == {"end", "part", "zero", "pax", "header", "junk"}

LEMMA BlockAtType ==
  ASSUME NEW n \in Nat, NEW units \in Seq(Units(n)), NEW at \in Nat
  PROVE  /\ BlockAt(units, at)[1] \in Kinds /\ BlockAt(units, at)[2] \in 0 .. n
         /\ BlockAt(units, at)[1] = "end" <=> at >= Len(units)
         /\ BlockAt(units, at)[1] = "part" => at < Len(units)
         /\ BlockAt(units, at)[1] \notin {"end", "part"} => at + BlockUnits <= Len(units)
<1>0. Len(units) \in Nat
  OBVIOUS
<1>1. CASE at >= Len(units)
  BY <1>0, <1>1 DEF BlockAt, Kinds, Ghost
<1>2. CASE at < Len(units) /\ at + BlockUnits > Len(units)
  BY <1>0, <1>2, UnitSizes DEF BlockAt, Kinds, Ghost
<1>3. CASE at + BlockUnits <= Len(units)
  <2>1. at < Len(units)
    BY <1>0, <1>3, UnitSizes
  <2> DEFINE zero == \A u \in 1 .. BlockUnits : units[at + u] = ZeroUnit
             whole == \E what \in {"pax", "header"} :
                        \A u \in 1 .. BlockUnits : units[at + u] = <<what, units[at + 1][2], u>>
  <2>2. BlockAt(units, at) = IF zero THEN <<"zero", Ghost>>
                             ELSE IF whole THEN <<units[at + 1][1], units[at + 1][2]>>
                             ELSE <<"junk", Ghost>>
    <3>1. ~(at >= Len(units)) /\ ~(at + BlockUnits > Len(units))
      BY <1>0, <1>3, <2>1, UnitSizes
    <3> QED
      BY <3>1 DEF BlockAt
  <2>3. whole => units[at + 1][1] \in {"pax", "header"} /\ units[at + 1][2] \in 0 .. n
    <3>1. units[at + 1] \in Units(n)
      BY <1>0, <2>1, ElementOfSeq
    <3>2. whole => \E what \in {"pax", "header"} : units[at + 1] = <<what, units[at + 1][2], 1>>
      BY UnitSizes
    <3> QED
      BY <3>1, <3>2, SMTT(60) DEF Units
  <2> HIDE DEF zero, whole
  <2> QED
    BY <1>0, <1>3, <2>1, <2>2, <2>3 DEF Kinds, Ghost
<1>4. at >= Len(units) \/ (at < Len(units) /\ at + BlockUnits > Len(units)) \/ at + BlockUnits <= Len(units)
  BY <1>0, UnitSizes
<1> QED
  BY <1>1, <1>2, <1>3, <1>4

(* What a reading has found and how far it has come.                       *)
Readings(n) == [res : {"header", "error", "eof"}, at : Nat, id : 0 .. n, size : Nat]

LEMMA ReadHeaderAdvances ==
  ASSUME NEW hdrs \in Seq(HeaderShape), NEW units \in Seq(Units(Len(hdrs))), NEW at \in Nat,
         NEW pax, BlockAt(units, at)[1] # "pax"
  PROVE  LET r == ReadHeader(hdrs, units, at, pax)
         IN  /\ r \in Readings(Len(hdrs))
             /\ r.res = "header" => r.at = at + BlockUnits /\ r.at <= Len(units)
             /\ r.res = "error" => r.at > at
             /\ r.res = "eof" => r.at >= at
<1> DEFINE b == BlockAt(units, at)
           next == BlockAt(units, at + BlockUnits)
<1>0. Len(hdrs) \in Nat /\ Len(units) \in Nat /\ at + BlockUnits \in Nat /\ at + 2 * BlockUnits \in Nat
  BY UnitSizes
<1>1. /\ b[1] \in Kinds /\ b[1] # "pax" /\ b[2] \in 0 .. Len(hdrs)
      /\ b[1] = "end" <=> at >= Len(units)
      /\ b[1] = "part" => at < Len(units)
      /\ b[1] \notin {"end", "part"} => at + BlockUnits <= Len(units)
  BY <1>0, BlockAtType
<1>2. /\ next[1] \in Kinds
      /\ next[1] = "part" => at + BlockUnits < Len(units)
  BY <1>0, BlockAtType
<1>3. Recognised(hdrs, b[2], pax) \in 0 .. Len(hdrs)
  BY <1>0, <1>1 DEF Recognised, Ghost
<1>4. (IF b[2] = Ghost THEN 0 ELSE hdrs[b[2]].size) \in Nat
  <2>1. CASE b[2] = Ghost
    BY <2>1
  <2>2. CASE b[2] # Ghost
    <3>1. hdrs[b[2]] \in HeaderShape
      BY <1>0, <1>1, <2>2, ElementOfSeq DEF Ghost
    <3> QED
      BY <2>2, <3>1, ArchivesAssumption DEF HeaderShape
  <2> QED
    BY <2>1, <2>2
<1> HIDE DEF b, next
<1>5. ReadHeader(hdrs, units, at, pax) =
        CASE b[1] = "end"  -> ReadTo("eof", at)
          [] b[1] = "part" -> ReadTo("error", Len(units))
          [] b[1] = "junk" -> ReadTo("error", at + BlockUnits)
          [] b[1] = "zero" ->
               CASE next[1] = "end"  -> ReadTo("eof", at + BlockUnits)
                 [] next[1] = "part" -> ReadTo("error", Len(units))
                 [] next[1] = "zero" -> ReadTo("eof", at + 2 * BlockUnits)
                 [] OTHER            -> ReadTo("error", at + 2 * BlockUnits)
          [] b[1] = "header" ->
               [res |-> "header", at |-> at + BlockUnits, id |-> Recognised(hdrs, b[2], pax),
                size |-> IF b[2] = Ghost THEN 0 ELSE hdrs[b[2]].size]
  BY DEF ReadHeader, b, next
<1>6. CASE b[1] = "end"
  BY <1>0, <1>1, <1>5, <1>6 DEF ReadTo, Readings, Ghost
<1>7. CASE b[1] = "part"
  BY <1>0, <1>1, <1>5, <1>7 DEF ReadTo, Readings, Ghost
<1>8. CASE b[1] = "junk"
  BY <1>0, <1>1, <1>5, <1>8, UnitSizes DEF ReadTo, Readings, Ghost
<1>9. CASE b[1] = "zero"
  <2>1. CASE next[1] = "part"
    BY <1>0, <1>1, <1>2, <1>5, <1>9, <2>1, UnitSizes DEF ReadTo, Readings, Ghost
  <2>2. CASE next[1] # "part"
    <3>1. \/ ReadHeader(hdrs, units, at, pax) = ReadTo("eof", at + BlockUnits)
          \/ ReadHeader(hdrs, units, at, pax) = ReadTo("eof", at + 2 * BlockUnits)
          \/ ReadHeader(hdrs, units, at, pax) = ReadTo("error", at + 2 * BlockUnits)
      BY <1>2, <1>5, <1>9, <2>2 DEF Kinds
    <3> QED
      BY <1>0, <3>1, UnitSizes DEF ReadTo, Readings, Ghost
  <2> QED
    BY <2>1, <2>2
<1>10. CASE b[1] = "header"
  <2>1. ReadHeader(hdrs, units, at, pax) =
          [res |-> "header", at |-> at + BlockUnits, id |-> Recognised(hdrs, b[2], pax),
           size |-> IF b[2] = Ghost THEN 0 ELSE hdrs[b[2]].size]
    BY <1>5, <1>10
  <2> QED
    BY <1>0, <1>1, <1>3, <1>4, <1>10, <2>1 DEF Readings
<1> QED
  BY <1>1, <1>6, <1>7, <1>8, <1>9, <1>10 DEF Kinds

(* Reader.Next comes further with every header, and with every error       *)
(* unless it discards padding first.                                       *)
LEMMA ReadNextAdvances ==
  ASSUME NEW hdrs \in Seq(HeaderShape), NEW units \in Seq(Units(Len(hdrs))), NEW at \in Nat,
         NEW pad \in Nat, pad > 0 => at <= Len(units)
  PROVE  LET r == ReadNext(hdrs, units, at, pad)
         IN  /\ r \in Readings(Len(hdrs)) /\ r.at >= at
             /\ r.res = "header" => r.at >= at + BlockUnits /\ r.at <= Len(units)
             /\ r.res = "error" => r.at > at
<1> DEFINE from == at + pad
           IsPax(n) == BlockAt(units, from + n * BlockUnits)[1] = "pax"
           skipped == CHOOSE n \in 0 .. Len(units) : ~IsPax(n) /\ \A k \in 0 .. n - 1 : IsPax(k)
           last == BlockAt(units, from + (skipped - 1) * BlockUnits)
           pax == IF skipped > 0 THEN last[2] ELSE Ghost
<1>0. Len(hdrs) \in Nat /\ Len(units) \in Nat /\ from \in Nat
  OBVIOUS
<1>1. CASE pad > 0 /\ from > Len(units)
  <2>1. ReadNext(hdrs, units, at, pad) = ReadTo("eof", Len(units))
    BY <1>1 DEF ReadNext
  <2> QED
    BY <1>0, <1>1, <2>1 DEF ReadTo, Readings, Ghost
<1>2. CASE ~(pad > 0 /\ from > Len(units))
  <2>1. \A n \in Nat : n * BlockUnits \in Nat /\ n * BlockUnits >= n
    <3> TAKE n \in Nat
    <3>1. n * BlockUnits \in Nat
      BY UnitSizes, ProductNat
    <3>2. n * 1 <= n * BlockUnits
      BY UnitSizes
    <3> QED
      BY <3>1, <3>2
  <2>2. ~IsPax(Len(units))
    <3>0. Len(units) * BlockUnits \in Nat /\ Len(units) * BlockUnits >= Len(units)
      BY <1>0, <2>1
    <3> HIDE DEF from
    <3>1. from + Len(units) * BlockUnits \in Nat /\ from + Len(units) * BlockUnits >= Len(units)
      BY <1>0, <3>0
    <3>2. BlockAt(units, from + Len(units) * BlockUnits)[1] = "end"
      BY <1>0, <3>1, BlockAtType
    <3> QED
      BY <3>2
  <2>3. \E n \in 0 .. Len(units) : ~IsPax(n) /\ \A k \in 0 .. n - 1 : IsPax(k)
    <3> DEFINE S == {n \in 0 .. Len(units) : ~IsPax(n)}
    <3> HIDE DEF IsPax
    <3>1. S \in SUBSET Nat /\ Len(units) \in S
      BY <1>0, <2>2
    <3>2. PICK n \in S : \A s \in S : n <= s
      <4> HIDE DEF S
      <4> QED
        BY <3>1, LeastNatural
    <3>3. \A k \in 0 .. n - 1 : IsPax(k)
      BY <1>0, <3>2
    <3> QED
      BY <3>2, <3>3
  <2>4. skipped \in 0 .. Len(units) /\ ~IsPax(skipped)
    <3> HIDE DEF IsPax
    <3> QED
      BY <2>3
  <2>5. ReadNext(hdrs, units, at, pad) = ReadHeader(hdrs, units, from + skipped * BlockUnits, pax)
    BY <1>2 DEF ReadNext
  <2> DEFINE pos == from + skipped * BlockUnits
  <2>6. pos \in Nat /\ pos >= at /\ BlockAt(units, pos)[1] # "pax"
    <3>1. skipped * BlockUnits \in Nat
      BY <1>0, <2>1, <2>4
    <3> HIDE DEF skipped
    <3> QED
      BY <1>0, <2>4, <3>1
  <2> HIDE DEF pos, pax, skipped, IsPax
  <2>7. LET r == ReadHeader(hdrs, units, pos, pax)
        IN  /\ r \in Readings(Len(hdrs))
            /\ r.res = "header" => r.at = pos + BlockUnits /\ r.at <= Len(units)
            /\ r.res = "error" => r.at > pos
            /\ r.res = "eof" => r.at >= pos
    BY <2>6, ReadHeaderAdvances
  <2>8. ReadNext(hdrs, units, at, pad) = ReadHeader(hdrs, units, pos, pax)
    BY <2>5 DEF pos
  <2> HIDE DEF from
  <2> QED
    BY <1>0, <2>6, <2>7, <2>8, UnitSizes DEF Readings
<1> QED
  BY <1>1, <1>2
-----------------------------------------------------------------------------
(* Positions.                                                              *)

LEMMA RecordsInType ==
  ASSUME NEW E, NEW units \in Seq(E)
  PROVE  RecordsIn(units) \in Nat /\ Len(units) <= RecordsIn(units) * RecordUnits
<1>1. Len(units) \in Nat /\ RecordUnits \in Nat \ {0}
  BY UnitSizes
<1> QED
  BY <1>1, CeilOf DEF RecordsIn

(* The first record of each file, by what one more file adds.              *)
LEMMA FirstRecordsDef ==
  ASSUME NEW E, NEW files \in Seq(E)
  PROVE  /\ FirstRecords(files)[1] = 0
         /\ \A f \in 2 .. Len(files) + 1 :
              FirstRecords(files)[f] = FirstRecords(files)[f - 1] + RecordsIn(files[f - 1]) + 1
<1> DEFINE More(before, f) == before + RecordsIn(files[f - 1]) + 1
           D(g, f) == IF f = 1 THEN 0 ELSE More(g[f - 1], f)
           S == {n \in 0 .. Len(files) : \E g : g = [f \in 1 .. n + 1 |-> D(g, f)]}
<1> HIDE DEF More
<1>0. Len(files) \in Nat
  OBVIOUS
<1>1. 0 \in S
  <2> DEFINE g == [f \in 1 .. 0 + 1 |-> 0]
  <2>1. g = [f \in 1 .. 0 + 1 |-> D(g, f)]
    OBVIOUS
  <2>2. \E gg : gg = [f \in 1 .. 0 + 1 |-> D(gg, f)]
    <3> HIDE DEF g, D
    <3> QED
      BY <2>1
  <2> HIDE DEF D
  <2> QED
    BY <1>0, <2>2
<1>2. ASSUME NEW n \in 1 .. Len(files), n - 1 \in S PROVE n \in S
  <2>1. PICK g : g = [f \in 1 .. n - 1 + 1 |-> D(g, f)]
    BY <1>2
  <2> DEFINE h == [f \in 1 .. n + 1 |-> IF f = n + 1 THEN More(g[n], n + 1) ELSE g[f]]
  <2>2. \A f \in 1 .. n : h[f] = g[f] /\ g[f] = D(g, f)
    BY <2>1
  <2>3. \A f \in 1 .. n + 1 : h[f] = D(h, f)
    <3>1. ASSUME NEW f \in 2 .. n PROVE h[f] = D(h, f)
      <4>1. f \in 1 .. n /\ f - 1 \in 1 .. n
        OBVIOUS
      <4>2. h[f] = g[f] /\ g[f] = D(g, f) /\ h[f - 1] = g[f - 1]
        <5> HIDE DEF h, D
        <5> QED
          BY <2>2, <4>1
      <4> HIDE DEF h
      <4> QED
        BY <4>2
    <3>2. h[n + 1] = D(h, n + 1)
      <4>1. h[n + 1] = More(g[n], n + 1) /\ h[n] = g[n]
        BY <1>0, <2>2
      <4>2. n + 1 # 1 /\ n + 1 - 1 = n
        OBVIOUS
      <4> HIDE DEF h
      <4> QED
        BY <4>1, <4>2
    <3>3. h[1] = D(h, 1)
      <4>1. 1 \in 1 .. n
        BY <1>0
      <4>2. h[1] = g[1] /\ g[1] = D(g, 1)
        BY <2>2, <4>1
      <4> HIDE DEF h
      <4> QED
        BY <4>2
    <3> HIDE DEF h, D
    <3> QED
      BY <3>1, <3>2, <3>3
  <2>4. h = [f \in 1 .. n + 1 |-> D(h, f)]
    BY <2>3
  <2>5. \E gg : gg = [f \in 1 .. n + 1 |-> D(gg, f)]
    <3> HIDE DEF h, D
    <3> QED
      BY <2>4
  <2> HIDE DEF D
  <2> QED
    BY <1>0, <2>5
<1>3. Len(files) \in S
  <2> HIDE DEF S
  <2>1. \A n \in 0 .. Len(files) : n \in S
    BY <1>0, <1>1, <1>2, UpTo
  <2> QED
    BY <1>0, <2>1
<1>4. FirstRecords(files) = CHOOSE g : g = [f \in 1 .. Len(files) + 1 |-> D(g, f)]
  BY DEF FirstRecords, More
<1>5. FirstRecords(files) = [f \in 1 .. Len(files) + 1 |-> D(FirstRecords(files), f)]
  <2> HIDE DEF D
  <2> QED
    BY <1>3, <1>4
<1>6. \A f \in 1 .. Len(files) + 1 : FirstRecords(files)[f] = D(FirstRecords(files), f)
  BY <1>5
<1>7. 1 \in 1 .. Len(files) + 1 /\ \A f \in 2 .. Len(files) + 1 : f \in 1 .. Len(files) + 1 /\ f # 1
  BY <1>0
<1> QED
  BY <1>6, <1>7 DEF More

(* Every file has its record, and the marks keep them apart.               *)
LEMMA FirstRecordsAscend ==
  ASSUME NEW E, NEW files \in Seq(Seq(E))
  PROVE  /\ FirstRecords(files)[1] = 0
         /\ \A f \in 1 .. Len(files) + 1 : FirstRecords(files)[f] \in Nat
         /\ \A f, g \in 1 .. Len(files) + 1 :
              f < g => FirstRecords(files)[f] < FirstRecords(files)[g]
         /\ \A f \in 1 .. Len(files) :
              FirstRecords(files)[f + 1] = FirstRecords(files)[f] + RecordsIn(files[f]) + 1
<1> DEFINE first == FirstRecords(files)
<1>0. Len(files) \in Nat
  OBVIOUS
<1>1. /\ first[1] = 0
      /\ \A f \in 1 .. Len(files) : first[f + 1] = first[f] + RecordsIn(files[f]) + 1
  <2>1. \A f \in 1 .. Len(files) : f + 1 \in 2 .. Len(files) + 1 /\ f + 1 - 1 = f
    BY <1>0
  <2> HIDE DEF first
  <2> QED
    BY <2>1, FirstRecordsDef DEF first
<1>2. \A f \in 1 .. Len(files) : RecordsIn(files[f]) \in Nat
  <2> TAKE f \in 1 .. Len(files)
  <2>1. files[f] \in Seq(E)
    BY ElementOfSeq
  <2> QED
    BY <2>1, RecordsInType
<1> HIDE DEF first
<1> DEFINE S == {n \in 0 .. Len(files) :
                   first[n + 1] \in Nat /\ \A f \in 1 .. n : first[f] \in Nat /\ first[f] < first[n + 1]}
<1>3. 0 \in S
  BY <1>0, <1>1
<1>4. ASSUME NEW n \in 1 .. Len(files), n - 1 \in S PROVE n \in S
  <2>1. first[n] \in Nat /\ \A f \in 1 .. n - 1 : first[f] \in Nat /\ first[f] < first[n]
    BY <1>4
  <2>2. first[n + 1] = first[n] + RecordsIn(files[n]) + 1 /\ RecordsIn(files[n]) \in Nat
    BY <1>1, <1>2
  <2>3. first[n + 1] \in Nat /\ first[n] < first[n + 1]
    BY <2>1, <2>2
  <2>4. \A f \in 1 .. n : first[f] \in Nat /\ first[f] < first[n + 1]
    BY <2>1, <2>3
  <2> QED
    BY <1>0, <2>3, <2>4
<1>5. \A n \in 0 .. Len(files) : n \in S
  <2> HIDE DEF S
  <2> QED
    BY <1>0, <1>3, <1>4, UpTo
<1>6. \A f \in 1 .. Len(files) + 1 : f - 1 \in 0 .. Len(files) /\ f - 1 + 1 = f
  BY <1>0
<1>7. \A g \in 1 .. Len(files) + 1 :
        first[g] \in Nat /\ \A f \in 1 .. g - 1 : first[f] < first[g]
  BY <1>5, <1>6
<1> QED
  BY <1>0, <1>1, <1>7 DEF first

(* A file more leaves those before it where they are.                      *)
LEMMA FirstRecordsAppend ==
  ASSUME NEW E, NEW files \in Seq(Seq(E)), NEW units \in Seq(E)
  PROVE  \A f \in 1 .. Len(files) + 1 :
           FirstRecords(Append(files, units))[f] = FirstRecords(files)[f]
<1> DEFINE first == FirstRecords(files)
           more == Append(files, units)
           then == FirstRecords(more)
           S == {n \in 0 .. Len(files) : then[n + 1] = first[n + 1]}
<1>0. Len(files) \in Nat
  OBVIOUS
<1>1. more \in Seq(Seq(E)) /\ Len(more) = Len(files) + 1 /\ \A f \in 1 .. Len(files) : more[f] = files[f]
  OBVIOUS
<1>2. /\ first[1] = 0
      /\ \A f \in 1 .. Len(files) : first[f + 1] = first[f] + RecordsIn(files[f]) + 1
  BY FirstRecordsAscend
<1>3. /\ then[1] = 0
      /\ \A f \in 1 .. Len(files) + 1 : then[f + 1] = then[f] + RecordsIn(more[f]) + 1
  <2> HIDE DEF more
  <2> QED
    BY <1>1, FirstRecordsAscend
<1> HIDE DEF first, more, then
<1>4. 0 \in S
  BY <1>0, <1>2, <1>3
<1>5. ASSUME NEW n \in 1 .. Len(files), n - 1 \in S PROVE n \in S
  <2>1. then[n] = first[n]
    BY <1>5
  <2> QED
    BY <1>0, <1>1, <1>2, <1>3, <2>1
<1>6. \A n \in 0 .. Len(files) : n \in S
  <2> HIDE DEF S
  <2> QED
    BY <1>0, <1>4, <1>5, UpTo
<1>7. \A f \in 1 .. Len(files) + 1 : f - 1 \in 0 .. Len(files) /\ f - 1 + 1 = f
  BY <1>0
<1> QED
  BY <1>6, <1>7 DEF first, then, more

(* A record and a block within it, as a number of blocks.                  *)
Location(r) == r.record * RecordSize + r.block

LEMMA PlaceOfTotal ==
  ASSUME NEW total \in Nat
  PROVE  /\ RecordOf(total) \in Nat /\ BlockOf(total) \in 0 .. RecordSize - 1
         /\ RecordOf(total) * RecordSize + BlockOf(total) = total
<1>1. /\ RecordOf(total) \in Nat
      /\ RecordOf(total) * RecordSize <= total
      /\ total < RecordOf(total) * RecordSize + RecordSize
  BY UnitSizes, FloorOf DEF RecordOf
<1>2. RecordOf(total) * RecordSize \in Nat
  BY <1>1, UnitSizes, ProductNat
<1> HIDE DEF RecordOf
<1> QED
  BY <1>1, <1>2, UnitSizes DEF BlockOf

LEMMA TotalBlocksBounds ==
  ASSUME NEW units \in Nat
  PROVE  /\ TotalBlocks(units) \in Nat
         /\ TotalBlocks(units) * BlockUnits >= units
         /\ TotalBlocks(units) * BlockUnits < units + BlockUnits
BY UnitSizes, CeilOf DEF TotalBlocks

LEMMA TotalBlocksAscend ==
  ASSUME NEW a \in Nat, NEW c \in Nat
  PROVE  /\ a <= c => TotalBlocks(a) <= TotalBlocks(c)
         /\ a + BlockUnits <= c => TotalBlocks(a) < TotalBlocks(c)
<1> DEFINE p == TotalBlocks(a)
           q == TotalBlocks(c)
<1>1. /\ p \in Nat /\ p * BlockUnits >= a /\ p * BlockUnits < a + BlockUnits
      /\ q \in Nat /\ q * BlockUnits >= c
  BY TotalBlocksBounds
<1> HIDE DEF p, q
<1>2. p * BlockUnits \in Nat /\ q * BlockUnits \in Nat /\ BlockUnits \in Nat \ {0}
  BY <1>1, UnitSizes, ProductNat
<1>3. ASSUME a + BlockUnits <= c PROVE p < q
  <2>1. p * BlockUnits < q * BlockUnits
    BY <1>1, <1>2, <1>3
  <2> QED
    BY <1>1, <1>2, <2>1, ProductMonotone
<1>4. ASSUME a <= c PROVE p <= q
  <2>1. p * BlockUnits < q * BlockUnits + BlockUnits
    BY <1>1, <1>2, <1>4
  <2>2. (q + 1) * BlockUnits = q * BlockUnits + BlockUnits
    BY <1>1, <1>2, ProductDistributes
  <2>3. p < q + 1
    BY <1>1, <1>2, <2>1, <2>2, ProductMonotone
  <2> QED
    BY <1>1, <2>3
<1> QED
  BY <1>3, <1>4 DEF p, q

LEMMA TotalBlocksOfBlocks ==
  ASSUME NEW n \in Nat
  PROVE  n * BlockUnits \in Nat /\ TotalBlocks(n * BlockUnits) = n
<1> DEFINE q == TotalBlocks(n * BlockUnits)
<1>1. n * BlockUnits \in Nat /\ BlockUnits \in Nat \ {0}
  BY UnitSizes, ProductNat
<1>2. q \in Nat /\ q * BlockUnits >= n * BlockUnits /\ q * BlockUnits < n * BlockUnits + BlockUnits
  BY <1>1, TotalBlocksBounds
<1> HIDE DEF q
<1>3. (n + 1) * BlockUnits = n * BlockUnits + BlockUnits /\ (q + 1) * BlockUnits = q * BlockUnits + BlockUnits
  BY <1>1, <1>2, ProductDistributes
<1>4. q * BlockUnits \in Nat
  BY <1>1, <1>2, ProductNat
<1>5. q < n + 1
  BY <1>1, <1>2, <1>3, ProductMonotone
<1>6. n < q + 1
  <2>1. n * BlockUnits < (q + 1) * BlockUnits
    BY <1>1, <1>2, <1>3, <1>4
  <2> QED
    BY <1>1, <1>2, <2>1, ProductMonotone
<1> QED
  BY <1>1, <1>2, <1>5, <1>6 DEF q

(* Where a record and block come after another.                            *)
LEMMA LaterPlace ==
  ASSUME NEW p \in Nat, NEW q \in Nat, NEW c \in 0 .. RecordSize - 1, NEW d \in 0 .. RecordSize - 1,
         p * RecordSize + c < q * RecordSize + d
  PROVE  p < q \/ (p = q /\ c < d)
<1>1. p * RecordSize \in Nat /\ q * RecordSize \in Nat /\ RecordSize \in Nat \ {0}
  BY UnitSizes, ProductNat
<1>2. (q + 1) * RecordSize = q * RecordSize + RecordSize
  BY <1>1, ProductDistributes
<1>3. p < q + 1
  BY <1>1, <1>2, ProductMonotone
<1> QED
  BY <1>1, <1>3

-----------------------------------------------------------------------------
(* The drive and the scan.                                                 *)

DriveOK ==
  /\ isRegular \in BOOLEAN /\ headers \in Seq(HeaderShape)
  /\ medium \in Seq(Seq(Units(Len(headers))))
  /\ isRegular => Len(medium) = 1

Base(file) == IF isRegular THEN 0 ELSE FirstRecord(file) * RecordUnits

LEMMA FileWithType ==
  ASSUME DriveOK, NEW record \in Nat
  PROVE  LET file == FileWith(record)
         IN  /\ file \in 1 .. EndOfData
             /\ isRegular => file = 1
             /\ ~isRegular => /\ FirstRecord(file) <= record
                              /\ file < EndOfData => record < FirstRecord(file + 1)
<1>0. EndOfData \in Nat \ {0} /\ Len(medium) \in Nat
  BY DEF DriveOK, EndOfData
<1>1. CASE isRegular
  BY <1>0, <1>1 DEF FileWith
<1>2. CASE ~isRegular
  <2> DEFINE S == {f \in 1 .. EndOfData : FirstRecord(f) <= record}
  <2>1. /\ FirstRecord(1) = 0 /\ \A f \in 1 .. EndOfData : FirstRecord(f) \in Nat
    BY FirstRecordsAscend DEF DriveOK, FirstRecord, EndOfData
  <2>2. S \in SUBSET Nat /\ 1 \in S /\ \A f \in S : f <= EndOfData
    BY <1>0, <2>1
  <2>3. \E m \in S : \A f \in S : f <= m
    <3> HIDE DEF S
    <3> QED
      BY <1>0, <2>2, GreatestNatural
  <2>4. FileWith(record) = CHOOSE m \in S : \A f \in S : m >= f
    BY <1>2 DEF FileWith, Max
  <2>5. FileWith(record) \in S /\ \A f \in S : f <= FileWith(record)
    <3> HIDE DEF S
    <3>1. \E m \in S : \A f \in S : m >= f
      BY <2>2, <2>3
    <3>2. FileWith(record) \in S /\ \A f \in S : FileWith(record) >= f
      BY <2>4, <3>1
    <3> QED
      BY <2>2, <3>2
  <2> DEFINE file == FileWith(record)
  <2> HIDE DEF FileWith
  <2>6. ASSUME file < EndOfData PROVE record < FirstRecord(file + 1)
    <3>1. file + 1 \in 1 .. EndOfData /\ ~(file + 1 <= file)
      BY <1>0, <2>5, <2>6
    <3> QED
      BY <2>1, <2>5, <3>1
  <2> QED
    BY <1>2, <2>5, <2>6
<1> QED
  BY <1>1, <1>2 DEF DriveOK

LEMMA BaseType ==
  ASSUME DriveOK, NEW file \in 1 .. EndOfData
  PROVE  Base(file) \in Nat
<1>1. FirstRecord(file) \in Nat
  BY FirstRecordsAscend DEF DriveOK, FirstRecord, EndOfData
<1> QED
  BY <1>1, UnitSizes, ProductNat DEF Base

(* A scan starts exactly where its record and block are.                   *)
LEMMA OffsetOfPlace ==
  ASSUME DriveOK, NEW record \in Nat, NEW block \in 0 .. RecordSize - 1
  PROVE  LET file == FileWith(record)
         IN  /\ OffsetIn(file, record, block) \in Nat
             /\ Base(file) + OffsetIn(file, record, block) = (record * RecordSize + block) * BlockUnits
<1> DEFINE file == FileWith(record)
           first == IF isRegular THEN 0 ELSE FirstRecord(file)
<1>1. first \in Nat /\ first <= record
  <2>1. CASE isRegular
    BY <2>1
  <2>2. CASE ~isRegular
    <3>1. file \in 1 .. EndOfData /\ FirstRecord(file) <= record
      BY <2>2, FileWithType
    <3> HIDE DEF file
    <3>2. FirstRecord(file) \in Nat
      BY <3>1, FirstRecordsAscend DEF DriveOK, FirstRecord, EndOfData
    <3> QED
      BY <2>2, <3>1, <3>2
  <2> QED
    BY <2>1, <2>2
<1>2. Base(file) = first * RecordUnits
  <2>1. 0 * RecordUnits = 0
    BY UnitSizes
  <2> QED
    BY <2>1 DEF Base
<1>3. OffsetIn(file, record, block) = ((record - first) * RecordSize + block) * BlockUnits
  BY DEF OffsetIn
<1> HIDE DEF first, file
<1>4. /\ record - first \in Nat /\ RecordSize \in Nat /\ BlockUnits \in Nat /\ block \in Nat
      /\ first * RecordSize \in Nat /\ record * RecordSize \in Nat
      /\ (record - first) * RecordSize \in Nat
      /\ (record - first) * RecordSize = record * RecordSize - first * RecordSize
  <2>1. record - first \in Nat /\ RecordSize \in Nat /\ BlockUnits \in Nat /\ block \in Nat
    BY <1>1, UnitSizes
  <2>2. (record - first) * RecordSize = record * RecordSize - first * RecordSize
    BY <1>1, <2>1, ProductDistributes
  <2> QED
    BY <1>1, <2>1, <2>2, ProductNat
<1>5. OffsetIn(file, record, block) \in Nat
  <2>1. (record - first) * RecordSize + block \in Nat
    BY <1>4
  <2> QED
    BY <1>3, <1>4, <2>1, ProductNat
<1>6. first * RecordUnits = (first * RecordSize) * BlockUnits
  BY <1>1, <1>4 DEF RecordUnits
<1>7. (first * RecordSize) * BlockUnits + ((record - first) * RecordSize + block) * BlockUnits
        = (first * RecordSize + ((record - first) * RecordSize + block)) * BlockUnits
  BY <1>4, ProductDistributes
<1>8. first * RecordSize + ((record - first) * RecordSize + block) = record * RecordSize + block
  BY <1>4
<1> QED
  BY <1>2, <1>3, <1>5, <1>6, <1>7, <1>8 DEF file

(* What is in a file of a tape ends before the first record of the next.   *)
LEMMA FileEnds ==
  ASSUME DriveOK, ~isRegular, NEW file \in 1 .. EndOfData, NEW at \in Nat,
         0 < at, at <= Len(UnitsOf(file))
  PROVE  /\ file < EndOfData
         /\ Base(file) + at <= FirstRecord(file + 1) * RecordUnits
<1>0. Len(medium) \in Nat /\ EndOfData = Len(medium) + 1
  BY DEF DriveOK, EndOfData
<1>1. file \in 1 .. Len(medium) /\ UnitsOf(file) = medium[file]
  <2>1. file \in DOMAIN medium
    BY DEF UnitsOf
  <2> QED
    BY <2>1 DEF DriveOK, UnitsOf
<1> DEFINE units == medium[file]
           before == FirstRecord(file)
           after == FirstRecord(file + 1)
           n == RecordsIn(units)
<1>2. units \in Seq(Units(Len(headers)))
  BY <1>1 DEF DriveOK
<1>3. n \in Nat /\ Len(units) <= n * RecordUnits /\ Len(units) \in Nat
  BY <1>2, RecordsInType
<1>4. before \in Nat /\ after = before + n + 1
  BY <1>0, <1>1, FirstRecordsAscend DEF DriveOK, FirstRecord
<1> HIDE DEF units, before, after, n
<1>5. after * RecordUnits = before * RecordUnits + (n + 1) * RecordUnits
  <2>1. after = before + (n + 1) /\ n + 1 \in Nat
    BY <1>3, <1>4
  <2> QED
    BY <1>3, <1>4, <2>1, UnitSizes, ProductDistributes
<1>6. (n + 1) * RecordUnits = n * RecordUnits + RecordUnits
  BY <1>3, UnitSizes, ProductDistributes
<1>7. before * RecordUnits \in Nat /\ n * RecordUnits \in Nat /\ RecordUnits \in Nat
  BY <1>3, <1>4, UnitSizes, ProductNat
<1>8. Base(file) = before * RecordUnits
  BY DEF Base, before
<1>9. at <= n * RecordUnits
  BY <1>1, <1>3, <1>7 DEF units
<1>10. before * RecordUnits + at <= before * RecordUnits + (n * RecordUnits + RecordUnits)
  BY <1>7, <1>9
<1> QED
  BY <1>0, <1>1, <1>5, <1>6, <1>8, <1>10 DEF after

(* So is the record a header in it is indexed with.                        *)
LEMMA RecordInFile ==
  ASSUME DriveOK, ~isRegular, NEW file \in 1 .. EndOfData, NEW at \in Nat,
         at + BlockUnits <= Len(UnitsOf(file)),
         NEW record \in Nat, NEW block \in 0 .. RecordSize - 1,
         record * RecordSize + block = TotalBlocks(Base(file) + at)
  PROVE  record < FirstRecord(EndOfData)
<1> DEFINE total == TotalBlocks(Base(file) + at)
           after == FirstRecord(file + 1)
<1>0. Len(medium) \in Nat /\ EndOfData = Len(medium) + 1 /\ Base(file) \in Nat /\ BlockUnits \in Nat \ {0}
  BY BaseType, UnitSizes DEF DriveOK, EndOfData
<1>1. file < EndOfData /\ Base(file) + (at + BlockUnits) <= after * RecordUnits
  <2>1. at + BlockUnits \in Nat /\ 0 < at + BlockUnits
    BY <1>0
  <2> QED
    BY <2>1, FileEnds
<1>2. after \in Nat /\ after <= FirstRecord(EndOfData) /\ FirstRecord(EndOfData) \in Nat
  <2>1. file + 1 \in 1 .. EndOfData /\ EndOfData \in 1 .. EndOfData
    BY <1>0, <1>1
  <2>2. /\ FirstRecord(file + 1) \in Nat /\ FirstRecord(EndOfData) \in Nat
        /\ file + 1 < EndOfData => FirstRecord(file + 1) < FirstRecord(EndOfData)
    BY <2>1, FirstRecordsAscend DEF DriveOK, FirstRecord, EndOfData
  <2> QED
    BY <1>0, <2>1, <2>2
<1>3. total \in Nat /\ total * BlockUnits < (Base(file) + at) + BlockUnits
  <2>1. Base(file) + at \in Nat
    BY <1>0
  <2> QED
    BY <2>1, TotalBlocksBounds
<1>4. record * RecordSize \in Nat /\ record * RecordSize <= total
  <2>1. record * RecordSize \in Nat
    BY UnitSizes, ProductNat
  <2> QED
    BY <2>1, UnitSizes
<1> HIDE DEF total, after
<1>5. (record * RecordSize) * BlockUnits <= total * BlockUnits
  BY <1>0, <1>3, <1>4, ProductMonotone
<1>6. record * RecordUnits = (record * RecordSize) * BlockUnits
  BY UnitSizes DEF RecordUnits
<1>7. record * RecordUnits < after * RecordUnits
  <2>1. total * BlockUnits \in Nat /\ after * RecordUnits \in Nat /\ record * RecordUnits \in Nat
    BY <1>0, <1>2, <1>3, UnitSizes, ProductNat
  <2>2. record * RecordUnits <= total * BlockUnits
    BY <1>5, <1>6
  <2>3. total * BlockUnits < after * RecordUnits
    BY <1>0, <1>1, <1>3, <2>1
  <2> HIDE DEF Base
  <2> QED
    BY <2>1, <2>2, <2>3
<1>8. record < after
  BY <1>2, <1>7, UnitSizes, ProductMonotone
<1> QED
  BY <1>2, <1>8

-----------------------------------------------------------------------------
(* The inductive invariant.                                                *)

Row == [id : Int, record : Nat, block : 0 .. RecordSize - 1]

Scanning ==
  [pc : {"next", "resync", "mark", "done", "failed"}, by : {"operation", "recovery", "query"},
   offset : Nat, from : Nat, i : Nat, record : Nat, block : 0 .. RecordSize - 1,
   file : Nat, at : Nat, pad : Nat, counter : Nat, counts : BOOLEAN]

(* A scan is in a file of the drive, or behind the last.                   *)
ScanOnDrive ==
  scan # Idle =>
    /\ scan.file \in 1 .. EndOfData
    /\ isRegular => scan.file = 1
    /\ ~isRegular => scan.pc \notin {"resync", "mark"}
    /\ scan.pad > 0 => scan.at <= Len(UnitsOf(scan.file))
    /\ scan.pc \in {"resync", "mark"} => scan.pad = 0

RowsAscend ==
  \A i, j \in DOMAIN index : i < j => Location(index[i]) < Location(index[j])

RowsOnDrive ==
  ~isRegular => \A i \in DOMAIN index : index[i].record < FirstRecord(EndOfData)

(* Where the scan is, as a number of blocks on the drive.                  *)
Where == TotalBlocks(Base(scan.file) + scan.at)

Indexing == scan # Idle /\ scan.by # "query" /\ scan.pc \in {"next", "resync", "mark"}

(* While Index goes on, it knows where it is.                              *)
IndexCounts ==
  Indexing =>
    /\ scan.pc = "next" => Location(scan) = Where
    /\ ~isRegular =>
         /\ scan.counts /\ scan.counter = Base(scan.file) + scan.at
         /\ scan.file < EndOfData =>
              Base(scan.file) + scan.at <= FirstRecord(scan.file + 1) * RecordUnits

(* ... and what is indexed is behind it, but for the header it ignores.    *)
RowsBehind ==
  Indexing =>
    \A i \in DOMAIN index :
      /\ Location(index[i]) <= Where
      /\ scan.i >= scan.offset => Location(index[i]) < Where

BlocksInv ==
  /\ DriveOK /\ index \in Seq(Row) /\ scan \in Scanning \cup {Idle}
  /\ ScanOnDrive /\ RowsAscend /\ RowsOnDrive /\ IndexCounts /\ RowsBehind

LEMMA InitBlocksInv == Init => BlocksInv
<1> SUFFICES ASSUME Init PROVE BlocksInv
  OBVIOUS
<1>1. DriveOK
  <2>1. CASE Empty
    <3>1. headers = <<>> /\ isRegular \in BOOLEAN
      BY <2>1 DEF Init, Empty
    <3>2. CASE isRegular
      <4>1. medium = <<<<>>>>
        BY <2>1, <3>2 DEF Empty
      <4> QED
        BY <3>1, <3>2, <4>1 DEF DriveOK
    <3>3. CASE ~isRegular
      BY <2>1, <3>1, <3>3 DEF Empty, DriveOK
    <3> QED
      BY <3>2, <3>3
  <2>2. CASE ForeignArchive
    <3>1. PICK h \in HeaderShape, blocks \in Padding :
            headers = <<h>> /\ medium = <<Entry(1, h) \o Zeros(blocks * BlockUnits)>>
      BY <2>2 DEF ForeignArchive
    <3>2. blocks * BlockUnits \in Nat
      BY BlocksAssumption, UnitSizes, ProductNat
    <3>3. Entry(1, h) \o Zeros(blocks * BlockUnits) \in Seq(Units(1))
      BY <3>2, EntryType, ZerosType, ConcatProperties
    <3> HIDE DEF Entry, Zeros
    <3>4. Len(headers) = 1 /\ headers \in Seq(HeaderShape)
      BY <3>1
    <3>5. medium \in Seq(Seq(Units(1))) /\ Len(medium) = 1
      BY <3>1, <3>3
    <3> QED
      BY <3>4, <3>5 DEF DriveOK, Init
  <2> QED
    BY <2>1, <2>2 DEF Init
<1>2. index = <<>> /\ scan = Idle
  BY DEF Init
<1> QED
  BY <1>1, <1>2 DEF BlocksInv, ScanOnDrive, RowsAscend, RowsOnDrive, IndexCounts, RowsBehind, Indexing

-----------------------------------------------------------------------------
(* The start of a scan.                                                    *)

(* The first unit of a block.                                              *)
UnitAt(record, block) == (record * RecordSize + block) * BlockUnits

Started(s, by, offset, record, block) ==
  /\ s \in Scanning /\ s.pc = "next" /\ s.pad = 0 /\ s.by = by /\ s.i = 0 /\ s.offset = offset
  /\ s.record = record /\ s.block = block
  /\ s.file = FileWith(record) /\ s.file \in 1 .. EndOfData /\ (isRegular => s.file = 1)
  /\ Base(s.file) + s.at = UnitAt(record, block)
  /\ s.counts /\ s.counter = Base(s.file) + s.at

LEMMA ScanStarts ==
  ASSUME DriveOK, NEW by \in {"operation", "recovery", "query"}, NEW offset \in Nat, NEW from \in Nat,
         NEW record \in Nat, NEW block \in 0 .. RecordSize - 1
  PROVE  Started(Scan(by, offset, from, record, block), by, offset, record, block)
<1> DEFINE file == FileWith(record)
           place == (record * RecordSize + block) * BlockUnits
<1>1. file \in 1 .. EndOfData /\ (isRegular => file = 1) /\ file \in Nat
  <2>1. file \in 1 .. EndOfData /\ (isRegular => file = 1)
    BY FileWithType
  <2> QED
    BY <2>1 DEF EndOfData, DriveOK
<1>2. OffsetIn(file, record, block) \in Nat /\ Base(file) + OffsetIn(file, record, block) = place
  BY OffsetOfPlace
<1>3. place \in Nat
  <2>1. record * RecordSize \in Nat
    BY UnitSizes, ProductNat
  <2>2. record * RecordSize + block \in Nat
    BY <2>1
  <2> QED
    BY <2>2, UnitSizes, ProductNat
<1>4. Scan(by, offset, from, record, block) =
        [pc |-> "next", by |-> by, offset |-> offset, from |-> from, i |-> 0,
         record |-> record, block |-> block,
         file |-> file, at |-> OffsetIn(file, record, block), pad |-> 0,
         counter |-> place, counts |-> TRUE]
  BY DEF Scan
<1> HIDE DEF file, place
<1> QED
  BY <1>1, <1>2, <1>3, <1>4 DEF Started, Scanning, UnitAt, file, place

LEMMA LocationOfBlock ==
  ASSUME NEW r, r.record \in Nat, r.block \in 0 .. RecordSize - 1
  PROVE  Location(r) \in Nat /\ TotalBlocks(Location(r) * BlockUnits) = Location(r)
<1>1. r.record * RecordSize \in Nat
  BY UnitSizes, ProductNat
<1>2. Location(r) \in Nat
  BY <1>1, UnitSizes DEF Location
<1> QED
  BY <1>2, TotalBlocksOfBlocks

(* The last row is the one that is farthest along the drive.               *)
LEMMA LastIndexedIsLast ==
  ASSUME BlocksInv, index # <<>>
  PROVE  /\ LastIndexed \in Row /\ \E i \in DOMAIN index : LastIndexed = index[i]
         /\ \A i \in DOMAIN index : Location(index[i]) <= Location(LastIndexed)
<1>0. index \in Seq(Row) /\ Len(index) \in Nat /\ DOMAIN index = 1 .. Len(index) /\ Len(index) > 0
  BY DEF BlocksInv
<1>1. \A i \in DOMAIN index : index[i] \in Row /\ Location(index[i]) \in Nat
  <2> TAKE i \in DOMAIN index
  <2>1. index[i] \in Row
    BY <1>0
  <2> QED
    BY <2>1, LocationOfBlock DEF Row
<1>2. \A r : r \in ToSet(index) <=> \E i \in DOMAIN index : r = index[i]
  BY DEF ToSet
<1> DEFINE last == index[Len(index)]
<1>3. last \in ToSet(index) /\ \A s \in ToSet(index) : Location(s) <= Location(last)
  <2>1. Len(index) \in DOMAIN index
    BY <1>0
  <2>2. \A i \in DOMAIN index : Location(index[i]) <= Location(last)
    <3> TAKE i \in DOMAIN index
    <3>1. CASE i = Len(index)
      BY <1>1, <2>1, <3>1
    <3>2. CASE i < Len(index)
      <4>1. Location(index[i]) < Location(last)
        BY <2>1, <3>2 DEF BlocksInv, RowsAscend
      <4> HIDE DEF Location
      <4> QED
        BY <1>1, <2>1, <4>1
    <3> QED
      BY <1>0, <3>1, <3>2
  <2> HIDE DEF last
  <2> QED
    BY <1>2, <2>1, <2>2 DEF last
<1>4. LastIndexed = CHOOSE r \in ToSet(index) : \A s \in ToSet(index) : Location(s) <= Location(r)
  BY DEF LastIndexed, Location
<1>5. /\ LastIndexed \in ToSet(index)
      /\ \A s \in ToSet(index) : Location(s) <= Location(LastIndexed)
  <2> HIDE DEF last
  <2> QED
    BY <1>3, <1>4
<1> HIDE DEF last
<1> QED
  BY <1>1, <1>2, <1>5

(* From the start of the drive.                                            *)
LEMMA ScanFromStart ==
  ASSUME DriveOK, NEW by \in {"operation", "recovery"}, NEW s, s = Scan(by, 0, 0, 0, 0)
  PROVE  /\ s \in Scanning /\ s.pc = "next" /\ s.pad = 0 /\ s.by = by
         /\ s.file = 1 /\ s.at = 0 /\ s.record = 0 /\ s.block = 0 /\ s.counter = 0 /\ s.counts
<1>1. 0 \in 0 .. RecordSize - 1 /\ 0 * RecordSize = 0 /\ 0 * BlockUnits = 0
  BY UnitSizes
<1>2. /\ s \in Scanning /\ s.pc = "next" /\ s.pad = 0 /\ s.by = by
      /\ s.record = 0 /\ s.block = 0
      /\ s.file = FileWith(0) /\ s.file \in 1 .. EndOfData /\ (isRegular => s.file = 1) /\ s.counts
      /\ Base(s.file) + s.at = 0 /\ s.counter = 0
  <2>1. Started(s, by, 0, 0, 0)
    BY <1>1, ScanStarts
  <2>2. UnitAt(0, 0) = 0
    BY <1>1 DEF UnitAt
  <2> QED
    BY <2>1, <2>2 DEF Started
<1>3. s.at \in Nat /\ Base(s.file) \in Nat
  BY <1>2, BaseType DEF Scanning
<1>4. s.file = 1
  <2>1. CASE ~isRegular
    <3>1. FirstRecord(s.file) <= 0
      BY <1>2, <2>1, FileWithType
    <3>2. FirstRecord(1) = 0 /\ (1 < s.file => FirstRecord(1) < FirstRecord(s.file)) /\ FirstRecord(s.file) \in Nat
      BY <1>2, FirstRecordsAscend DEF DriveOK, FirstRecord, EndOfData
    <3>3. s.file \in Nat /\ s.file >= 1
      BY <1>2 DEF DriveOK, EndOfData
    <3> QED
      BY <3>1, <3>2, <3>3
  <2> QED
    BY <1>2, <2>1
<1>5. s.at = 0
  BY <1>2, <1>3
<1> QED
  BY <1>2, <1>4, <1>5

-----------------------------------------------------------------------------
(* Operations and recovery preserve the invariant.                         *)

LEMMA BatchType ==
  ASSUME NEW batch \in Batches
  PROVE  batch \in Seq(HeaderShape)
<1>1. PICK n \in 1 .. MaxBatch : batch \in [1 .. n -> HeaderShape]
  BY DEF Batches
<1>2. n \in Nat
  BY BlocksAssumption
<1> QED
  BY <1>1, <1>2

(* A drive that was cleared or is read again from its start.               *)
LEMMA RestartKeepsInv ==
  ASSUME DriveOK, DriveOK', index' = <<>>, NEW by \in {"operation", "recovery"},
         scan' = Scan(by, 0, 0, 0, 0)
  PROVE  BlocksInv'
<1>1. /\ scan' \in Scanning /\ scan'.pc = "next" /\ scan'.pad = 0 /\ scan'.by = by
      /\ scan'.file = 1 /\ scan'.at = 0 /\ scan'.record = 0 /\ scan'.block = 0
      /\ scan'.counter = 0 /\ scan'.counts
  BY ScanFromStart
<1>2. EndOfData' \in Nat \ {0} /\ EndOfData' = Len(medium') + 1
  BY DEF DriveOK, EndOfData
<1>3. Base(1)' = 0
  <2>1. FirstRecords(medium')[1] = 0
    BY FirstRecordsAscend DEF DriveOK
  <2>2. 0 * RecordUnits = 0
    BY UnitSizes
  <2> QED
    BY <2>1, <2>2 DEF Base, FirstRecord
<1>4. Where' = 0
  <2>1. 0 * BlockUnits = 0 /\ 0 + 0 = 0
    BY UnitSizes
  <2>2. TotalBlocks(0) = 0
    BY <2>1, TotalBlocksOfBlocks
  <2>3. Base(scan.file)' = 0
    BY <1>1, <1>3
  <2> QED
    BY <1>1, <2>1, <2>2, <2>3 DEF Where
<1>5. Location(scan') = 0
  <2>1. 0 * RecordSize = 0
    BY UnitSizes
  <2> QED
    BY <1>1, <2>1 DEF Location
<1>6. 1 < EndOfData' => FirstRecord(2)' * RecordUnits \in Nat
  <2> SUFFICES ASSUME 1 < EndOfData' PROVE FirstRecord(2)' * RecordUnits \in Nat
    OBVIOUS
  <2>1. 2 \in 1 .. Len(medium') + 1
    BY <1>2
  <2>2. FirstRecords(medium')[2] \in Nat
    BY <2>1, FirstRecordsAscend DEF DriveOK
  <2> QED
    BY <2>2, UnitSizes, ProductNat DEF FirstRecord
<1>7. ScanOnDrive'
  BY <1>1, <1>2 DEF ScanOnDrive
<1>8. IndexCounts'
  <2>1. Location(scan)' = Location(scan')
    BY DEF Location
  <2>2. Base(scan.file)' = 0
    BY <1>1, <1>3
  <2>3. scan'.file + 1 = 2
    BY <1>1
  <2> QED
    BY <1>1, <1>4, <1>5, <1>6, <2>1, <2>2, <2>3 DEF IndexCounts
<1>9. RowsAscend' /\ RowsOnDrive' /\ RowsBehind' /\ (index \in Seq(Row))'
  BY DEF RowsAscend, RowsOnDrive, RowsBehind
<1> QED
  BY <1>1, <1>7, <1>8, <1>9 DEF BlocksInv

LEMMA OverwriteKeepsInv ==
  ASSUME BlocksInv, NEW batch \in Batches, Overwrite(batch)
  PROVE  BlocksInv'
<1>1. batch \in Seq(HeaderShape) /\ headers' = batch /\ Len(batch) \in Nat
  BY BatchType DEF Overwrite
<1>2. Archive(isRegular, 1, batch) \in Seq(Units(Len(batch)))
  <2>1. 1 + Len(batch) <= Len(batch) + 1
    BY <1>1
  <2> QED
    BY <1>1, <2>1, ArchiveType
<1>3. medium' = <<Archive(isRegular, 1, batch)>> /\ isRegular' = isRegular
  BY DEF Overwrite
<1>4. DriveOK'
  <2> HIDE DEF Archive
  <2> QED
    BY <1>1, <1>2, <1>3 DEF DriveOK, BlocksInv
<1>5. index' = <<>> /\ scan' = Scan("operation", 0, 0, 0, 0)
  BY DEF Overwrite
<1> QED
  BY <1>4, <1>5, RestartKeepsInv DEF BlocksInv

LEMMA RecoveryIndexKeepsInv ==
  ASSUME BlocksInv, RecoveryIndex
  PROVE  BlocksInv'
<1>1. DriveOK'
  BY DEF RecoveryIndex, drive, BlocksInv, DriveOK
<1>2. index' = <<>> /\ scan' = Scan("recovery", 0, 0, 0, 0)
  BY DEF RecoveryIndex
<1> QED
  BY <1>1, <1>2, RestartKeepsInv DEF BlocksInv

(* What is appended leaves everything before it where it is.               *)
LEMMA DriveGrows ==
  ASSUME DriveOK, NEW batch \in Seq(HeaderShape), headers' = headers \o batch,
         NEW out \in Seq(Units(Len(headers'))), medium' = Appended(out), isRegular' = isRegular
  PROVE  /\ DriveOK' /\ EndOfData \in Nat /\ EndOfData' \in Nat /\ EndOfData <= EndOfData'
         /\ ~isRegular => \A f \in 1 .. EndOfData : FirstRecord(f)' = FirstRecord(f)
         /\ isRegular => EndOfData' = EndOfData
<1> DEFINE n == Len(headers')
<1>1. /\ headers' \in Seq(HeaderShape) /\ Len(headers) \in Nat /\ n \in Nat /\ Len(headers) <= n
  <2>1. headers' \in Seq(HeaderShape) /\ Len(headers') = Len(headers) + Len(batch)
    BY ConcatProperties DEF DriveOK
  <2> QED
    BY <2>1 DEF DriveOK
<1>2. medium \in Seq(Seq(Units(n)))
  <2>1. Seq(Units(Len(headers))) \subseteq Seq(Units(n))
    BY <1>1, UnitsMonotone
  <2> HIDE DEF n
  <2> QED
    BY <2>1, SeqMonotonic DEF DriveOK
<1> HIDE DEF n
<1>3. CASE isRegular
  <2>1. medium' = <<medium[1] \o out>> /\ Len(medium) = 1
    BY <1>3 DEF Appended, DriveOK
  <2>2. medium[1] \in Seq(Units(n))
    <3>1. 1 \in 1 .. Len(medium)
      BY <2>1
    <3> QED
      BY <1>2, <3>1, ElementOfSeq
  <2>3. medium[1] \o out \in Seq(Units(n))
    BY <2>2, ConcatProperties DEF n
  <2>4. medium' \in Seq(Seq(Units(n))) /\ Len(medium') = 1
    BY <2>1, <2>3
  <2> QED
    BY <1>1, <1>3, <2>1, <2>4 DEF DriveOK, EndOfData, n
<1>4. CASE ~isRegular /\ out = <<>>
  <2>1. medium' = medium
    BY <1>4 DEF Appended
  <2> QED
    BY <1>1, <1>2, <1>4, <2>1 DEF DriveOK, EndOfData, FirstRecord, n
<1>5. CASE ~isRegular /\ out # <<>>
  <2>1. medium' = Append(medium, out)
    BY <1>5 DEF Appended
  <2>2. medium' \in Seq(Seq(Units(n))) /\ Len(medium') = Len(medium) + 1
    BY <1>2, <2>1 DEF n
  <2>3. \A f \in 1 .. Len(medium) + 1 : FirstRecords(medium')[f] = FirstRecords(medium)[f]
    BY <1>2, <2>1, FirstRecordsAppend DEF n
  <2> QED
    BY <1>1, <1>5, <2>2, <2>3 DEF DriveOK, EndOfData, FirstRecord, n
<1> QED
  BY <1>3, <1>4, <1>5 DEF DriveOK

(* ... the rows of the index too.                                          *)
LEMMA RowsStayOnDrive ==
  ASSUME BlocksInv, DriveOK', isRegular' = isRegular, index' = index,
         EndOfData <= EndOfData',
         ~isRegular => \A f \in 1 .. EndOfData : FirstRecord(f)' = FirstRecord(f)
  PROVE  RowsOnDrive' /\ RowsAscend' /\ (index \in Seq(Row))'
<1>1. RowsAscend' /\ (index \in Seq(Row))'
  BY DEF BlocksInv, RowsAscend
<1>2. ASSUME ~isRegular, NEW i \in DOMAIN index
      PROVE  index[i].record < FirstRecords(medium')[EndOfData']
  <2>1. index[i].record < FirstRecords(medium)[EndOfData] /\ index[i].record \in Nat
    <3>1. index[i] \in Row
      BY <1>2 DEF BlocksInv
    <3>2. index[i].record < FirstRecord(EndOfData)
      BY <1>2 DEF BlocksInv, RowsOnDrive
    <3> QED
      BY <3>1, <3>2 DEF Row, FirstRecord
  <2>2. EndOfData \in 1 .. EndOfData /\ EndOfData \in 1 .. EndOfData' /\ EndOfData' \in 1 .. EndOfData'
    BY DEF BlocksInv, DriveOK, EndOfData
  <2>3. FirstRecords(medium')[EndOfData] = FirstRecords(medium)[EndOfData]
    BY <1>2, <2>2 DEF FirstRecord
  <2>4. /\ FirstRecords(medium')[EndOfData] \in Nat /\ FirstRecords(medium')[EndOfData'] \in Nat
        /\ EndOfData < EndOfData' =>
             FirstRecords(medium')[EndOfData] < FirstRecords(medium')[EndOfData']
    <3>1. EndOfData' = Len(medium') + 1
      BY DEF EndOfData
    <3> HIDE DEF EndOfData
    <3> QED
      BY <2>2, <3>1, FirstRecordsAscend DEF DriveOK
  <2>5. EndOfData \in Nat /\ EndOfData' \in Nat
    BY DEF BlocksInv, DriveOK, EndOfData
  <2> HIDE DEF EndOfData
  <2> QED
    BY <2>1, <2>3, <2>4, <2>5
<1> QED
  BY <1>1, <1>2 DEF RowsOnDrive, FirstRecord

LEMMA PlaceInRecord ==
  ASSUME NEW record \in Nat, NEW block \in 0 .. RecordSize - 1, NEW next \in Nat, record < next
  PROVE  (record * RecordSize + block) * BlockUnits <= next * RecordUnits
<1>1. RecordSize \in Nat /\ BlockUnits \in Nat \ {0} /\ record * RecordSize \in Nat /\ next * RecordSize \in Nat
  BY UnitSizes, ProductNat
<1>2. (record + 1) * RecordSize <= next * RecordSize
  BY UnitSizes, ProductMonotone
<1>3. (record + 1) * RecordSize = record * RecordSize + RecordSize
  <2>1. 1 * RecordSize = RecordSize
    BY <1>1
  <2> QED
    BY <1>1, <2>1, ProductDistributes
<1>4. record * RecordSize + block \in Nat /\ record * RecordSize + block <= next * RecordSize
  BY <1>1, <1>2, <1>3
<1>5. (record * RecordSize + block) * BlockUnits <= (next * RecordSize) * BlockUnits
  BY <1>1, <1>4, ProductMonotone
<1>6. next * RecordUnits = (next * RecordSize) * BlockUnits
  BY UnitSizes DEF RecordUnits
<1> QED
  BY <1>5, <1>6

LEMMA OperationKeepsInv ==
  ASSUME BlocksInv, NEW batch \in Batches, Operation(batch)
  PROVE  BlocksInv'
<1> DEFINE last == LastIndexed
           s == Scan("operation", 1, Len(headers), last.record, last.block)
<1>1. /\ last \in Row /\ Location(last) \in Nat
      /\ \A i \in DOMAIN index : Location(index[i]) <= Location(last)
      /\ ~isRegular => last.record < FirstRecord(EndOfData)
  <2>1. index # <<>>
    BY DEF Operation
  <2>2. /\ last \in Row /\ \E i \in DOMAIN index : last = index[i]
        /\ \A i \in DOMAIN index : Location(index[i]) <= Location(last)
    BY <2>1, LastIndexedIsLast
  <2>3. ~isRegular => last.record < FirstRecord(EndOfData)
    BY <2>2 DEF BlocksInv, RowsOnDrive
  <2> HIDE DEF last
  <2> QED
    BY <2>2, <2>3, LocationOfBlock DEF Row
<1>2. /\ batch \in Seq(HeaderShape) /\ headers' = headers \o batch /\ isRegular' = isRegular
      /\ medium' = Appended(Archive(isRegular, Len(headers) + 1, batch))
      /\ index' = index /\ scan' = s
  BY BatchType DEF Operation, Extend, IndexFromLast
<1>3. Archive(isRegular, Len(headers) + 1, batch) \in Seq(Units(Len(headers')))
  <2>1. headers \in Seq(HeaderShape) /\ Len(headers) \in Nat /\ Len(batch) \in Nat
    BY <1>2 DEF BlocksInv, DriveOK
  <2>2. Len(headers') = Len(headers) + Len(batch)
    BY <1>2, <2>1, ConcatProperties
  <2> HIDE DEF s
  <2> QED
    BY <1>2, <2>1, <2>2, ArchiveType
<1>4. /\ DriveOK' /\ EndOfData \in Nat /\ EndOfData' \in Nat /\ EndOfData <= EndOfData'
      /\ ~isRegular => \A f \in 1 .. EndOfData : FirstRecord(f)' = FirstRecord(f)
      /\ isRegular => EndOfData' = EndOfData
  BY <1>2, <1>3, DriveGrows DEF BlocksInv
<1>5. RowsOnDrive' /\ RowsAscend' /\ (index \in Seq(Row))'
  BY <1>2, <1>4, RowsStayOnDrive
<1> HIDE DEF last
<1>6. /\ s \in Scanning /\ s.pc = "next" /\ s.pad = 0 /\ s.by = "operation" /\ s.i = 0 /\ s.offset = 1
      /\ s.record = last.record /\ s.block = last.block
      /\ s.file = FileWith(last.record) /\ s.file \in 1 .. EndOfData /\ (isRegular => s.file = 1) /\ s.counts
      /\ Base(s.file) + s.at = UnitAt(last.record, last.block)
      /\ s.counter = Base(s.file) + s.at
  <2>1. last.record \in Nat /\ last.block \in 0 .. RecordSize - 1 /\ 1 \in Nat /\ Len(headers) \in Nat
    BY <1>1 DEF Row, BlocksInv, DriveOK
  <2>2. Started(s, "operation", 1, last.record, last.block)
    BY <2>1, ScanStarts DEF BlocksInv
  <2> HIDE DEF s
  <2> QED
    BY <2>2 DEF Started
<1> HIDE DEF s
<1>7. Base(scan.file)' = Base(s.file)
  BY <1>2, <1>4, <1>6 DEF Base
<1>8. Where' = Location(last) /\ Location(scan)' = Location(last)
  <2>1. Base(s.file) + s.at = Location(last) * BlockUnits
    BY <1>6 DEF Location, UnitAt
  <2>2. Where' = TotalBlocks(Base(s.file) + s.at)
    BY <1>2, <1>7 DEF Where
  <2>3. TotalBlocks(Location(last) * BlockUnits) = Location(last)
    BY <1>1, LocationOfBlock DEF Row
  <2>4. Location(scan)' = Location(last)
    BY <1>2, <1>6 DEF Location
  <2> QED
    BY <2>1, <2>2, <2>3, <2>4
<1>9. ~isRegular => Base(s.file) + s.at <= FirstRecords(medium')[s.file + 1] * RecordUnits
  <2> SUFFICES ASSUME ~isRegular
               PROVE  Base(s.file) + s.at <= FirstRecords(medium')[s.file + 1] * RecordUnits
    OBVIOUS
  <2>1. FirstRecord(s.file) <= last.record /\ (s.file < EndOfData => last.record < FirstRecord(s.file + 1))
    BY <1>1, <1>6, FileWithType DEF BlocksInv, Row
  <2>2. FirstRecord(s.file) \in Nat
    BY <1>6, FirstRecordsAscend DEF BlocksInv, DriveOK, FirstRecord, EndOfData
  <2>3. last.record \in Nat /\ last.block \in 0 .. RecordSize - 1
    BY <1>1 DEF Row
  <2>4. s.file < EndOfData
    BY <1>1, <1>4, <1>6, <2>1, <2>2, <2>3
  <2>5. s.file + 1 \in 1 .. EndOfData
    BY <1>4, <1>6, <2>4
  <2>6. FirstRecord(s.file + 1) \in Nat
    BY <2>5, FirstRecordsAscend DEF BlocksInv, DriveOK, FirstRecord, EndOfData
  <2>7. FirstRecords(medium')[s.file + 1] = FirstRecord(s.file + 1)
    BY <1>4, <2>5 DEF FirstRecord
  <2> QED
    BY <1>6, <2>1, <2>3, <2>4, <2>6, <2>7, PlaceInRecord DEF UnitAt
<1>10. ScanOnDrive'
  <2>1. s.file \in 1 .. EndOfData'
    BY <1>4, <1>6
  <2> QED
    BY <1>2, <1>6, <2>1 DEF ScanOnDrive
<1>11. IndexCounts'
  BY <1>2, <1>6, <1>7, <1>8, <1>9 DEF IndexCounts, FirstRecord
<1>12. RowsBehind'
  <2>1. \A i \in DOMAIN index : Location(index[i]) <= Location(last)
    BY <1>1
  <2> QED
    BY <1>2, <1>6, <1>8, <2>1 DEF RowsBehind, Location
<1> QED
  BY <1>2, <1>4, <1>5, <1>6, <1>10, <1>11, <1>12 DEF BlocksInv

LEMMA TearKeepsInv ==
  ASSUME BlocksInv, NEW batch \in Batches, Tear(batch)
  PROVE  BlocksInv'
<1> DEFINE out == Archive(isRegular, Len(headers) + 1, batch)
<1>1. batch \in Seq(HeaderShape) /\ headers' = headers \o batch /\ isRegular' = isRegular
      /\ index' = index /\ scan = Idle /\ scan' = scan
  BY BatchType DEF Tear, Extend
<1>2. out \in Seq(Units(Len(headers')))
  <2>1. headers \in Seq(HeaderShape) /\ Len(headers) \in Nat /\ Len(batch) \in Nat
    BY <1>1 DEF BlocksInv, DriveOK
  <2>2. Len(headers') = Len(headers) + Len(batch)
    BY <1>1, <2>1, ConcatProperties
  <2> QED
    BY <1>1, <2>1, <2>2, ArchiveType
<1>3. PICK n \in TearPoints(isRegular, out) : medium' = Appended(SubSeq(out, 1, n))
  BY DEF Tear
<1>4. SubSeq(out, 1, n) \in Seq(Units(Len(headers')))
  <2> HIDE DEF out
  <2>1. n \in 0 .. Len(out)
    BY <1>3 DEF TearPoints
  <2>2. \A u \in 1 .. n : out[u] \in Units(Len(headers'))
    BY <1>2, <2>1, ElementOfSeq
  <2> QED
    BY <1>2, <2>1, <2>2, SubSeqProperties
<1>5. /\ DriveOK' /\ EndOfData <= EndOfData'
      /\ ~isRegular => \A f \in 1 .. EndOfData : FirstRecord(f)' = FirstRecord(f)
  <2> HIDE DEF out
  <2> QED
    BY <1>1, <1>3, <1>4, DriveGrows DEF BlocksInv
<1>6. RowsOnDrive' /\ RowsAscend' /\ (index \in Seq(Row))'
  BY <1>1, <1>5, RowsStayOnDrive
<1> QED
  BY <1>1, <1>5, <1>6 DEF BlocksInv, ScanOnDrive, IndexCounts, RowsBehind, Indexing

LEMMA QueryKeepsInv ==
  ASSUME BlocksInv, NEW row \in ToSet(index), Query(row)
  PROVE  BlocksInv'
<1>1. row \in Row
  BY DEF BlocksInv, ToSet
<1> DEFINE s == Scan("query", 0, 0, row.record, row.block)
<1>2. scan' = s /\ isRegular' = isRegular /\ medium' = medium /\ headers' = headers /\ index' = index
  BY DEF Query, drive
<1>3. /\ s \in Scanning /\ s.pc = "next" /\ s.pad = 0 /\ s.by = "query"
      /\ s.file \in 1 .. EndOfData /\ (isRegular => s.file = 1)
  <2>1. row.record \in Nat /\ row.block \in 0 .. RecordSize - 1 /\ 0 \in Nat /\ DriveOK
    BY <1>1 DEF Row, BlocksInv
  <2>2. Started(s, "query", 0, row.record, row.block)
    BY <2>1, ScanStarts
  <2> HIDE DEF s
  <2> QED
    BY <2>2 DEF Started
<1> HIDE DEF s
<1>4. ScanOnDrive'
  BY <1>2, <1>3 DEF ScanOnDrive, EndOfData
<1>5. DriveOK' /\ RowsOnDrive' /\ RowsAscend' /\ (index \in Seq(Row))'
  BY <1>2 DEF BlocksInv, DriveOK, RowsOnDrive, RowsAscend, FirstRecord, EndOfData
<1> QED
  BY <1>2, <1>3, <1>4, <1>5 DEF BlocksInv, IndexCounts, RowsBehind, Indexing

-----------------------------------------------------------------------------
(* Steps of a scan preserve the invariant, and take it further.            *)

(* What depends on the drive alone.                                        *)
LEMMA DriveStays ==
  ASSUME UNCHANGED drive
  PROVE  /\ EndOfData' = EndOfData
         /\ \A f : Base(f)' = Base(f) /\ FirstRecord(f)' = FirstRecord(f) /\ UnitsOf(f)' = UnitsOf(f)
         /\ DriveOK => DriveOK'
BY DEF drive, EndOfData, Base, FirstRecord, UnitsOf, DriveOK

LEMMA Position ==
  ASSUME BlocksInv, scan # Idle
  PROVE  /\ scan \in Scanning /\ scan.file \in 1 .. EndOfData
         /\ scan.at \in Nat /\ Base(scan.file) \in Nat /\ Base(scan.file) + scan.at \in Nat
         /\ Where \in Nat
<1>1. scan \in Scanning /\ scan.file \in 1 .. EndOfData /\ scan.at \in Nat
  BY DEF BlocksInv, ScanOnDrive, Scanning
<1>2. Base(scan.file) \in Nat
  BY <1>1, BaseType DEF BlocksInv
<1>3. Base(scan.file) + scan.at \in Nat
  BY <1>1, <1>2
<1> QED
  BY <1>1, <1>2, <1>3, TotalBlocksBounds DEF Where

(* A header that is indexed where the scan is.                             *)
LEMMA RowIndexed ==
  ASSUME BlocksInv, UNCHANGED drive, Indexing, scan.i >= scan.offset,
         NEW row \in Row, index' = index \o <<row>>, Location(row) = Where,
         ~isRegular => row.record < FirstRecord(EndOfData)
  PROVE  /\ (index \in Seq(Row))' /\ RowsAscend' /\ RowsOnDrive'
         /\ \A k \in DOMAIN index' : Location(index'[k]) <= Where
<1> DEFINE n == Len(index)
<1>1. /\ index \in Seq(Row) /\ n \in Nat /\ index' \in Seq(Row)
      /\ DOMAIN index = 1 .. n /\ DOMAIN index' = 1 .. n + 1
      /\ \A k \in 1 .. n : index'[k] = index[k]
      /\ index'[n + 1] = row
  BY DEF BlocksInv
<1>2. Where \in Nat /\ \A k \in 1 .. n : Location(index[k]) \in Nat /\ Location(index[k]) < Where
  <2>1. Where \in Nat
    BY Position DEF Indexing
  <2>2. \A k \in 1 .. n : Location(index[k]) < Where
    BY <1>1 DEF BlocksInv, RowsBehind
  <2>3. \A k \in 1 .. n : Location(index[k]) \in Nat
    <3> TAKE k \in 1 .. n
    <3>1. index[k] \in Row
      BY <1>1
    <3> QED
      BY <3>1, LocationOfBlock DEF Row
  <2> QED
    BY <2>1, <2>2, <2>3
<1> HIDE DEF n
<1>3. RowsAscend'
  <2>1. \A i, j \in 1 .. n : i < j => Location(index[i]) < Location(index[j])
    BY <1>1 DEF BlocksInv, RowsAscend
  <2>2. ASSUME NEW i \in 1 .. n + 1, NEW j \in 1 .. n + 1, i < j
        PROVE  Location(index'[i]) < Location(index'[j])
    <3>1. i \in 1 .. n /\ (j \in 1 .. n \/ j = n + 1)
      BY <1>1, <2>2
    <3> HIDE DEF Location
    <3> QED
      BY <1>1, <1>2, <2>1, <2>2, <3>1
  <2>3. \A i, j \in DOMAIN index' : i < j => Location(index'[i]) < Location(index'[j])
    BY <1>1, <2>2
  <2> QED
    BY <2>3 DEF RowsAscend, Location
<1>4. RowsOnDrive'
  <2>1. ASSUME ~isRegular, NEW k \in 1 .. n + 1 PROVE index'[k].record < FirstRecord(EndOfData)
    <3>1. CASE k = n + 1
      BY <1>1, <2>1, <3>1
    <3>2. CASE k \in 1 .. n
      BY <1>1, <2>1, <3>2 DEF BlocksInv, RowsOnDrive
    <3> QED
      BY <1>1, <3>1, <3>2
  <2>2. isRegular' = isRegular /\ FirstRecord(EndOfData)' = FirstRecord(EndOfData)
    BY DEF drive, FirstRecord, EndOfData
  <2> QED
    BY <1>1, <2>1, <2>2 DEF RowsOnDrive
<1>5. \A k \in DOMAIN index' : Location(index'[k]) <= Where
  <2>1. \A k \in 1 .. n + 1 : k \in 1 .. n \/ k = n + 1
    BY <1>1
  <2> HIDE DEF Location
  <2> QED
    BY <1>1, <1>2, <2>1
<1> QED
  BY <1>1, <1>3, <1>4, <1>5

LEMMA RowsUntouched ==
  ASSUME BlocksInv, UNCHANGED drive, index' = index
  PROVE  (index \in Seq(Row))' /\ RowsAscend' /\ RowsOnDrive'
BY DEF BlocksInv, RowsAscend, RowsOnDrive, drive, FirstRecord, EndOfData

(* What Take does to the index.                                            *)
LEMMA TakeRows ==
  ASSUME BlocksInv, scan # Idle, scan.pc \in {"next", "resync"}, UNCHANGED drive,
         NEW r \in Readings(Len(headers)),
         r.at >= scan.at + BlockUnits, r.at <= Len(UnitsOf(scan.file)),
         NEW record \in Nat, NEW block \in 0 .. RecordSize - 1,
         scan.by # "query" => record * RecordSize + block = Where,
         Take(r, record, block)
  PROVE  /\ (index \in Seq(Row))' /\ RowsAscend' /\ RowsOnDrive'
         /\ Indexing => \A k \in DOMAIN index' : Location(index'[k]) <= Where
<1> DEFINE row == RowAt(FoundId(r), record, block)
<1>0. scan \in Scanning /\ scan.file \in 1 .. EndOfData /\ scan.at \in Nat /\ r.at \in Nat
  BY Position DEF Readings
<1>1. CASE index' = index
  <2>1. Indexing => \A k \in DOMAIN index : Location(index[k]) <= Where
    BY DEF BlocksInv, RowsBehind
  <2> HIDE DEF Location
  <2> QED
    BY <1>1, <2>1, RowsUntouched
<1>2. CASE scan.by # "query" /\ scan.i >= scan.offset /\ index' = index \o <<row>>
  <2>1. Indexing
    BY <1>2 DEF Indexing
  <2>2. row \in Row /\ Location(row) = Where /\ row.record = record
    <3>1. scan.from \in Nat /\ scan.i \in Nat /\ scan.offset \in Nat /\ r.id \in Int
      BY <1>0 DEF Scanning, Readings
    <3>2. FoundId(r) \in Int
      BY <3>1 DEF FoundId, DueId
    <3> QED
      BY <1>2, <3>2 DEF RowAt, Row, Location
  <2>3. ~isRegular => record < FirstRecord(EndOfData)
    <3> SUFFICES ASSUME ~isRegular PROVE record < FirstRecord(EndOfData)
      OBVIOUS
    <3>1. scan.at + BlockUnits <= Len(UnitsOf(scan.file))
      <4>1. Len(UnitsOf(scan.file)) \in Nat
        <5>1. UnitsOf(scan.file) = <<>> \/ UnitsOf(scan.file) \in Seq(Units(Len(headers)))
          BY DEF UnitsOf, BlocksInv, DriveOK
        <5> QED
          BY <5>1
      <4> QED
        BY <1>0, <4>1, UnitSizes
    <3>2. record * RecordSize + block = TotalBlocks(Base(scan.file) + scan.at)
      BY <1>2 DEF Where
    <3> QED
      BY <1>0, <3>1, <3>2, RecordInFile DEF BlocksInv
  <2> HIDE DEF row
  <2> QED
    BY <1>2, <2>1, <2>2, <2>3, RowIndexed
<1>3. index' = index \/ (scan.by # "query" /\ scan.i >= scan.offset /\ index' = index \o <<row>>)
  <2>1. scan.i \in Nat /\ scan.offset \in Nat /\ index \in Seq(Row)
    BY <1>0 DEF Scanning, BlocksInv
  <2>2. index \o <<>> = index
    BY <2>1
  <2>3. index' = index \/ Found(r, record, block)
    BY DEF Take
  <2>4. CASE Found(r, record, block)
    <3>1. CASE scan.by = "query"
      BY <2>4, <3>1 DEF Found
    <3>2. CASE scan.by # "query"
      <4>1. index' = index \o (IF scan.i < scan.offset THEN <<>> ELSE <<row>>)
        BY <2>4, <3>2 DEF Found
      <4> HIDE DEF row
      <4> QED
        BY <2>1, <2>2, <3>2, <4>1
    <3> QED
      BY <3>1, <3>2
  <2> QED
    BY <2>3, <2>4
<1> QED
  BY <1>1, <1>2, <1>3

LEMMA CountedType ==
  ASSUME scan \in Scanning, NEW at \in Nat, at >= scan.at
  PROVE  Counted(at) \in Nat
<1>1. scan.counter \in Nat /\ scan.at \in Nat
  BY DEF Scanning
<1> QED
  BY <1>1 DEF Counted

LEMMA TakeStep ==
  ASSUME BlocksInv, scan # Idle, scan.pc \in {"next", "resync"}, UNCHANGED drive,
         NEW r \in Readings(Len(headers)),
         r.at >= scan.at + BlockUnits, r.at <= Len(UnitsOf(scan.file)),
         NEW record \in Nat, NEW block \in 0 .. RecordSize - 1,
         scan.by # "query" => record * RecordSize + block = Where,
         Take(r, record, block)
  PROVE  BlocksInv' /\ Further(scan, scan')
<1> DEFINE at == r.at + r.size
           total == TotalBlocks(IF isRegular THEN at ELSE Counted(at))
           base == Base(scan.file)
           failed == [scan EXCEPT !.pc = "failed"]
           onward == [scan EXCEPT !.pc = "next", !.i = scan.i + 1, !.at = at,
                                  !.pad = PaddingOf(r.size), !.counter = Counted(at),
                                  !.record = RecordOf(total), !.block = BlockOf(total)]
<1>0. /\ scan \in Scanning /\ scan.file \in 1 .. EndOfData /\ scan.at \in Nat
      /\ base \in Nat /\ base + scan.at \in Nat /\ Where \in Nat
  BY Position
<1>1. r.at \in Nat /\ r.size \in Nat /\ at \in Nat /\ at >= scan.at + BlockUnits /\ BlockUnits \in Nat \ {0}
  BY <1>0, UnitSizes, SMTT(20) DEF Readings
<1>2. /\ (index \in Seq(Row))' /\ RowsAscend' /\ RowsOnDrive'
      /\ Indexing => \A k \in DOMAIN index' : Location(index'[k]) <= Where
  BY TakeRows
<1>3. scan' = failed \/ (scan' = onward /\ at <= Len(UnitsOf(scan.file)))
  <2>1. Len(UnitsOf(scan.file)) \in Nat
    <3>1. UnitsOf(scan.file) = <<>> \/ UnitsOf(scan.file) \in Seq(Units(Len(headers)))
      BY DEF UnitsOf, BlocksInv, DriveOK
    <3> QED
      BY <3>1
  <2> HIDE DEF UnitsOf, Found
  <2> QED
    BY <1>1, <2>1 DEF Take
<1>4. /\ EndOfData' = EndOfData
      /\ \A f : Base(f)' = Base(f) /\ FirstRecord(f)' = FirstRecord(f) /\ UnitsOf(f)' = UnitsOf(f)
      /\ DriveOK' /\ isRegular' = isRegular
  BY DriveStays DEF BlocksInv, drive
<1>5. CASE scan' = failed
  <2>1. /\ scan' \in Scanning /\ scan'.pc = "failed" /\ scan'.file = scan.file
        /\ scan'.at = scan.at /\ scan'.pad = scan.pad
    BY <1>0, <1>5 DEF Scanning
  <2>2. ScanOnDrive'
    <3>1. /\ isRegular => scan.file = 1
          /\ scan.pad > 0 => scan.at <= Len(UnitsOf(scan.file))
      BY DEF BlocksInv, ScanOnDrive
    <3> QED
      BY <1>0, <1>4, <2>1, <3>1 DEF ScanOnDrive, UnitsOf, drive
  <2>3. IndexCounts' /\ RowsBehind'
    BY <2>1 DEF IndexCounts, RowsBehind, Indexing
  <2>4. Further(scan, scan')
    BY <2>1 DEF Further, Phase
  <2> QED
    BY <1>2, <1>4, <2>1, <2>2, <2>3, <2>4 DEF BlocksInv
<1>6. CASE scan' = onward /\ at <= Len(UnitsOf(scan.file))
  <2>1. Counted(at) \in Nat
    <3>1. at >= scan.at
      BY <1>0, <1>1
    <3> HIDE DEF at
    <3> QED
      BY <1>0, <1>1, <3>1, CountedType
  <2>2. total \in Nat /\ RecordOf(total) \in Nat /\ BlockOf(total) \in 0 .. RecordSize - 1
        /\ RecordOf(total) * RecordSize + BlockOf(total) = total
    <3> DEFINE units == IF isRegular THEN at ELSE Counted(at)
    <3>1. units \in Nat
      BY <1>1, <2>1
    <3> HIDE DEF units
    <3>2. TotalBlocks(units) \in Nat
      BY <3>1, TotalBlocksBounds
    <3>3. total = TotalBlocks(units)
      BY DEF units
    <3> HIDE DEF total
    <3> QED
      BY <3>2, <3>3, PlaceOfTotal
  <2>3. PaddingOf(r.size) \in Nat
    BY <1>1, PaddingType
  <2> HIDE DEF total, at, base
  <2>4. /\ scan' \in Scanning /\ scan'.pc = "next" /\ scan'.by = scan.by /\ scan'.offset = scan.offset
        /\ scan'.i = scan.i + 1 /\ scan'.file = scan.file /\ scan'.at = at
        /\ scan'.counter = Counted(at) /\ scan'.counts = scan.counts
        /\ scan'.record = RecordOf(total) /\ scan'.block = BlockOf(total)
    <3>1. scan.i + 1 \in Nat
      BY <1>0 DEF Scanning
    <3> QED
      BY <1>0, <1>1, <1>6, <2>1, <2>2, <2>3, <3>1 DEF Scanning
  <2>5. ScanOnDrive'
    <3>1. isRegular => scan.file = 1
      BY DEF BlocksInv, ScanOnDrive
    <3>2. at <= Len(UnitsOf(scan.file))
      BY <1>6
    <3> QED
      BY <1>0, <1>4, <2>4, <3>1, <3>2 DEF ScanOnDrive, UnitsOf, drive
  <2>6. Further(scan, scan')
    BY <1>0, <1>1, <2>4 DEF Further
  <2>7. base + at \in Nat /\ base + scan.at + BlockUnits <= base + at /\ Where' = TotalBlocks(base + at)
    <3>1. Base(scan.file)' = base
      BY <2>4 DEF Base, FirstRecord, drive, base
    <3> QED
      BY <1>0, <1>1, <2>4, <3>1, SMTT(20) DEF Where
  <2>8. Where < Where'
    BY <1>0, <2>7, TotalBlocksAscend DEF Where, base
  <2>9. Where' \in Nat
    BY <2>7, TotalBlocksBounds
  <2>10. IndexCounts'
    <3> SUFFICES ASSUME Indexing
                 PROVE  /\ Location(scan)' = Where'
                        /\ ~isRegular =>
                             /\ scan'.counts /\ scan'.counter = base + at
                             /\ scan.file < EndOfData => base + at <= FirstRecord(scan.file + 1) * RecordUnits
      <4>1. Indexing' => Indexing
        BY <2>4 DEF Indexing
      <4>2. Base(scan.file)' = base /\ FirstRecord(scan.file + 1)' = FirstRecord(scan.file + 1)
        BY <2>4 DEF Base, FirstRecord, drive, base
      <4> QED
        BY <1>4, <2>4, <4>1, <4>2 DEF IndexCounts
    <3>1. ~isRegular => scan.counts /\ Counted(at) = base + at
      <4>1. ~isRegular => scan.counts /\ scan.counter = base + scan.at
        BY DEF BlocksInv, IndexCounts, base
      <4> QED
        BY <1>0, <1>1, <4>1 DEF Counted
    <3>2. total = TotalBlocks(base + at)
      <4>1. isRegular => base = 0
        BY DEF base, Base
      <4>2. (IF isRegular THEN at ELSE Counted(at)) = base + at
        BY <1>1, <3>1, <4>1
      <4> QED
        BY <4>2 DEF total
    <3>3. Location(scan)' = Where'
      BY <2>2, <2>4, <2>7, <3>2 DEF Location
    <3>4. ~isRegular => base + at <= FirstRecord(scan.file + 1) * RecordUnits
      <4>1. 0 < at /\ at <= Len(UnitsOf(scan.file))
        BY <1>0, <1>1, <1>6
      <4> QED
        BY <1>0, <1>1, <4>1, FileEnds DEF BlocksInv, base
    <3> QED
      BY <2>4, <3>1, <3>3, <3>4
  <2>11. RowsBehind'
    <3> SUFFICES ASSUME Indexing', NEW k \in DOMAIN index'
                 PROVE  Location(index'[k]) < Where' /\ Location(index'[k]) <= Where'
      BY DEF RowsBehind, Location
    <3>1. Indexing
      BY <2>4 DEF Indexing
    <3>2. Location(index'[k]) <= Where
      BY <1>2, <3>1
    <3>3. Location(index'[k]) \in Nat
      <4>1. index'[k] \in Row
        BY <1>2
      <4> QED
        BY <4>1, LocationOfBlock DEF Row
    <3> HIDE DEF Location, Where
    <3> QED
      BY <1>0, <2>8, <2>9, <3>2, <3>3
  <2> QED
    BY <1>2, <1>4, <2>4, <2>5, <2>6, <2>10, <2>11 DEF BlocksInv
<1> QED
  BY <1>3, <1>5, <1>6

(* What the tar reader makes of where the scan is.                         *)
LEMMA ReadOnAdvances ==
  ASSUME BlocksInv, scan # Idle
  PROVE  /\ ReadOn \in Readings(Len(headers)) /\ ReadOn.at >= scan.at
         /\ ReadOn.res = "header" => ReadOn.at >= scan.at + BlockUnits /\ ReadOn.at <= Len(UnitsOf(scan.file))
         /\ ReadOn.res = "error" => ReadOn.at > scan.at
<1> DEFINE units == UnitsOf(scan.file)
<1>1. headers \in Seq(HeaderShape) /\ scan.at \in Nat /\ scan.pad \in Nat /\ (scan.pad > 0 => scan.at <= Len(units))
  BY Position DEF BlocksInv, DriveOK, ScanOnDrive, Scanning
<1>2. units \in Seq(Units(Len(headers)))
  <2>1. \A f \in DOMAIN medium : medium[f] \in Seq(Units(Len(headers)))
    BY DEF BlocksInv, DriveOK
  <2> QED
    BY <2>1 DEF UnitsOf
<1> HIDE DEF units
<1>3. LET r == ReadNext(headers, units, scan.at, scan.pad)
      IN  /\ r \in Readings(Len(headers)) /\ r.at >= scan.at
          /\ r.res = "header" => r.at >= scan.at + BlockUnits /\ r.at <= Len(units)
          /\ r.res = "error" => r.at > scan.at
  BY <1>1, <1>2, ReadNextAdvances
<1> QED
  BY <1>3 DEF ReadOn, units

(* The search for a header on a regular file.                              *)
LEMMA SearchStep ==
  ASSUME BlocksInv, isRegular, scan # Idle, scan.pc \in {"next", "resync", "mark"},
         UNCHANGED drive, index' = index,
         scan' \in Scanning, scan'.pc \in {"resync", "mark", "done"}, scan'.pad = 0, scan'.at >= scan.at,
         scan'.by = scan.by, scan'.i = scan.i, scan'.offset = scan.offset, scan'.file = scan.file
  PROVE  BlocksInv'
<1>0. /\ scan \in Scanning /\ scan.file \in 1 .. EndOfData /\ scan.at \in Nat
      /\ Base(scan.file) \in Nat /\ Base(scan.file) + scan.at \in Nat /\ Where \in Nat
      /\ scan'.at \in Nat
  BY Position DEF Scanning
<1>1. (index \in Seq(Row))' /\ RowsAscend' /\ RowsOnDrive'
  BY RowsUntouched
<1>2. EndOfData' = EndOfData /\ DriveOK' /\ isRegular' = isRegular
  BY DriveStays DEF BlocksInv, drive
<1>3. ScanOnDrive'
  <2>1. scan.file = 1
    BY DEF BlocksInv, ScanOnDrive
  <2> QED
    BY <1>0, <1>2, <2>1 DEF ScanOnDrive
<1>4. IndexCounts'
  BY <1>2 DEF IndexCounts
<1>5. RowsBehind'
  <2> SUFFICES ASSUME Indexing', NEW k \in DOMAIN index
               PROVE  /\ Location(index[k]) <= Where'
                      /\ scan.i >= scan.offset => Location(index[k]) < Where'
    BY DEF RowsBehind, Location
  <2>1. Indexing
    BY DEF Indexing
  <2>2. Location(index[k]) <= Where /\ (scan.i >= scan.offset => Location(index[k]) < Where)
    BY <2>1 DEF BlocksInv, RowsBehind
  <2>3. Location(index[k]) \in Nat
    <3>1. index[k] \in Row
      BY DEF BlocksInv
    <3> QED
      BY <3>1, LocationOfBlock DEF Row
  <2>4. Where <= Where' /\ Where' \in Nat
    <3>1. Base(scan.file)' = Base(scan.file)
      BY DEF Base, FirstRecord, drive
    <3>2. Base(scan.file) + scan'.at \in Nat /\ Base(scan.file) + scan.at <= Base(scan.file) + scan'.at
      BY <1>0
    <3>3. Where' = TotalBlocks(Base(scan.file) + scan'.at)
      BY <3>1 DEF Where
    <3> QED
      BY <1>0, <3>2, <3>3, TotalBlocksAscend, TotalBlocksBounds DEF Where
  <2> HIDE DEF Location, Where
  <2> QED
    BY <1>0, <2>2, <2>3, <2>4
<1> QED
  BY <1>1, <1>2, <1>3, <1>4, <1>5 DEF BlocksInv

LEMMA NextHeaderStep ==
  ASSUME BlocksInv, NextHeader
  PROVE  BlocksInv' /\ Further(scan, scan')
<1>0. scan.pc = "next" /\ isRegular /\ UNCHANGED drive /\ scan # Idle
  BY DEF NextHeader, Idle
<1>1. /\ ReadOn \in Readings(Len(headers)) /\ ReadOn.at >= scan.at
      /\ ReadOn.res = "header" => ReadOn.at >= scan.at + BlockUnits /\ ReadOn.at <= Len(UnitsOf(scan.file))
  BY <1>0, ReadOnAdvances
<1>2. scan \in Scanning /\ scan.at \in Nat /\ ReadOn.at \in Nat
  BY <1>0, <1>1, Position DEF Readings
<1> HIDE DEF ReadOn
<1>3. CASE ReadOn.res = "header"
  <2>1. Take(ReadOn, scan.record, scan.block)
    BY <1>3 DEF NextHeader
  <2>2. scan.record \in Nat /\ scan.block \in 0 .. RecordSize - 1
    BY <1>2 DEF Scanning
  <2>3. scan.by # "query" => scan.record * RecordSize + scan.block = Where
    BY <1>0 DEF BlocksInv, IndexCounts, Indexing, Location
  <2> QED
    BY <1>0, <1>1, <1>3, <2>1, <2>2, <2>3, TakeStep
<1>4. CASE ReadOn.res # "header"
  <2>1. scan' = [scan EXCEPT !.pc = "resync", !.at = ReadOn.at, !.pad = 0] /\ index' = index
    BY <1>4 DEF NextHeader
  <2>2. /\ scan' \in Scanning /\ scan'.pc = "resync" /\ scan'.pad = 0 /\ scan'.at = ReadOn.at
        /\ scan'.by = scan.by /\ scan'.i = scan.i /\ scan'.offset = scan.offset /\ scan'.file = scan.file
    BY <1>2, <2>1 DEF Scanning
  <2>3. Further(scan, scan')
    BY <1>0, <1>1, <1>2, <2>2 DEF Further, Phase
  <2> QED
    BY <1>0, <1>1, <2>1, <2>2, <2>3, SearchStep
<1> QED
  BY <1>3, <1>4

LEMMA ResyncStep ==
  ASSUME BlocksInv, Resync
  PROVE  BlocksInv' /\ Further(scan, scan')
<1> DEFINE total == TotalBlocks(scan.at)
           r == ReadNext(headers, UnitsOf(1), total * BlockUnits, 0)
<1>0. scan.pc = "resync" /\ UNCHANGED drive /\ scan # Idle
  BY DEF Resync, Idle
<1>1. isRegular /\ scan.file = 1 /\ scan.pad = 0
  BY <1>0 DEF BlocksInv, ScanOnDrive
<1>2. scan \in Scanning /\ scan.at \in Nat
  BY <1>0, Position
<1>3. total \in Nat /\ total * BlockUnits \in Nat /\ total * BlockUnits >= scan.at
  BY <1>2, UnitSizes, TotalBlocksBounds, ProductNat
<1>4. /\ r \in Readings(Len(headers)) /\ r.at >= total * BlockUnits
      /\ r.res = "header" => r.at >= total * BlockUnits + BlockUnits /\ r.at <= Len(UnitsOf(1))
      /\ r.res = "error" => r.at > total * BlockUnits
  <2>1. headers \in Seq(HeaderShape)
    BY DEF BlocksInv, DriveOK
  <2>2. UnitsOf(1) \in Seq(Units(Len(headers)))
    <3>1. \A f \in DOMAIN medium : medium[f] \in Seq(Units(Len(headers)))
      BY DEF BlocksInv, DriveOK
    <3> QED
      BY <3>1 DEF UnitsOf
  <2> DEFINE units == UnitsOf(1)
             at == total * BlockUnits
             read == ReadNext(headers, units, at, 0)
  <2> HIDE DEF units, at
  <2>3. /\ read \in Readings(Len(headers)) /\ read.at >= at
        /\ read.res = "header" => read.at >= at + BlockUnits /\ read.at <= Len(units)
        /\ read.res = "error" => read.at > at
    <3>1. units \in Seq(Units(Len(headers))) /\ at \in Nat
      BY <1>3, <2>2 DEF units, at
    <3>2. 0 \in Nat /\ ~(0 > 0)
      OBVIOUS
    <3> QED
      BY <2>1, <3>1, <3>2, ReadNextAdvances
  <2> QED
    BY <2>3 DEF units, at
<1> HIDE DEF r
<1>5. CASE r.res = "header"
  <2>1. Take(r, RecordOf(total), BlockOf(total))
    BY <1>5 DEF Resync, r
  <2>2. /\ RecordOf(total) \in Nat /\ BlockOf(total) \in 0 .. RecordSize - 1
        /\ RecordOf(total) * RecordSize + BlockOf(total) = total
    <3> HIDE DEF total
    <3> QED
      BY <1>3, PlaceOfTotal
  <2>3. Where = total
    <3>1. Base(scan.file) = 0
      BY <1>1 DEF Base
    <3> QED
      BY <1>2, <3>1 DEF Where
  <2>4. r.at >= scan.at + BlockUnits /\ r.at <= Len(UnitsOf(scan.file))
    <3>1. r.at \in Nat /\ BlockUnits \in Nat
      BY <1>4, UnitSizes DEF Readings
    <3> HIDE DEF total
    <3> QED
      BY <1>1, <1>2, <1>3, <1>4, <1>5, <3>1
  <2> DEFINE record == RecordOf(total)
             block == BlockOf(total)
  <2>5. /\ record \in Nat /\ block \in 0 .. RecordSize - 1
        /\ record * RecordSize + block = Where /\ Take(r, record, block)
    BY <2>1, <2>2, <2>3
  <2> HIDE DEF record, block
  <2> QED
    BY <1>0, <1>4, <2>4, <2>5, TakeStep
<1>6. ASSUME r.res \in {"error", "eof"},
             scan' = [scan EXCEPT !.at = r.at] \/ scan' = [scan EXCEPT !.pc = "mark", !.at = r.at],
             r.res = "eof" => scan' = [scan EXCEPT !.pc = "mark", !.at = r.at],
             index' = index
      PROVE  BlocksInv' /\ Further(scan, scan')
  <2>1. r.at \in Nat /\ r.at >= scan.at /\ (r.res = "error" => r.at > scan.at)
    <3>1. r.at \in Nat
      BY <1>4 DEF Readings
    <3> HIDE DEF total
    <3> QED
      BY <1>2, <1>3, <1>4, <3>1
  <2>2. /\ scan' \in Scanning /\ scan'.pc \in {"resync", "mark"} /\ scan'.pad = 0 /\ scan'.at = r.at
        /\ (r.res = "eof" => scan'.pc = "mark")
        /\ scan'.by = scan.by /\ scan'.i = scan.i /\ scan'.offset = scan.offset /\ scan'.file = scan.file
    BY <1>0, <1>1, <1>2, <1>6, <2>1 DEF Scanning
  <2>3. Further(scan, scan')
    BY <1>0, <1>2, <1>6, <2>1, <2>2 DEF Further, Phase
  <2>4. BlocksInv'
    <3>1. scan'.at >= scan.at /\ scan'.pc \in {"resync", "mark", "done"}
      BY <2>1, <2>2
    <3> QED
      BY <1>0, <1>1, <1>6, <2>2, <3>1, SearchStep
  <2> QED
    BY <2>3, <2>4
<1>7. CASE r.res = "error"
  <2>1. scan' = [scan EXCEPT !.at = r.at] /\ index' = index
    BY <1>7 DEF Resync, r
  <2> QED
    BY <1>6, <1>7, <2>1
<1>8. CASE r.res = "eof"
  <2>1. scan' = [scan EXCEPT !.pc = "mark", !.at = r.at] /\ index' = index
    BY <1>8 DEF Resync, r
  <2> QED
    BY <1>6, <1>8, <2>1
<1> QED
  BY <1>4, <1>5, <1>7, <1>8 DEF Readings

LEMMA SkipMarkStep ==
  ASSUME BlocksInv, SkipMark
  PROVE  BlocksInv' /\ Further(scan, scan')
<1> DEFINE end == Len(UnitsOf(1))
           skipped == Min({scan.at + 2 * BlockUnits, end})
<1>0. scan.pc = "mark" /\ UNCHANGED drive /\ scan # Idle /\ index' = index
  BY DEF SkipMark, Idle
<1>1. isRegular /\ scan.pad = 0
  BY <1>0 DEF BlocksInv, ScanOnDrive
<1>2. scan \in Scanning /\ scan.at \in Nat
  BY <1>0, Position
<1>3. end \in Nat
  <2>1. UnitsOf(1) = <<>> \/ UnitsOf(1) \in Seq(Units(Len(headers)))
    BY DEF UnitsOf, BlocksInv, DriveOK
  <2> QED
    BY <2>1
<1> HIDE DEF end
<1>4. ASSUME scan' = [scan EXCEPT !.pc = "done"] PROVE BlocksInv' /\ Further(scan, scan')
  <2>1. /\ scan' \in Scanning /\ scan'.pc = "done" /\ scan'.pad = 0 /\ scan'.at = scan.at
        /\ scan'.by = scan.by /\ scan'.i = scan.i /\ scan'.offset = scan.offset /\ scan'.file = scan.file
    BY <1>1, <1>2, <1>4 DEF Scanning
  <2>2. Further(scan, scan')
    BY <1>0, <2>1 DEF Further, Phase
  <2>3. scan'.at >= scan.at
    BY <1>2, <2>1
  <2> QED
    BY <1>0, <1>1, <2>1, <2>2, <2>3, SearchStep
<1>5. ASSUME scan.at < end, scan' = [scan EXCEPT !.pc = "resync", !.at = skipped]
      PROVE  BlocksInv' /\ Further(scan, scan')
  <2>1. skipped \in Nat /\ skipped > scan.at
    <3> DEFINE beyond == scan.at + 2 * BlockUnits
    <3>1. beyond \in Nat /\ beyond > scan.at
      BY <1>2, UnitSizes
    <3> HIDE DEF beyond
    <3>2. \E x \in {beyond, end} : \A y \in {beyond, end} : x <= y
      BY <1>3, <3>1
    <3>3. Min({beyond, end}) \in {beyond, end}
      BY <3>2 DEF Min
    <3>4. skipped = Min({beyond, end})
      BY DEF beyond
    <3> HIDE DEF skipped
    <3> QED
      BY <1>2, <1>3, <1>5, <3>1, <3>3, <3>4
  <2> HIDE DEF skipped
  <2>2. /\ scan' \in Scanning /\ scan'.pc = "resync" /\ scan'.pad = 0 /\ scan'.at = skipped
        /\ scan'.by = scan.by /\ scan'.i = scan.i /\ scan'.offset = scan.offset /\ scan'.file = scan.file
    BY <1>1, <1>2, <1>5, <2>1 DEF Scanning
  <2>3. Further(scan, scan')
    BY <1>2, <2>1, <2>2 DEF Further
  <2>4. scan'.at >= scan.at
    BY <1>2, <2>1, <2>2
  <2> QED
    BY <1>0, <1>1, <2>2, <2>3, <2>4, SearchStep
<1>6. \/ scan' = [scan EXCEPT !.pc = "done"]
      \/ scan.at < end /\ scan' = [scan EXCEPT !.pc = "resync", !.at = skipped]
  <2>1. CASE scan.by = "query" \/ scan.at >= end
    BY <2>1 DEF SkipMark, end
  <2>2. CASE ~(scan.by = "query" \/ scan.at >= end)
    <3>1. scan' = [scan EXCEPT !.pc = "resync", !.at = skipped]
      BY <2>2 DEF SkipMark, end
    <3> HIDE DEF skipped
    <3> QED
      BY <1>2, <1>3, <2>2, <3>1
  <2> QED
    BY <2>1, <2>2
<1> QED
  BY <1>4, <1>5, <1>6

(* The next file of a tape begins where its first record is.               *)
LEMMA FileMarkStep ==
  ASSUME BlocksInv, ~isRegular, scan # Idle, scan.pc = "next", UNCHANGED drive,
         scan' = FileMark, index' = index
  PROVE  BlocksInv' /\ Further(scan, scan')
<1> DEFINE record == FirstRecord(scan.file + 1)
<1>0. /\ scan \in Scanning /\ scan.file \in 1 .. EndOfData /\ scan.at \in Nat
      /\ Base(scan.file) \in Nat /\ Base(scan.file) + scan.at \in Nat /\ Where \in Nat
  BY Position
<1>1. (index \in Seq(Row))' /\ RowsAscend' /\ RowsOnDrive'
  BY RowsUntouched
<1>2. EndOfData' = EndOfData /\ EndOfData = Len(medium) + 1 /\ EndOfData \in Nat /\ DriveOK' /\ isRegular' = isRegular
  BY DriveStays DEF BlocksInv, DriveOK, drive, EndOfData
<1>3. CASE scan.file = EndOfData
  <2>1. scan' = [scan EXCEPT !.pc = "done"]
    BY <1>3 DEF FileMark
  <2>2. scan' \in Scanning /\ scan'.pc = "done" /\ scan'.file = scan.file /\ scan'.at = scan.at /\ scan'.pad = scan.pad
    BY <1>0, <2>1 DEF Scanning
  <2>3. ScanOnDrive'
    <3>1. scan.pad > 0 => scan.at <= Len(UnitsOf(scan.file))
      BY DEF BlocksInv, ScanOnDrive
    <3> QED
      BY <1>0, <1>2, <2>2, <3>1 DEF ScanOnDrive, UnitsOf, drive
  <2>4. Further(scan, scan')
    BY <2>2 DEF Further, Phase
  <2> QED
    BY <1>1, <1>2, <2>2, <2>3, <2>4 DEF BlocksInv, IndexCounts, RowsBehind, Indexing
<1>4. CASE scan.file # EndOfData
  <2>1. scan.file < EndOfData /\ scan.file + 1 \in 1 .. EndOfData /\ scan.file \in Nat
    BY <1>0, <1>2, <1>4
  <2>2. record \in Nat /\ record * RecordUnits \in Nat
    <3>1. record \in Nat
      BY <1>2, <2>1, FirstRecordsAscend DEF BlocksInv, DriveOK, FirstRecord
    <3> QED
      BY <3>1, UnitSizes, ProductNat
  <2> HIDE DEF record
  <2>3. /\ scan' \in Scanning /\ scan'.pc = "next" /\ scan'.pad = 0 /\ scan'.at = 0
        /\ scan'.by = scan.by /\ scan'.i = scan.i /\ scan'.offset = scan.offset /\ scan'.file = scan.file + 1
        /\ scan'.record = record /\ scan'.block = 0
        /\ scan.by # "query" => scan'.counts = scan.counts /\ scan'.counter = record * RecordUnits
    <3>1. 0 \in 0 .. RecordSize - 1 /\ scan.file + 1 \in Nat
      BY <2>1, UnitSizes
    <3> DEFINE next == [scan EXCEPT !.file = scan.file + 1, !.at = 0, !.pad = 0, !.record = record, !.block = 0]
    <3>2. scan' = IF scan.by = "query" THEN [next EXCEPT !.counts = FALSE]
                  ELSE [next EXCEPT !.counter = record * RecordUnits]
      BY <1>4 DEF FileMark, record
    <3>3. /\ next \in Scanning /\ next.pc = "next" /\ next.pad = 0 /\ next.at = 0
          /\ next.by = scan.by /\ next.i = scan.i /\ next.offset = scan.offset /\ next.file = scan.file + 1
          /\ next.record = record /\ next.block = 0 /\ next.counts = scan.counts
      BY <1>0, <2>2, <3>1 DEF Scanning
    <3> HIDE DEF next
    <3> QED
      BY <2>2, <3>2, <3>3, ZenonT(40) DEF Scanning
  <2>4. ScanOnDrive'
    BY <1>2, <2>1, <2>3 DEF ScanOnDrive
  <2>5. Further(scan, scan')
    BY <2>1, <2>3 DEF Further
  <2>6. Base(scan.file)' = record * RecordUnits
    BY <2>3 DEF Base, FirstRecord, drive, record
  <2>7. Where' = record * RecordSize /\ Location(scan)' = record * RecordSize
        /\ Where' = TotalBlocks(record * RecordUnits)
    <3>1. record * RecordSize \in Nat
      BY <2>2, UnitSizes, ProductNat
    <3>2. record * RecordUnits = (record * RecordSize) * BlockUnits
      BY <2>2, UnitSizes DEF RecordUnits
    <3>3. TotalBlocks((record * RecordSize) * BlockUnits) = record * RecordSize
      BY <3>1, TotalBlocksOfBlocks
    <3>4. record * RecordUnits + 0 = record * RecordUnits
      BY <2>2
    <3>5. Where' = TotalBlocks(record * RecordUnits + 0)
      BY <2>3, <2>6 DEF Where
    <3>6. Location(scan)' = record * RecordSize + 0
      BY <2>3 DEF Location
    <3>7. record * RecordSize + 0 = record * RecordSize
      BY <3>1
    <3> QED
      BY <3>2, <3>3, <3>4, <3>5, <3>6, <3>7
  <2>8. IndexCounts'
    <3> SUFFICES ASSUME Indexing'
                 PROVE  /\ scan.counts
                        /\ scan.file + 1 < EndOfData =>
                             record * RecordUnits <= FirstRecord(scan.file + 1 + 1) * RecordUnits
      <4>1. FirstRecord(scan.file + 1)' = FirstRecord(scan.file + 1 + 1)
        BY <2>3 DEF FirstRecord, drive
      <4>2. Base(scan.file)' + 0 = Base(scan.file)'
        BY <2>2, <2>6
      <4>3. Indexing' => scan.by # "query"
        BY <2>3 DEF Indexing
      <4> QED
        BY <1>2, <2>3, <2>6, <2>7, <4>1, <4>2, <4>3 DEF IndexCounts
    <3>1. Indexing
      BY <2>3 DEF Indexing
    <3>2. scan.counts
      BY <3>1 DEF BlocksInv, IndexCounts
    <3>3. ASSUME scan.file + 1 < EndOfData
          PROVE  record * RecordUnits <= FirstRecord(scan.file + 1 + 1) * RecordUnits
      <4>1. scan.file + 1 + 1 \in 1 .. EndOfData /\ scan.file + 1 < scan.file + 1 + 1
        BY <1>2, <2>1, <3>3
      <4>2. FirstRecord(scan.file + 1 + 1) \in Nat /\ record < FirstRecord(scan.file + 1 + 1)
        BY <1>2, <2>1, <4>1, FirstRecordsAscend DEF BlocksInv, DriveOK, FirstRecord, record
      <4> QED
        BY <2>2, <4>2, UnitSizes, ProductMonotone
    <3> QED
      BY <3>2, <3>3
  <2>9. RowsBehind'
    <3> SUFFICES ASSUME Indexing', NEW k \in DOMAIN index
                 PROVE  /\ Location(index[k]) <= Where'
                        /\ scan.i >= scan.offset => Location(index[k]) < Where'
      BY <2>3 DEF RowsBehind, Location
    <3>1. Indexing
      BY <2>3 DEF Indexing
    <3>2. Location(index[k]) <= Where /\ (scan.i >= scan.offset => Location(index[k]) < Where)
      BY <3>1 DEF BlocksInv, RowsBehind
    <3>3. Location(index[k]) \in Nat
      <4>1. index[k] \in Row
        BY DEF BlocksInv
      <4> QED
        BY <4>1, LocationOfBlock DEF Row
    <3>4. Where <= Where' /\ Where' \in Nat
      <4>1. Base(scan.file) + scan.at <= record * RecordUnits
        BY <2>1, <3>1 DEF BlocksInv, IndexCounts, record
      <4> QED
        BY <1>0, <2>2, <2>7, <4>1, TotalBlocksAscend, TotalBlocksBounds DEF Where
    <3> HIDE DEF Location, Where
    <3> QED
      BY <1>0, <3>2, <3>3, <3>4
  <2> QED
    BY <1>1, <1>2, <2>3, <2>4, <2>5, <2>8, <2>9 DEF BlocksInv
<1> QED
  BY <1>3, <1>4

LEMMA NextOnTapeStep ==
  ASSUME BlocksInv, NextOnTape
  PROVE  BlocksInv' /\ Further(scan, scan')
<1>0. scan.pc = "next" /\ ~isRegular /\ UNCHANGED drive /\ scan # Idle
  BY DEF NextOnTape, Idle
<1>1. /\ ReadOn \in Readings(Len(headers)) /\ ReadOn.at >= scan.at
      /\ ReadOn.res = "header" => ReadOn.at >= scan.at + BlockUnits /\ ReadOn.at <= Len(UnitsOf(scan.file))
  BY <1>0, ReadOnAdvances
<1>2. scan \in Scanning /\ scan.file \in 1 .. EndOfData
  BY <1>0, Position
<1> HIDE DEF ReadOn
<1>3. CASE ReadOn.res = "header" /\ Take(ReadOn, scan.record, scan.block)
  <2>1. scan.record \in Nat /\ scan.block \in 0 .. RecordSize - 1
    BY <1>2 DEF Scanning
  <2>2. scan.by # "query" => scan.record * RecordSize + scan.block = Where
    BY <1>0 DEF BlocksInv, IndexCounts, Indexing, Location
  <2> QED
    BY <1>0, <1>1, <1>3, <2>1, <2>2, TakeStep
<1>4. CASE scan' = FileMark /\ index' = index
  BY <1>0, <1>4, FileMarkStep
<1>5. CASE scan' = [scan EXCEPT !.pc = "failed"] /\ index' = index
  <2>1. /\ scan' \in Scanning /\ scan'.pc = "failed" /\ scan'.file = scan.file
        /\ scan'.at = scan.at /\ scan'.pad = scan.pad
    BY <1>2, <1>5 DEF Scanning
  <2>2. ScanOnDrive'
    <3>1. scan.pad > 0 => scan.at <= Len(UnitsOf(scan.file))
      BY <1>0 DEF BlocksInv, ScanOnDrive
    <3> QED
      BY <1>0, <1>2, <2>1, <3>1 DEF ScanOnDrive, UnitsOf, EndOfData, drive
  <2>3. Further(scan, scan')
    BY <1>0, <2>1 DEF Further, Phase
  <2>4. (index \in Seq(Row))' /\ RowsAscend' /\ RowsOnDrive' /\ DriveOK'
    BY <1>0, <1>5, RowsUntouched, DriveStays DEF BlocksInv
  <2> QED
    BY <2>1, <2>2, <2>3, <2>4 DEF BlocksInv, IndexCounts, RowsBehind, Indexing
<1> QED
  BY <1>3, <1>4, <1>5 DEF NextOnTape

LEMMA ScanEndStep ==
  ASSUME BlocksInv, ScanEnd
  PROVE  BlocksInv' /\ scan' = Idle
<1>1. scan' = Idle /\ UNCHANGED drive /\ index' = index
  BY DEF ScanEnd
<1>2. (index \in Seq(Row))' /\ RowsAscend' /\ RowsOnDrive' /\ DriveOK'
  BY <1>1, RowsUntouched, DriveStays DEF BlocksInv
<1> QED
  BY <1>1, <1>2 DEF BlocksInv, ScanOnDrive, IndexCounts, RowsBehind, Indexing

-----------------------------------------------------------------------------
LEMMA NextBlocksInv ==
  ASSUME BlocksInv, [Next]_blocksVars
  PROVE  BlocksInv' /\ (scan # Idle /\ scan' # Idle /\ scan' # scan => Further(scan, scan'))
<1>1. CASE UNCHANGED blocksVars
  <2>1. UNCHANGED drive /\ index' = index /\ scan' = scan
    BY <1>1 DEF blocksVars, drive
  <2>2. (index \in Seq(Row))' /\ RowsAscend' /\ RowsOnDrive' /\ DriveOK'
    BY <2>1, RowsUntouched, DriveStays DEF BlocksInv
  <2>3. ScanOnDrive' /\ IndexCounts' /\ RowsBehind'
    BY <2>1 DEF BlocksInv, ScanOnDrive, IndexCounts, RowsBehind, Indexing, Where, Base, FirstRecord,
                UnitsOf, EndOfData, Location, drive
  <2> QED
    BY <2>1, <2>2, <2>3 DEF BlocksInv
<1>2. ASSUME NEW batch \in Batches, Operation(batch)
      PROVE  BlocksInv' /\ scan = Idle
  BY <1>2, OperationKeepsInv DEF Operation, Extend
<1>3. ASSUME NEW batch \in Batches, Overwrite(batch)
      PROVE  BlocksInv' /\ scan = Idle
  BY <1>3, OverwriteKeepsInv DEF Overwrite
<1>4. ASSUME NEW batch \in Batches, Tear(batch)
      PROVE  BlocksInv' /\ scan = Idle
  BY <1>4, TearKeepsInv DEF Tear, Extend
<1>5. CASE RecoveryIndex
  BY <1>5, RecoveryIndexKeepsInv DEF RecoveryIndex
<1>6. ASSUME NEW row \in ToSet(index), Query(row)
      PROVE  BlocksInv' /\ scan = Idle
  BY <1>6, QueryKeepsInv DEF Query
<1>7. CASE ScanStep
  BY <1>7, NextHeaderStep, ResyncStep, SkipMarkStep, NextOnTapeStep, ScanEndStep DEF ScanStep
<1> QED
  BY <1>1, <1>2, <1>3, <1>4, <1>5, <1>6, <1>7 DEF Next

LEMMA AlwaysBlocksInv == Spec => []BlocksInv
<1>1. Init => BlocksInv
  BY InitBlocksInv
<1>2. BlocksInv /\ [Next]_blocksVars => BlocksInv'
  BY NextBlocksInv
<1> QED
  BY <1>1, <1>2, PTL DEF Spec

(* What is indexed is indexed at ever later records and blocks, whatever   *)
(* lies between the headers and wherever a process died, so that the last  *)
(* row is the place an operation goes on from                              *)
(* (GetLastIndexedRecordAndBlock).                                         *)
THEOREM AlwaysAscending == Spec => []Ascending
<1>1. BlocksInv => Ascending
  <2> SUFFICES ASSUME BlocksInv, NEW i \in DOMAIN index, NEW j \in DOMAIN index, i < j
               PROVE  \/ index[i].record < index[j].record
                      \/ index[i].record = index[j].record /\ index[i].block < index[j].block
    BY DEF Ascending
  <2>1. Location(index[i]) < Location(index[j])
    BY DEF BlocksInv, RowsAscend
  <2>2. index[i] \in Row /\ index[j] \in Row
    BY DEF BlocksInv
  <2>3. index[i].record * RecordSize + index[i].block < index[j].record * RecordSize + index[j].block
    BY <2>1 DEF Location
  <2> QED
    BY <2>2, <2>3, LaterPlace DEF Row
<1> QED
  BY <1>1, AlwaysBlocksInv, PTL

(* No scan of Index or Query goes round in circles: every step reads on,   *)
(* goes to a later file or comes closer to the return where it is.         *)
THEOREM ScansAdvance == Spec => ScanAdvances
<1>1. BlocksInv /\ [Next]_blocksVars => [scan # Idle /\ scan' # Idle => Further(scan, scan')]_scan
  BY NextBlocksInv
<1> QED
  BY <1>1, AlwaysBlocksInv, PTL DEF Spec, ScanAdvances

-----------------------------------------------------------------------------
(* What is read where.                                                     *)

Lies(units, at, s) == at + Len(s) <= Len(units) /\ \A k \in 1 .. Len(s) : units[at + k] = s[k]

(* There are m PAX blocks from a place on, and the block behind them, as   *)
(* Reader.Next reads it.                                                   *)
PaxTo(units, from, m) ==
  /\ m \in 0 .. Len(units)
  /\ BlockAt(units, from + m * BlockUnits)[1] # "pax"
  /\ \A k \in 0 .. m - 1 : BlockAt(units, from + k * BlockUnits)[1] = "pax"

BehindPax(hdrs, units, from, m) ==
  ReadHeader(hdrs, units, from + m * BlockUnits,
             IF m > 0 THEN BlockAt(units, from + (m - 1) * BlockUnits)[2] ELSE Ghost)

(* A sequence of PAX blocks has an end.                                    *)
LEMMA PaxEnds ==
  ASSUME NEW n \in Nat, NEW units \in Seq(Units(n)), NEW from \in Nat
  PROVE  \E m : PaxTo(units, from, m)
<1> DEFINE IsPax(m) == BlockAt(units, from + m * BlockUnits)[1] = "pax"
           S == {m \in 0 .. Len(units) : ~IsPax(m)}
<1>0. Len(units) \in Nat
  OBVIOUS
<1>1. ~IsPax(Len(units))
  <2>1. Len(units) * BlockUnits \in Nat
    BY <1>0, UnitSizes, ProductNat
  <2>2. Len(units) * 1 <= Len(units) * BlockUnits
    BY <1>0, UnitSizes
  <2>3. from + Len(units) * BlockUnits \in Nat /\ from + Len(units) * BlockUnits >= Len(units)
    BY <1>0, <2>1, <2>2
  <2>4. BlockAt(units, from + Len(units) * BlockUnits)[1] = "end"
    BY <1>0, <2>3, BlockAtType
  <2> QED
    BY <2>4
<1> HIDE DEF IsPax
<1>2. S \in SUBSET Nat /\ Len(units) \in S
  BY <1>0, <1>1
<1>3. PICK m \in S : \A s \in S : m <= s
  <2> HIDE DEF S
  <2> QED
    BY <1>2, LeastNatural
<1>4. m \in 0 .. Len(units) /\ ~IsPax(m) /\ \A k \in 0 .. m - 1 : IsPax(k)
  BY <1>0, <1>3
<1>5. PaxTo(units, from, m)
  BY <1>4 DEF IsPax, PaxTo
<1> QED
  BY <1>5

(* Reader.Next reads the block behind the PAX blocks there are.            *)
LEMMA ReadBehindPax ==
  ASSUME NEW hdrs, NEW n \in Nat, NEW units \in Seq(Units(n)), NEW from \in Nat,
         NEW m, PaxTo(units, from, m)
  PROVE  ReadNext(hdrs, units, from, 0) = BehindPax(hdrs, units, from, m)
<1> DEFINE IsPax(k) == BlockAt(units, from + k * BlockUnits)[1] = "pax"
           P(k) == ~IsPax(k) /\ \A j \in 0 .. k - 1 : IsPax(j)
           skipped == CHOOSE k \in 0 .. Len(units) : P(k)
           last == BlockAt(units, from + (skipped - 1) * BlockUnits)
<1>0. Len(units) \in Nat /\ from + 0 = from
  OBVIOUS
<1>1. ReadNext(hdrs, units, from, 0)
        = ReadHeader(hdrs, units, from + skipped * BlockUnits, IF skipped > 0 THEN last[2] ELSE Ghost)
  BY <1>0 DEF ReadNext
<1>2. m \in 0 .. Len(units) /\ P(m)
  BY DEF PaxTo
<1> HIDE DEF IsPax
<1>3. skipped = m
  <2>1. \A k \in 0 .. Len(units) : P(k) => k = m
    <3> SUFFICES ASSUME NEW k \in 0 .. Len(units), P(k) PROVE k = m
      OBVIOUS
    <3>1. ~(k < m)
      <4>1. k < m => k \in 0 .. m - 1
        BY <1>0, <1>2
      <4> QED
        BY <4>1, <1>2
    <3>2. ~(m < k)
      <4>1. m < k => m \in 0 .. k - 1
        BY <1>0, <1>2
      <4> QED
        BY <4>1, <1>2
    <3> QED
      BY <1>0, <1>2, <3>1, <3>2
  <2> HIDE DEF P
  <2> QED
    BY <1>2, <2>1
<1> HIDE DEF P, skipped
<1> QED
  BY <1>1, <1>3 DEF BehindPax

(* Padding is discarded first.                                             *)
LEMMA ReadBehindPadding ==
  ASSUME NEW hdrs, NEW units, NEW at \in Nat, NEW pad \in Nat, at + pad <= Len(units), Len(units) \in Nat
  PROVE  ReadNext(hdrs, units, at, pad) = ReadNext(hdrs, units, at + pad, 0)
<1>1. (at + pad) + 0 = at + pad /\ ~(at + pad > Len(units)) /\ ~(0 > 0)
  OBVIOUS
<1> QED
  BY <1>1 DEF ReadNext

LEMMA ZerosRead ==
  ASSUME NEW units, NEW at \in Nat, Len(units) \in Nat, Lies(units, at, Zeros(BlockUnits))
  PROVE  BlockAt(units, at) = <<"zero", Ghost>>
<1>1. Len(Zeros(BlockUnits)) = BlockUnits /\ \A u \in 1 .. BlockUnits : Zeros(BlockUnits)[u] = ZeroUnit
  BY UnitSizes DEF Zeros
<1>2. at + BlockUnits <= Len(units) /\ \A u \in 1 .. BlockUnits : units[at + u] = ZeroUnit
  BY <1>1 DEF Lies
<1>3. ~(at >= Len(units)) /\ ~(at + BlockUnits > Len(units))
  BY <1>2, UnitSizes
<1> QED
  BY <1>2, <1>3 DEF BlockAt

LEMMA BlockRead ==
  ASSUME NEW units, NEW at \in Nat, Len(units) \in Nat, NEW what \in {"pax", "header"}, NEW id,
         Lies(units, at, Block(what, id))
  PROVE  BlockAt(units, at) = <<what, id>>
<1>1. Len(Block(what, id)) = BlockUnits /\ \A u \in 1 .. BlockUnits : Block(what, id)[u] = <<what, id, u>>
  BY UnitSizes DEF Block
<1>2. at + BlockUnits <= Len(units) /\ \A u \in 1 .. BlockUnits : units[at + u] = <<what, id, u>>
  BY <1>1 DEF Lies
<1>3. ~(at >= Len(units)) /\ ~(at + BlockUnits > Len(units)) /\ 1 \in 1 .. BlockUnits
  BY <1>2, UnitSizes
<1>4. units[at + 1] = <<what, id, 1>>
  BY <1>2, <1>3
<1>5. ~(\A u \in 1 .. BlockUnits : units[at + u] = ZeroUnit)
  BY <1>3, <1>4 DEF ZeroUnit
<1>6. \E w \in {"pax", "header"} : \A u \in 1 .. BlockUnits : units[at + u] = <<w, units[at + 1][2], u>>
  BY <1>2, <1>4
<1> QED
  BY <1>3, <1>4, <1>5, <1>6 DEF BlockAt

-----------------------------------------------------------------------------
(* Entries.                                                                *)

HeadUnits(h) == IF h.pax THEN BlockUnits + BlockUnits ELSE BlockUnits
EntryUnits(h) == HeadUnits(h) + h.size + PaddingOf(h.size)

(* What lies where something longer lies.                                  *)
LEMMA PartsLie ==
  ASSUME NEW E, NEW s \in Seq(E), NEW t \in Seq(E), NEW units \in Seq(E), NEW at \in Nat
  PROVE  Lies(units, at, s \o t) <=> Lies(units, at, s) /\ Lies(units, at + Len(s), t)
<1> DEFINE m == Len(s)
           n == Len(t)
<1>1. m \in Nat /\ n \in Nat /\ Len(units) \in Nat /\ Len(s \o t) = m + n
  OBVIOUS
<1>2. \A k \in 1 .. m : (s \o t)[k] = s[k]
  OBVIOUS
<1>3. \A k \in 1 .. n : (s \o t)[m + k] = t[k]
  OBVIOUS
<1>4. ASSUME Lies(units, at, s \o t) PROVE Lies(units, at, s) /\ Lies(units, at + m, t)
  <2>1. at + (m + n) <= Len(units) /\ \A k \in 1 .. m + n : units[at + k] = (s \o t)[k]
    BY <1>1, <1>4 DEF Lies
  <2>2. \A k \in 1 .. m : k \in 1 .. m + n
    BY <1>1
  <2>3. \A k \in 1 .. n : m + k \in 1 .. m + n /\ (at + m) + k = at + (m + k)
    BY <1>1
  <2>4. at + m <= Len(units) /\ (at + m) + n <= Len(units)
    BY <1>1, <2>1
  <2> HIDE DEF m, n
  <2> QED
    BY <1>2, <1>3, <2>1, <2>2, <2>3, <2>4 DEF Lies, m, n
<1>5. ASSUME Lies(units, at, s), Lies(units, at + m, t) PROVE Lies(units, at, s \o t)
  <2>1. (at + m) + n <= Len(units) /\ (at + m) + n = at + (m + n)
    BY <1>1, <1>5 DEF Lies
  <2>2. \A k \in 1 .. m : units[at + k] = s[k]
    BY <1>5 DEF Lies
  <2>3. \A k \in 1 .. n : units[(at + m) + k] = t[k]
    BY <1>5 DEF Lies
  <2> SUFFICES ASSUME NEW k \in 1 .. m + n PROVE units[at + k] = (s \o t)[k]
    BY <1>1, <2>1 DEF Lies
  <2>4. CASE k \in 1 .. m
    BY <1>2, <2>2, <2>4
  <2>5. CASE k \notin 1 .. m
    <3>1. k - m \in 1 .. n /\ m + (k - m) = k /\ (at + m) + (k - m) = at + k
      BY <1>1, <2>5
    <3> HIDE DEF m, n
    <3> QED
      BY <1>3, <2>3, <3>1
  <2> QED
    BY <2>4, <2>5
<1> QED
  BY <1>4, <1>5

(* A number of blocks.                                                     *)
Whole(units) == \E k \in Nat : units = k * BlockUnits

LEMMA WholeSum ==
  /\ Whole(0) /\ Whole(BlockUnits) /\ Whole(2 * BlockUnits)
  /\ \A p, q : Whole(p) /\ Whole(q) => p \in Nat /\ q \in Nat /\ Whole(p + q)
<1>1. Whole(0) /\ Whole(BlockUnits) /\ Whole(2 * BlockUnits)
  <2>1. 0 * BlockUnits = 0 /\ 1 * BlockUnits = BlockUnits
    BY UnitSizes
  <2> QED
    BY <2>1 DEF Whole
<1>2. ASSUME NEW p, NEW q, Whole(p), Whole(q) PROVE p \in Nat /\ q \in Nat /\ Whole(p + q)
  <2>1. PICK j \in Nat : p = j * BlockUnits
    BY <1>2 DEF Whole
  <2>2. PICK k \in Nat : q = k * BlockUnits
    BY <1>2 DEF Whole
  <2>3. p \in Nat /\ q \in Nat /\ (j + k) * BlockUnits = p + q /\ j + k \in Nat
    BY <2>1, <2>2, UnitSizes, ProductNat, ProductDistributes
  <2> QED
    BY <2>3 DEF Whole
<1> QED
  BY <1>1, <1>2

LEMMA ModuloIs ==
  ASSUME NEW a \in Nat, NEW b \in Nat \ {0}
  PROVE  a % b \in 0 .. b - 1 /\ a = (a \div b) * b + (a % b) /\ b % b = 0 /\ (a \in 0 .. b - 1 => a % b = a)
OBVIOUS

LEMMA PaddingFills ==
  ASSUME NEW size \in Nat
  PROVE  PaddingOf(size) \in Nat /\ PaddingOf(size) < BlockUnits /\ Whole(size + PaddingOf(size))
<1> DEFINE q == size \div BlockUnits
           r == size % BlockUnits
<1>1. r \in 0 .. BlockUnits - 1 /\ size = q * BlockUnits + r /\ q \in Nat /\ BlockUnits \in Nat \ {0}
  BY UnitSizes, ModuloIs, FloorOf
<1>2. PaddingOf(size) = (BlockUnits - r) % BlockUnits
  BY DEF PaddingOf
<1> HIDE DEF q, r
<1>3. q * BlockUnits \in Nat /\ (q + 1) * BlockUnits = q * BlockUnits + BlockUnits
  <2>1. 1 * BlockUnits = BlockUnits
    BY <1>1
  <2> QED
    BY <1>1, <2>1, ProductNat, ProductDistributes
<1>4. CASE r = 0
  <2>1. PaddingOf(size) = 0
    BY <1>1, <1>2, <1>4, ModuloIs
  <2>2. size + PaddingOf(size) = q * BlockUnits
    BY <1>1, <1>3, <1>4, <2>1
  <2> QED
    BY <1>1, <2>1, <2>2 DEF Whole
<1>5. CASE r # 0
  <2>1. BlockUnits - r \in Nat /\ BlockUnits - r \in 0 .. BlockUnits - 1
    BY <1>1, <1>5
  <2>2. PaddingOf(size) = BlockUnits - r
    BY <1>1, <1>2, <2>1, ModuloIs
  <2>3. size + PaddingOf(size) = (q + 1) * BlockUnits /\ q + 1 \in Nat
    BY <1>1, <1>3, <2>1, <2>2
  <2> QED
    <3> HIDE DEF PaddingOf
    <3>1. BlockUnits - r < BlockUnits
      BY <1>1, <1>5
    <3>2. Whole(size + PaddingOf(size))
      BY <2>3 DEF Whole
    <3> QED
      BY <2>1, <2>2, <3>1, <3>2
<1> QED
  BY <1>4, <1>5

LEMMA HeadIs ==
  ASSUME NEW h \in HeaderShape
  PROVE  /\ h.size \in Nat /\ HeadUnits(h) \in Nat /\ EntryUnits(h) \in Nat
         /\ EntryUnits(h) = HeadUnits(h) + h.size + PaddingOf(h.size)
         /\ PaddingOf(h.size) \in Nat /\ PaddingOf(h.size) < BlockUnits
         /\ HeadUnits(h) >= BlockUnits /\ Whole(HeadUnits(h)) /\ Whole(EntryUnits(h))
<1>1. h.size \in Nat
  BY ArchivesAssumption DEF HeaderShape
<1>2. HeadUnits(h) \in Nat /\ HeadUnits(h) >= BlockUnits /\ Whole(HeadUnits(h))
  BY WholeSum, UnitSizes DEF HeadUnits
<1>3. PaddingOf(h.size) \in Nat /\ PaddingOf(h.size) < BlockUnits /\ Whole(h.size + PaddingOf(h.size))
  BY <1>1, PaddingFills
<1>4. EntryUnits(h) = HeadUnits(h) + (h.size + PaddingOf(h.size))
  BY <1>1, <1>2, <1>3 DEF EntryUnits
<1>5. Whole(EntryUnits(h))
  BY <1>2, <1>3, <1>4, WholeSum
<1> QED
  BY <1>1, <1>2, <1>3, <1>5, WholeSum DEF EntryUnits

LEMMA EntryLength ==
  ASSUME NEW n \in Nat, NEW id \in 1 .. n, NEW h \in HeaderShape
  PROVE  Len(Entry(id, h)) = EntryUnits(h)
<1> DEFINE pax == IF h.pax THEN Block("pax", id) ELSE <<>>
           head == Block("header", id)
           body == Content(id, h.size)
           fill == Zeros(PaddingOf(h.size))
<1>1. h.size \in Nat /\ PaddingOf(h.size) \in Nat /\ id \in 0 .. n
  BY HeadIs
<1>2. /\ pax \in Seq(Units(n)) /\ Len(pax) = IF h.pax THEN BlockUnits ELSE 0
      /\ head \in Seq(Units(n)) /\ Len(head) = BlockUnits
      /\ body \in Seq(Units(n)) /\ Len(body) = h.size
      /\ fill \in Seq(Units(n)) /\ Len(fill) = PaddingOf(h.size)
  <2>1. head \in Seq(Units(n)) /\ Len(head) = BlockUnits
    BY <1>1, BlockType
  <2>2. pax \in Seq(Units(n)) /\ Len(pax) = IF h.pax THEN BlockUnits ELSE 0
    <3>1. Block("pax", id) \in Seq(Units(n)) /\ Len(Block("pax", id)) = BlockUnits
      BY <1>1, BlockType
    <3> QED
      BY <3>1
  <2>3. body \in Seq(Units(n)) /\ Len(body) = h.size
    BY <1>1, ContentType
  <2>4. fill \in Seq(Units(n)) /\ Len(fill) = PaddingOf(h.size)
    BY <1>1, ZerosType
  <2> QED
    BY <2>1, <2>2, <2>3, <2>4
<1>3. Entry(id, h) = ((pax \o head) \o body) \o fill
  BY DEF Entry
<1> HIDE DEF pax, head, body, fill
<1>4. Len(((pax \o head) \o body) \o fill) = Len(pax) + Len(head) + Len(body) + Len(fill)
  <2>1. pax \o head \in Seq(Units(n)) /\ Len(pax \o head) = Len(pax) + Len(head)
    BY <1>2, ConcatProperties
  <2>2. /\ (pax \o head) \o body \in Seq(Units(n))
        /\ Len((pax \o head) \o body) = Len(pax \o head) + Len(body)
    BY <1>2, <2>1, ConcatProperties
  <2>3. Len(((pax \o head) \o body) \o fill) = Len((pax \o head) \o body) + Len(fill)
    BY <1>2, <2>2, ConcatProperties
  <2> QED
    BY <2>1, <2>2, <2>3
<1> QED
  BY <1>1, <1>2, <1>3, <1>4, UnitSizes DEF EntryUnits, HeadUnits

(* An entry is read as the header it has.                                  *)
LEMMA EntryRead ==
  ASSUME NEW hdrs \in Seq(HeaderShape), NEW id \in 1 .. Len(hdrs), NEW units \in Seq(Units(Len(hdrs))),
         NEW at \in Nat, Lies(units, at, Entry(id, hdrs[id]))
  PROVE  /\ ReadNext(hdrs, units, at, 0)
              = [res |-> "header", at |-> at + HeadUnits(hdrs[id]), id |-> id, size |-> hdrs[id].size]
         /\ at + EntryUnits(hdrs[id]) <= Len(units)
<1> DEFINE h == hdrs[id]
           n == Len(hdrs)
           head == Block("header", id)
           body == Content(id, h.size)
           fill == Zeros(PaddingOf(h.size))
<1>0. n \in Nat /\ h \in HeaderShape /\ Len(units) \in Nat /\ id \in Nat /\ id # Ghost
  BY ElementOfSeq DEF Ghost
<1>1. at + EntryUnits(h) <= Len(units)
  BY <1>0, EntryLength DEF Lies
<1>2. h.size \in Nat /\ PaddingOf(h.size) \in Nat /\ id \in 0 .. n
  BY <1>0, HeadIs
<1>3. /\ head \in Seq(Units(n)) /\ Len(head) = BlockUnits
      /\ body \in Seq(Units(n)) /\ fill \in Seq(Units(n))
  BY <1>0, <1>2, BlockType, ContentType, ZerosType
<1> HIDE DEF n
<1>4. CASE h.pax = FALSE
  <2>1. Entry(id, h) = ((<<>> \o head) \o body) \o fill
    BY <1>4 DEF Entry
  <2>2. <<>> \o head = head
    BY <1>3
  <2>3. Lies(units, at, (head \o body) \o fill)
    BY <2>1, <2>2
  <2> HIDE DEF head, body, fill
  <2>4. Lies(units, at, head)
    <3>1. head \o body \in Seq(Units(n))
      BY <1>3, ConcatProperties
    <3>2. Lies(units, at, head \o body)
      BY <1>3, <2>3, <3>1, PartsLie DEF n
    <3> QED
      BY <1>3, <3>2, PartsLie DEF n
  <2>5. BlockAt(units, at) = <<"header", id>>
    BY <1>0, <2>4, BlockRead DEF head
  <2>6. at + 0 * BlockUnits = at
    BY UnitSizes
  <2>7. ReadNext(hdrs, units, at, 0) = ReadHeader(hdrs, units, at, Ghost)
    <3>1. PaxTo(units, at, 0)
      BY <1>0, <2>5, <2>6 DEF PaxTo
    <3>2. ReadNext(hdrs, units, at, 0) = BehindPax(hdrs, units, at, 0)
      <4>1. n \in Nat /\ units \in Seq(Units(n))
        BY <1>0 DEF n
      <4> QED
        BY <3>1, <4>1, ReadBehindPax
    <3> QED
      BY <2>6, <3>2 DEF BehindPax
  <2>8. ReadHeader(hdrs, units, at, Ghost)
          = [res |-> "header", at |-> at + BlockUnits, id |-> id, size |-> h.size]
    BY <1>0, <1>4, <2>5 DEF ReadHeader, Recognised
  <2> QED
    BY <1>1, <1>4, <2>7, <2>8 DEF HeadUnits
<1>5. CASE h.pax = TRUE
  <2> DEFINE pax == Block("pax", id)
  <2>0. pax \in Seq(Units(n)) /\ Len(pax) = BlockUnits
    BY <1>0, <1>2, BlockType DEF n
  <2>1. Lies(units, at, ((pax \o head) \o body) \o fill)
    BY <1>5 DEF Entry
  <2> HIDE DEF head, body, fill, pax
  <2>2. Lies(units, at, pax) /\ Lies(units, at + BlockUnits, head)
    <3>1. pax \o head \in Seq(Units(n)) /\ (pax \o head) \o body \in Seq(Units(n))
      BY <1>3, <2>0, ConcatProperties
    <3>2. Lies(units, at, (pax \o head) \o body)
      BY <1>3, <2>1, <3>1, PartsLie DEF n
    <3>3. Lies(units, at, pax \o head)
      BY <1>3, <3>1, <3>2, PartsLie DEF n
    <3> QED
      BY <1>3, <2>0, <3>3, PartsLie DEF n
  <2>3. BlockAt(units, at) = <<"pax", id>>
    BY <1>0, <2>2, BlockRead DEF pax
  <2>4. BlockAt(units, at + BlockUnits) = <<"header", id>>
    <3>1. at + BlockUnits \in Nat
      BY UnitSizes
    <3> QED
      BY <1>0, <2>2, <3>1, BlockRead DEF head
  <2>5. at + 0 * BlockUnits = at /\ 1 * BlockUnits = BlockUnits /\ 1 - 1 = 0
    BY UnitSizes
  <2>6. ReadNext(hdrs, units, at, 0) = ReadHeader(hdrs, units, at + BlockUnits, id)
    <3>1. 1 \in 0 .. Len(units)
      BY <1>0, <2>2, <2>0, UnitSizes DEF Lies
    <3>2. BlockAt(units, at + 1 * BlockUnits)[1] # "pax"
      BY <2>4, <2>5
    <3>3. \A k \in 0 .. 1 - 1 : BlockAt(units, at + k * BlockUnits)[1] = "pax"
      <4>1. \A k \in 0 .. 1 - 1 : k = 0
        OBVIOUS
      <4> QED
        BY <2>3, <2>5, <4>1
    <3>4. PaxTo(units, at, 1)
      BY <3>1, <3>2, <3>3 DEF PaxTo
    <3>5. ReadNext(hdrs, units, at, 0) = BehindPax(hdrs, units, at, 1)
      <4>1. n \in Nat /\ units \in Seq(Units(n))
        BY <1>0 DEF n
      <4> QED
        BY <3>4, <4>1, ReadBehindPax
    <3> QED
      BY <2>3, <2>5, <3>5 DEF BehindPax
  <2>7. ReadHeader(hdrs, units, at + BlockUnits, id)
          = [res |-> "header", at |-> (at + BlockUnits) + BlockUnits, id |-> id, size |-> h.size]
    BY <1>0, <1>5, <2>4 DEF ReadHeader, Recognised
  <2>8. (at + BlockUnits) + BlockUnits = at + (BlockUnits + BlockUnits)
    BY UnitSizes
  <2> QED
    BY <1>1, <1>5, <2>6, <2>7, <2>8 DEF HeadUnits
<1> QED
  BY <1>0, <1>4, <1>5 DEF HeaderShape

LEMMA EndRead ==
  ASSUME NEW hdrs, NEW n \in Nat, NEW units \in Seq(Units(n)), NEW at \in Nat, at >= Len(units)
  PROVE  ReadNext(hdrs, units, at, 0) = ReadTo("eof", at)
<1>1. at + 0 * BlockUnits = at
  BY UnitSizes
<1>2. BlockAt(units, at) = <<"end", Ghost>>
  BY DEF BlockAt
<1>3. PaxTo(units, at, 0)
  BY <1>1, <1>2 DEF PaxTo
<1>4. ReadNext(hdrs, units, at, 0) = BehindPax(hdrs, units, at, 0)
  BY <1>3, ReadBehindPax
<1>5. ReadHeader(hdrs, units, at, Ghost) = ReadTo("eof", at)
  BY <1>2 DEF ReadHeader
<1> QED
  BY <1>1, <1>4, <1>5 DEF BehindPax

LEMMA TrailerRead ==
  ASSUME NEW hdrs, NEW n \in Nat, NEW units \in Seq(Units(n)), NEW at \in Nat, Lies(units, at, Trailer)
  PROVE  /\ ReadNext(hdrs, units, at, 0) = ReadTo("eof", at + 2 * BlockUnits)
         /\ at + 2 * BlockUnits <= Len(units)
<1>0. /\ Len(units) \in Nat /\ 2 * BlockUnits = BlockUnits + BlockUnits
      /\ at + BlockUnits \in Nat /\ BlockUnits \in Nat
  BY UnitSizes
<1>1. /\ Len(Trailer) = 2 * BlockUnits /\ \A u \in 1 .. 2 * BlockUnits : Trailer[u] = ZeroUnit
      /\ Len(Zeros(BlockUnits)) = BlockUnits /\ \A u \in 1 .. BlockUnits : Zeros(BlockUnits)[u] = ZeroUnit
  BY <1>0 DEF Trailer, Zeros
<1>2. at + 2 * BlockUnits <= Len(units) /\ \A u \in 1 .. 2 * BlockUnits : units[at + u] = ZeroUnit
  BY <1>1 DEF Lies
<1>3. Lies(units, at, Zeros(BlockUnits))
  BY <1>0, <1>1, <1>2 DEF Lies
<1>4. Lies(units, at + BlockUnits, Zeros(BlockUnits))
  <2>1. \A u \in 1 .. BlockUnits :
          (at + BlockUnits) + u = at + (BlockUnits + u) /\ BlockUnits + u \in 1 .. 2 * BlockUnits
    BY <1>0
  <2>2. (at + BlockUnits) + BlockUnits <= Len(units)
    BY <1>0, <1>2
  <2> QED
    BY <1>1, <1>2, <2>1, <2>2 DEF Lies
<1>5. BlockAt(units, at) = <<"zero", Ghost>> /\ BlockAt(units, at + BlockUnits) = <<"zero", Ghost>>
  BY <1>0, <1>3, <1>4, ZerosRead
<1>6. at + 0 * BlockUnits = at
  BY <1>0
<1>7. PaxTo(units, at, 0)
  BY <1>0, <1>5, <1>6 DEF PaxTo
<1>8. ReadNext(hdrs, units, at, 0) = BehindPax(hdrs, units, at, 0)
  BY <1>7, ReadBehindPax
<1>9. ReadHeader(hdrs, units, at, Ghost) = ReadTo("eof", at + 2 * BlockUnits)
  BY <1>5 DEF ReadHeader
<1> QED
  BY <1>2, <1>6, <1>8, <1>9 DEF BehindPax

(* A header is one block, which says so.                                   *)
LEMMA HeaderIsBlock ==
  ASSUME NEW hdrs, NEW n \in Nat, NEW units \in Seq(Units(n)), NEW at \in Nat, NEW pax,
         BlockAt(units, at)[1] # "pax"
  PROVE  LET r == ReadHeader(hdrs, units, at, pax)
             b == BlockAt(units, at)
         IN  /\ r.res = "header" <=> b[1] = "header"
             /\ b[1] = "header" => r.id = Recognised(hdrs, b[2], pax)
<1> DEFINE b == BlockAt(units, at)
           next == BlockAt(units, at + BlockUnits)
           r == ReadHeader(hdrs, units, at, pax)
<1>1. b[1] \in Kinds \ {"pax"} /\ next[1] \in Kinds
  <2>1. at + BlockUnits \in Nat
    BY UnitSizes
  <2> QED
    BY <2>1, BlockAtType
<1>2. r = CASE b[1] = "end"  -> ReadTo("eof", at)
            [] b[1] = "part" -> ReadTo("error", Len(units))
            [] b[1] = "junk" -> ReadTo("error", at + BlockUnits)
            [] b[1] = "zero" ->
                 CASE next[1] = "end"  -> ReadTo("eof", at + BlockUnits)
                   [] next[1] = "part" -> ReadTo("error", Len(units))
                   [] next[1] = "zero" -> ReadTo("eof", at + 2 * BlockUnits)
                   [] OTHER            -> ReadTo("error", at + 2 * BlockUnits)
            [] b[1] = "header" ->
                 [res |-> "header", at |-> at + BlockUnits, id |-> Recognised(hdrs, b[2], pax),
                  size |-> IF b[2] = Ghost THEN 0 ELSE hdrs[b[2]].size]
  BY DEF ReadHeader
<1> HIDE DEF b, next, r
<1>3. CASE b[1] = "header"
  BY <1>2, <1>3 DEF b, r
<1>4. CASE b[1] = "zero"
  <2>1. r = ReadTo("eof", at + BlockUnits) \/ r = ReadTo("error", Len(units))
        \/ r = ReadTo("eof", at + 2 * BlockUnits) \/ r = ReadTo("error", at + 2 * BlockUnits)
    BY <1>1, <1>2, <1>4
  <2> QED
    BY <1>4, <2>1 DEF ReadTo, b, r
<1>5. CASE b[1] \in {"end", "part", "junk"}
  <2>1. r = ReadTo("eof", at) \/ r = ReadTo("error", Len(units)) \/ r = ReadTo("error", at + BlockUnits)
    BY <1>2, <1>5
  <2> QED
    BY <1>5, <2>1 DEF ReadTo, b, r
<1> QED
  BY <1>1, <1>3, <1>4, <1>5 DEF Kinds

(* What is added behind leaves a header what it is.                        *)
LEMMA HeaderStays ==
  ASSUME NEW hdrs \in Seq(HeaderShape), NEW more \in Seq(HeaderShape), Len(hdrs) <= Len(more),
         \A k \in 1 .. Len(hdrs) : more[k] = hdrs[k],
         NEW units \in Seq(Units(Len(hdrs))), NEW longer \in Seq(Units(Len(more))),
         Len(units) <= Len(longer), \A k \in 1 .. Len(units) : longer[k] = units[k],
         NEW from \in Nat,
         ReadNext(hdrs, units, from, 0).res = "header"
  PROVE  /\ ReadNext(more, longer, from, 0).res = "header"
         /\ ReadNext(more, longer, from, 0).id = ReadNext(hdrs, units, from, 0).id
<1> DEFINE n == Len(hdrs)
           m == Len(more)
           Place(k) == from + k * BlockUnits
<1>0. n \in Nat /\ m \in Nat /\ Len(units) \in Nat /\ Len(longer) \in Nat
  OBVIOUS
<1>1. ASSUME NEW at \in Nat, at + BlockUnits <= Len(units)
      PROVE  BlockAt(longer, at) = BlockAt(units, at)
  <2>1. \A u \in 1 .. BlockUnits : longer[at + u] = units[at + u]
    <3>1. \A u \in 1 .. BlockUnits : at + u \in 1 .. Len(units)
      BY <1>0, <1>1, UnitSizes
    <3> QED
      BY <3>1
  <2>2. longer[at + 1] = units[at + 1]
    BY <2>1, UnitSizes
  <2>3. /\ ~(at >= Len(units)) /\ ~(at >= Len(longer))
        /\ ~(at + BlockUnits > Len(units)) /\ ~(at + BlockUnits > Len(longer))
    BY <1>0, <1>1, UnitSizes
  <2>4. (\A u \in 1 .. BlockUnits : longer[at + u] = ZeroUnit)
        <=> (\A u \in 1 .. BlockUnits : units[at + u] = ZeroUnit)
    BY <2>1
  <2>5. (\E what \in {"pax", "header"} : \A u \in 1 .. BlockUnits : longer[at + u] = <<what, longer[at + 1][2], u>>)
        <=> (\E what \in {"pax", "header"} : \A u \in 1 .. BlockUnits : units[at + u] = <<what, units[at + 1][2], u>>)
    BY <2>1, <2>2
  <2> QED
    BY <2>2, <2>3, <2>4, <2>5 DEF BlockAt
<1>2. PICK k \in 0 .. Len(units) : PaxTo(units, from, k)
  <2>1. units \in Seq(Units(n))
    OBVIOUS
  <2> HIDE DEF n, Place
  <2>2. \E k : PaxTo(units, from, k)
    BY <1>0, <2>1, PaxEnds
  <2>3. \A k : PaxTo(units, from, k) => k \in 0 .. Len(units)
    BY DEF PaxTo
  <2> QED
    BY <2>2, <2>3
<1>3. /\ BlockAt(units, Place(k))[1] # "pax"
      /\ \A j \in 0 .. k - 1 : BlockAt(units, Place(j))[1] = "pax"
  BY <1>2 DEF PaxTo
<1>4. \A j \in Nat : Place(j) \in Nat
  BY UnitSizes, ProductNat
<1> DEFINE pax == IF k > 0 THEN BlockAt(units, from + (k - 1) * BlockUnits)[2] ELSE Ghost
<1>5. ReadNext(hdrs, units, from, 0) = ReadHeader(hdrs, units, Place(k), pax)
  <2>1. units \in Seq(Units(n)) /\ n \in Nat
    BY <1>0
  <2> HIDE DEF n
  <2>2. ReadNext(hdrs, units, from, 0) = BehindPax(hdrs, units, from, k)
    BY <1>2, <2>1, ReadBehindPax
  <2> QED
    BY <2>2 DEF BehindPax
<1> HIDE DEF Place
<1>6. /\ BlockAt(units, Place(k))[1] = "header"
      /\ ReadNext(hdrs, units, from, 0).id = Recognised(hdrs, BlockAt(units, Place(k))[2], pax)
  <2>1. units \in Seq(Units(n)) /\ Place(k) \in Nat
    BY <1>0, <1>4
  <2> HIDE DEF n, pax
  <2> QED
    BY <1>0, <1>3, <1>5, <2>1, HeaderIsBlock
<1>7. \A j \in 0 .. k : BlockAt(longer, Place(j)) = BlockAt(units, Place(j))
  <2> TAKE j \in 0 .. k
  <2>1. j \in Nat /\ (j = k \/ j \in 0 .. k - 1)
    BY <1>0
  <2>2. BlockAt(units, Place(j))[1] \in {"pax", "header"}
    BY <1>3, <1>6, <2>1
  <2>3. Place(j) \in Nat /\ Place(j) + BlockUnits <= Len(units)
    <3>1. units \in Seq(Units(n)) /\ Place(j) \in Nat
      BY <1>4, <2>1
    <3> HIDE DEF n
    <3> QED
      BY <1>0, <2>2, <3>1, BlockAtType
  <2> QED
    BY <1>1, <2>3
<1>8. /\ k \in 0 .. Len(longer) /\ BlockAt(longer, Place(k))[1] # "pax"
      /\ \A j \in 0 .. k - 1 : BlockAt(longer, Place(j))[1] = "pax"
      /\ pax = IF k > 0 THEN BlockAt(longer, from + (k - 1) * BlockUnits)[2] ELSE Ghost
  <2>1. \A j \in 0 .. k - 1 : j \in 0 .. k
    BY <1>0
  <2>2. k > 0 => BlockAt(longer, from + (k - 1) * BlockUnits) = BlockAt(units, from + (k - 1) * BlockUnits)
    <3>1. k > 0 => k - 1 \in 0 .. k
      BY <1>0
    <3> QED
      BY <1>7, <3>1 DEF Place
  <2>3. k \in 0 .. Len(longer) /\ k \in 0 .. k
    BY <1>0
  <2> QED
    BY <1>3, <1>6, <1>7, <2>1, <2>2, <2>3
<1>9. ReadNext(more, longer, from, 0) = ReadHeader(more, longer, Place(k), pax)
  <2>1. longer \in Seq(Units(m)) /\ m \in Nat
    BY <1>0
  <2>2. PaxTo(longer, from, k)
    BY <1>8 DEF Place, PaxTo
  <2> HIDE DEF m
  <2>3. ReadNext(more, longer, from, 0) = BehindPax(more, longer, from, k)
    BY <2>1, <2>2, ReadBehindPax
  <2> HIDE DEF pax
  <2> QED
    BY <1>8, <2>3 DEF Place, BehindPax
<1>10. /\ ReadNext(more, longer, from, 0).res = "header"
       /\ ReadNext(more, longer, from, 0).id = Recognised(more, BlockAt(longer, Place(k))[2], pax)
  <2>1. longer \in Seq(Units(m)) /\ Place(k) \in Nat
    BY <1>0, <1>4
  <2>2. BlockAt(longer, Place(k))[1] = "header"
    <3>1. k \in 0 .. k
      BY <1>0
    <3> QED
      BY <1>6, <1>7, <3>1
  <2> HIDE DEF m, pax
  <2> QED
    BY <1>0, <1>8, <1>9, <2>1, <2>2, HeaderIsBlock
<1>11. BlockAt(longer, Place(k)) = BlockAt(units, Place(k)) /\ BlockAt(units, Place(k))[2] \in 0 .. n
  <2>1. units \in Seq(Units(n)) /\ Place(k) \in Nat /\ k \in 0 .. k
    BY <1>0, <1>4
  <2> HIDE DEF n
  <2> QED
    BY <1>0, <1>7, <2>1, BlockAtType
<1>12. Recognised(more, BlockAt(longer, Place(k))[2], pax) = Recognised(hdrs, BlockAt(units, Place(k))[2], pax)
  BY <1>0, <1>11 DEF Recognised, Ghost
<1> QED
  BY <1>6, <1>10, <1>12

LEMMA SelfLies ==
  ASSUME NEW E, NEW s \in Seq(E)
  PROVE  Lies(s, 0, s)
<1>1. Len(s) \in Nat /\ \A k \in 1 .. Len(s) : 0 + k = k
  OBVIOUS
<1> QED
  BY <1>1 DEF Lies

LEMMA StillLies ==
  ASSUME NEW units, NEW longer, Len(units) \in Nat, Len(longer) \in Nat, Len(units) <= Len(longer),
         \A k \in 1 .. Len(units) : longer[k] = units[k],
         NEW at \in Nat, NEW s, Len(s) \in Nat, Lies(units, at, s)
  PROVE  Lies(longer, at, s)
<1>1. at + Len(s) <= Len(units) /\ \A k \in 1 .. Len(s) : units[at + k] = s[k]
  BY DEF Lies
<1>2. \A k \in 1 .. Len(s) : at + k \in 1 .. Len(units)
  BY <1>1
<1> QED
  BY <1>1, <1>2 DEF Lies

(* Where the headers of a batch begin, and where the last content ends.    *)
EntriesAt(first, batch, units, at, start) ==
  /\ start \in [0 .. Len(batch) -> Nat]
  /\ start[0] = at /\ start[Len(batch)] = at + Len(Entries(first, batch))
  /\ \A k \in 0 .. Len(batch) : Whole(start[k])
  /\ \A k \in 1 .. Len(batch) :
       /\ start[k] = start[k - 1] + EntryUnits(batch[k])
       /\ Lies(units, start[k - 1], Entry(first + k - 1, batch[k]))

(* The entries of a batch lie one behind the other.                        *)
LEMMA EntriesLie ==
  ASSUME NEW n \in Nat, NEW first \in Nat \ {0}, NEW batch \in Seq(HeaderShape),
         first + Len(batch) <= n + 1,
         NEW units \in Seq(Units(n)), NEW at \in Nat, Whole(at), Lies(units, at, Entries(first, batch))
  PROVE  \E start : EntriesAt(first, batch, units, at, start)
<1> DEFINE upTo == EntriesUpTo(first, batch)
           L == Len(batch)
           start == [k \in 0 .. L |-> at + Len(upTo[k])]
           E(k) == Entry(first + k - 1, batch[k])
<1>0. L \in Nat /\ Len(units) \in Nat /\ Entries(first, batch) = upTo[L]
  BY DEF Entries
<1>1. upTo[0] = <<>> /\ \A k \in 1 .. L : upTo[k] = upTo[k - 1] \o E(k)
  BY EntriesDef
<1>2. \A k \in 1 .. L : E(k) \in Seq(Units(n)) /\ Len(E(k)) = EntryUnits(batch[k])
                        /\ EntryUnits(batch[k]) \in Nat /\ Whole(EntryUnits(batch[k]))
  <2> TAKE k \in 1 .. L
  <2>1. first + k - 1 \in 1 .. n /\ batch[k] \in HeaderShape
    BY <1>0, ElementOfSeq
  <2> QED
    BY <2>1, EntryType, EntryLength, HeadIs
<1> HIDE DEF upTo, L, E, start
<1>3. \A k \in 0 .. L : upTo[k] \in Seq(Units(n)) /\ Whole(Len(upTo[k]))
  <2> DEFINE S == {k \in 0 .. L : upTo[k] \in Seq(Units(n)) /\ Whole(Len(upTo[k]))}
  <2>1. 0 \in S
    <3>1. <<>> \in Seq(Units(n)) /\ Len(<<>>) = 0
      OBVIOUS
    <3>2. upTo[0] \in Seq(Units(n)) /\ Len(upTo[0]) = 0
      BY <1>1, <3>1
    <3>3. Whole(Len(upTo[0])) /\ 0 \in 0 .. L
      BY <1>0, <3>2, WholeSum
    <3> QED
      BY <3>2, <3>3
  <2>2. ASSUME NEW k \in 1 .. L, k - 1 \in S PROVE k \in S
    <3>1. upTo[k - 1] \in Seq(Units(n)) /\ Whole(Len(upTo[k - 1]))
      BY <2>2
    <3>2. /\ upTo[k - 1] \o E(k) \in Seq(Units(n))
          /\ Len(upTo[k - 1] \o E(k)) = Len(upTo[k - 1]) + Len(E(k))
      BY <1>2, <3>1, ConcatProperties
    <3>3. Whole(Len(upTo[k - 1]) + Len(E(k)))
      BY <1>2, <3>1, WholeSum
    <3>4. upTo[k] = upTo[k - 1] \o E(k) /\ k \in 0 .. L
      BY <1>0, <1>1
    <3>5. upTo[k] \in Seq(Units(n)) /\ Whole(Len(upTo[k]))
      BY <3>2, <3>3, <3>4, Zenon
    <3> QED
      BY <3>4, <3>5
  <2> HIDE DEF S
  <2>3. \A k \in 0 .. L : k \in S
    BY <1>0, <2>1, <2>2, UpTo
  <2> QED
    BY <2>3 DEF S
<1>4. \A k \in 1 .. L : k - 1 \in 0 .. L /\ k \in 0 .. L
  BY <1>0
<1>5. \A k \in 1 .. L : Len(upTo[k]) = Len(upTo[k - 1]) + EntryUnits(batch[k])
  <2> TAKE k \in 1 .. L
  <2>1. upTo[k - 1] \in Seq(Units(n)) /\ E(k) \in Seq(Units(n)) /\ upTo[k] = upTo[k - 1] \o E(k)
    BY <1>1, <1>2, <1>3, <1>4
  <2>2. Len(upTo[k]) = Len(upTo[k - 1]) + Len(E(k))
    BY <2>1, ConcatProperties
  <2> QED
    BY <1>2, <2>2
<1>6. \A k \in 1 .. L : Lies(units, at, upTo[k]) =>
                          Lies(units, at, upTo[k - 1]) /\ Lies(units, at + Len(upTo[k - 1]), E(k))
  <2> TAKE k \in 1 .. L
  <2>1. upTo[k - 1] \in Seq(Units(n)) /\ E(k) \in Seq(Units(n)) /\ upTo[k] = upTo[k - 1] \o E(k)
    BY <1>1, <1>2, <1>3, <1>4
  <2> QED
    BY <2>1, PartsLie, ZenonT(60)
<1>7. \A k \in 0 .. L : Lies(units, at, upTo[k])
  <2> DEFINE S == {i \in 0 .. L : Lies(units, at, upTo[L - i])}
  <2>1. 0 \in S
    <3>1. L - 0 = L
      BY <1>0
    <3> QED
      BY <1>0, <3>1
  <2>2. ASSUME NEW i \in 1 .. L, i - 1 \in S PROVE i \in S
    <3>1. L - (i - 1) \in 1 .. L /\ (L - (i - 1)) - 1 = L - i
      BY <1>0
    <3>2. Lies(units, at, upTo[L - (i - 1)])
      BY <2>2
    <3>3. Lies(units, at, upTo[L - i])
      BY <1>6, <3>1, <3>2
    <3> QED
      BY <1>0, <3>3
  <2> HIDE DEF S
  <2>3. \A i \in 0 .. L : i \in S
    BY <1>0, <2>1, <2>2, UpTo
  <2>4. \A k \in 0 .. L : L - k \in 0 .. L /\ L - (L - k) = k
    BY <1>0
  <2>5. \A i \in 0 .. L : Lies(units, at, upTo[L - i])
    BY <2>3 DEF S
  <2> QED
    BY <2>4, <2>5
<1>8. /\ start \in [0 .. L -> Nat] /\ \A k \in 0 .. L : start[k] = at + Len(upTo[k])
  <2>1. \A k \in 0 .. L : at + Len(upTo[k]) \in Nat
    BY <1>3, WholeSum
  <2> QED
    BY <2>1 DEF start
<1>9. start[0] = at /\ start[L] = at + Len(upTo[L])
  <2>1. 0 \in 0 .. L /\ L \in 0 .. L /\ Len(<<>>) = 0
    BY <1>0
  <2>2. Len(upTo[0]) = 0
    BY <1>1, <2>1
  <2>3. at + Len(upTo[0]) = at
    BY <2>2
  <2> QED
    BY <1>8, <2>1, <2>3
<1>10. \A k \in 0 .. L : Whole(start[k])
  BY <1>3, <1>8, WholeSum
<1>11. ASSUME NEW k \in 1 .. L
       PROVE  start[k] = start[k - 1] + EntryUnits(batch[k]) /\ Lies(units, start[k - 1], E(k))
  <2>1. start[k] = at + Len(upTo[k]) /\ start[k - 1] = at + Len(upTo[k - 1]) /\ Len(upTo[k - 1]) \in Nat
    BY <1>3, <1>4, <1>8, WholeSum
  <2>2. Lies(units, at + Len(upTo[k - 1]), E(k))
    BY <1>4, <1>6, <1>7
  <2>3. Len(upTo[k]) = Len(upTo[k - 1]) + EntryUnits(batch[k]) /\ EntryUnits(batch[k]) \in Nat
    BY <1>2, <1>5
  <2>4. start[k] = start[k - 1] + EntryUnits(batch[k])
    BY <2>1, <2>3
  <2> QED
    BY <2>1, <2>2, <2>4
<1>12. EntriesAt(first, batch, units, at, start)
  BY <1>0, <1>8, <1>9, <1>10, <1>11 DEF L, E, EntriesAt
<1> QED
  BY <1>12

(* Where the headers of an archive begin, and that a trailer closes it.    *)
Starts(regular, first, batch, units, at, start) ==
  /\ start[0] = at
  /\ \A k \in 0 .. Len(batch) : Whole(start[k])
  /\ \A k \in 1 .. Len(batch) :
       /\ start[k] = start[k - 1] + EntryUnits(batch[k])
       /\ Lies(units, start[k - 1], Entry(first + k - 1, batch[k]))
  /\ Lies(units, start[Len(batch)], Trailer)
  /\ regular => Len(units) = start[Len(batch)] + 2 * BlockUnits

(* An archive is its entries and a trailer.                                *)
LEMMA ArchiveLies ==
  ASSUME NEW n \in Nat, NEW first \in Nat \ {0}, NEW batch \in Seq(HeaderShape),
         first + Len(batch) <= n + 1, NEW regular \in BOOLEAN,
         NEW units \in Seq(Units(n)), NEW at \in Nat, Whole(at),
         Lies(units, at, Archive(regular, first, batch)),
         Len(units) = at + Len(Archive(regular, first, batch))
  PROVE  \E start \in [0 .. Len(batch) -> Nat] : Starts(regular, first, batch, units, at, start)
<1> DEFINE entries == Entries(first, batch)
           out == entries \o Trailer
           fill == Zeros(RecordUnits - Len(out))
<1>1. 2 * BlockUnits \in Nat /\ Trailer \in Seq(Units(n)) /\ Len(Trailer) = 2 * BlockUnits
  <2>1. 2 * BlockUnits \in Nat
    BY UnitSizes
  <2> QED
    BY <2>1, ZerosType DEF Trailer
<1>2. entries \in Seq(Units(n)) /\ Len(entries) \in Nat
  <2>1. entries \in Seq(Units(n))
    BY EntriesType
  <2> HIDE DEF entries
  <2> QED
    BY <2>1
<1> HIDE DEF entries
<1>3. out \in Seq(Units(n)) /\ Len(out) = Len(entries) + 2 * BlockUnits
  <2>1. entries \o Trailer \in Seq(Units(n)) /\ Len(entries \o Trailer) = Len(entries) + Len(Trailer)
    BY <1>1, <1>2, ConcatProperties
  <2> QED
    BY <1>1, <2>1
<1>4. Archive(regular, first, batch)
        = IF ~regular /\ Len(out) < RecordUnits THEN out \o fill ELSE out
  BY DEF Archive, entries
<1> HIDE DEF out
<1>5. Lies(units, at, out) /\ (regular => Len(units) = at + Len(out))
  <2>1. CASE ~regular /\ Len(out) < RecordUnits
    <3>1. RecordUnits - Len(out) \in Nat
      BY <1>1, <1>2, <1>3, <2>1, UnitSizes
    <3>2. fill \in Seq(Units(n))
      BY <3>1, ZerosType
    <3>3. Lies(units, at, out \o fill)
      BY <1>4, <2>1
    <3> HIDE DEF fill
    <3> QED
      BY <1>3, <2>1, <3>2, <3>3, PartsLie
  <2>2. CASE ~(~regular /\ Len(out) < RecordUnits)
    BY <1>4, <2>2
  <2> QED
    BY <2>1, <2>2
<1>6. Lies(units, at, entries) /\ Lies(units, at + Len(entries), Trailer)
  <2>1. Lies(units, at, entries \o Trailer)
    BY <1>5 DEF out
  <2> QED
    BY <1>1, <1>2, <2>1, PartsLie
<1>7. PICK start : EntriesAt(first, batch, units, at, start)
  <2>1. Lies(units, at, Entries(first, batch))
    BY <1>6 DEF entries
  <2> QED
    BY <2>1, EntriesLie
<1>8. start[Len(batch)] = at + Len(entries)
  BY <1>7 DEF EntriesAt, entries
<1>9. regular => Len(units) = start[Len(batch)] + 2 * BlockUnits
  <2>1. at + (Len(entries) + 2 * BlockUnits) = (at + Len(entries)) + 2 * BlockUnits
    BY <1>1, <1>2
  <2> QED
    BY <1>3, <1>5, <1>8, <2>1
<1>10. Lies(units, start[Len(batch)], Trailer)
  BY <1>6, <1>8
<1> QED
  BY <1>7, <1>9, <1>10 DEF Starts, EntriesAt

-----------------------------------------------------------------------------
(* Where the headers are on a drive, for drives and headers that are given.*)

Pos == [file : Nat, at : Nat]
At(file, at) == [file |-> file, at |-> at]

UnitsIn(files, file) == IF file \in DOMAIN files THEN files[file] ELSE <<>>
LiesAt(files, p, s) == Lies(UnitsIn(files, p.file), p.at, s)

(* No header is read from a place on.                                      *)
EndsAt(files, p) == Len(UnitsIn(files, p.file)) = p.at \/ LiesAt(files, p, Trailer)

(* A scan that has come to one place comes to another without a header.    *)
Leads(regular, files, p, q) ==
  \/ q = p
  \/ regular /\ LiesAt(files, p, Trailer) /\ q = At(p.file, p.at + 2 * BlockUnits)
  \/ ~regular /\ EndsAt(files, p) /\ q = At(p.file + 1, 0)

(* Where a scan is that has read the content of the n-th header.           *)
Reached(hdrs, place, n) ==
  IF n = 0 THEN At(1, 0) ELSE At(place[n].file, place[n].at + EntryUnits(hdrs[n]))

Laid(regular, files, hdrs, place, n) ==
  /\ place[n].file \in DOMAIN files /\ Whole(place[n].at)
  /\ LiesAt(files, place[n], Entry(n, hdrs[n]))
  /\ Leads(regular, files, Reached(hdrs, place, n - 1), place[n])

(* Behind a place there is nothing more.                                   *)
Closed(regular, files, p) ==
  /\ EndsAt(files, p)
  /\ regular => p.file = 1 /\ Len(UnitsIn(files, 1)) \in {p.at, p.at + 2 * BlockUnits}
  /\ ~regular => Len(files) = p.file \/ (files = <<>> /\ p = At(1, 0))

LEMMA ReachedType ==
  ASSUME NEW hdrs \in Seq(HeaderShape), NEW count \in 0 .. Len(hdrs), NEW place \in [1 .. count -> Pos],
         \A k \in 1 .. count : Whole(place[k].at), NEW n \in 0 .. count
  PROVE  /\ Reached(hdrs, place, n) \in Pos /\ Whole(Reached(hdrs, place, n).at)
         /\ Reached(hdrs, place, n).file = IF n = 0 THEN 1 ELSE place[n].file
         /\ Reached(hdrs, place, n).at = IF n = 0 THEN 0 ELSE place[n].at + EntryUnits(hdrs[n])
<1>1. CASE n = 0
  BY <1>1, WholeSum DEF Reached, At, Pos
<1>2. CASE n # 0
  <2>1. n \in 1 .. count /\ n \in 1 .. Len(hdrs)
    BY <1>2
  <2>2. hdrs[n] \in HeaderShape /\ place[n] \in Pos
    BY <2>1, ElementOfSeq
  <2>3. EntryUnits(hdrs[n]) \in Nat /\ Whole(EntryUnits(hdrs[n]))
    BY <2>2, HeadIs
  <2>4. Whole(place[n].at + EntryUnits(hdrs[n])) /\ place[n].at \in Nat /\ place[n].file \in Nat
    BY <2>1, <2>2, <2>3, WholeSum DEF Pos
  <2>5. Reached(hdrs, place, n) = At(place[n].file, place[n].at + EntryUnits(hdrs[n]))
    BY <1>2 DEF Reached
  <2> QED
    BY <1>2, <2>3, <2>4, <2>5 DEF At, Pos
<1> QED
  BY <1>1, <1>2

(* Drives only grow: a regular file behind its end, a tape by a file.      *)
Longer(regular, files, more) ==
  /\ Len(files) <= Len(more)
  /\ \A f \in 1 .. Len(files) :
       /\ Len(files[f]) <= Len(more[f]) /\ \A k \in 1 .. Len(files[f]) : more[f][k] = files[f][k]
       /\ ~regular => more[f] = files[f]

LEMMA LayoutStays ==
  ASSUME NEW regular \in BOOLEAN, NEW hdrs \in Seq(HeaderShape), NEW batch \in Seq(HeaderShape),
         NEW files \in Seq(Seq(Units(Len(hdrs)))),
         NEW more \in Seq(Seq(Units(Len(hdrs \o batch)))), Longer(regular, files, more),
         NEW count \in 0 .. Len(hdrs), NEW place \in [1 .. count -> Pos],
         \A n \in 1 .. count : Laid(regular, files, hdrs, place, n),
         NEW n \in 1 .. count
  PROVE  /\ Laid(regular, more, hdrs \o batch, place, n)
         /\ Reached(hdrs \o batch, place, n) = Reached(hdrs, place, n)
<1> DEFINE all == hdrs \o batch
           p == Reached(hdrs, place, n - 1)
<1>0. Len(hdrs) \in Nat /\ all \in Seq(HeaderShape) /\ Len(files) \in Nat /\ Len(more) \in Nat
      /\ Len(all) >= Len(hdrs)
  BY ConcatProperties
<1>1. \A k \in 1 .. count : all[k] = hdrs[k] /\ k \in 1 .. Len(hdrs)
  BY ConcatProperties
<1>2. \A k \in 0 .. count : Reached(all, place, k) = Reached(hdrs, place, k)
  <2> TAKE k \in 0 .. count
  <2>1. k # 0 => k \in 1 .. count
    OBVIOUS
  <2> HIDE DEF all
  <2> QED
    BY <1>1, <2>1 DEF Reached
<1>3. ASSUME NEW f \in 1 .. Len(files)
      PROVE  /\ UnitsIn(files, f) = files[f] /\ UnitsIn(more, f) = more[f]
             /\ Len(files[f]) \in Nat /\ Len(more[f]) \in Nat
             /\ Len(files[f]) <= Len(more[f]) /\ \A k \in 1 .. Len(files[f]) : more[f][k] = files[f][k]
             /\ ~regular => more[f] = files[f]
  <2>1. f \in 1 .. Len(more)
    BY <1>0 DEF Longer
  <2>2. files[f] \in Seq(Units(Len(hdrs))) /\ more[f] \in Seq(Units(Len(all)))
    BY <2>1, ElementOfSeq
  <2>3. Len(files[f]) \in Nat /\ Len(more[f]) \in Nat
    BY <2>2
  <2> QED
    BY <2>1, <2>3, SMTT(40) DEF UnitsIn, Longer
<1>4. ASSUME NEW q \in Pos, q.file \in 1 .. Len(files), NEW s, Len(s) \in Nat, LiesAt(files, q, s)
      PROVE  LiesAt(more, q, s)
  <2>1. q.at \in Nat
    BY DEF Pos
  <2>2. Lies(files[q.file], q.at, s)
    BY <1>3, <1>4 DEF LiesAt
  <2>3. /\ Len(files[q.file]) \in Nat /\ Len(more[q.file]) \in Nat /\ Len(files[q.file]) <= Len(more[q.file])
        /\ \A k \in 1 .. Len(files[q.file]) : more[q.file][k] = files[q.file][k]
    BY <1>3, <1>4
  <2>4. Lies(more[q.file], q.at, s)
    BY <1>4, <2>1, <2>2, <2>3, StillLies
  <2> QED
    BY <1>3, <1>4, <2>4 DEF LiesAt
<1>5. Laid(regular, files, hdrs, place, n) /\ place[n] \in Pos /\ n \in 1 .. Len(hdrs) /\ hdrs[n] \in HeaderShape
  BY <1>1, ElementOfSeq
<1>6. \A k \in 1 .. count : place[k].file \in 1 .. Len(files) /\ Whole(place[k].at)
  BY DEF Laid
<1>7. LiesAt(more, place[n], Entry(n, all[n]))
  <2>1. LiesAt(files, place[n], Entry(n, hdrs[n])) /\ place[n].file \in 1 .. Len(files)
    BY <1>5, <1>6 DEF Laid
  <2>2. Len(Entry(n, hdrs[n])) \in Nat
    BY <1>0, <1>5, EntryLength, HeadIs
  <2>3. LiesAt(more, place[n], Entry(n, hdrs[n]))
    BY <1>4, <1>5, <2>1, <2>2
  <2> HIDE DEF all
  <2> QED
    BY <1>1, <2>3
<1>8. p \in Pos /\ p.file \in 1 .. Len(files)
  <2>1. n - 1 \in 0 .. count /\ (n - 1 # 0 => n - 1 \in 1 .. count)
    OBVIOUS
  <2>2. p \in Pos /\ p.file = IF n - 1 = 0 THEN 1 ELSE place[n - 1].file
    BY <1>6, <2>1, ReachedType
  <2>3. 1 \in 1 .. Len(files)
    <3>1. place[n].file \in 1 .. Len(files)
      BY <1>6
    <3> QED
      BY <1>0, <3>1
  <2> HIDE DEF p
  <2> QED
    BY <1>6, <2>1, <2>2, <2>3
<1>9. Len(Trailer) \in Nat
  BY UnitSizes DEF Trailer, Zeros
<1>10. Leads(regular, more, p, place[n])
  <2>1. Leads(regular, files, p, place[n])
    BY <1>5 DEF Laid
  <2>2. LiesAt(files, p, Trailer) => LiesAt(more, p, Trailer)
    BY <1>4, <1>8, <1>9
  <2>3. ~regular => (EndsAt(files, p) <=> EndsAt(more, p))
    <3>1. ~regular => UnitsIn(files, p.file) = UnitsIn(more, p.file)
      BY <1>3, <1>8
    <3> HIDE DEF p
    <3> QED
      BY <3>1 DEF EndsAt, LiesAt
  <2> HIDE DEF p
  <2> QED
    BY <2>1, <2>2, <2>3 DEF Leads
<1>11. place[n].file \in DOMAIN more /\ Whole(place[n].at)
  BY <1>0, <1>6 DEF Longer
<1>12. n - 1 \in 0 .. count /\ n \in 0 .. count
  OBVIOUS
<1>13. Leads(regular, more, Reached(all, place, n - 1), place[n])
  BY <1>2, <1>10, <1>12
<1>14. Laid(regular, more, all, place, n)
  <2> HIDE DEF all, p
  <2> QED
    BY <1>7, <1>11, <1>13 DEF Laid
<1>15. Reached(all, place, n) = Reached(hdrs, place, n)
  BY <1>2, <1>12
<1> QED
  BY <1>14, <1>15

(* An archive extends the layout of the drive it is written to.            *)
LEMMA ArchiveExtends ==
  ASSUME NEW regular \in BOOLEAN, NEW hdrs \in Seq(HeaderShape), NEW batch \in Seq(HeaderShape),
         Len(batch) >= 1,
         NEW more \in Seq(Seq(Units(Len(hdrs \o batch)))), NEW place \in [1 .. Len(hdrs) -> Pos],
         \A n \in 1 .. Len(hdrs) : Laid(regular, more, hdrs \o batch, place, n),
         NEW file \in 1 .. Len(more), NEW at \in Nat, Whole(at),
         Lies(more[file], at, Archive(regular, Len(hdrs) + 1, batch)),
         Len(more[file]) = at + Len(Archive(regular, Len(hdrs) + 1, batch)),
         Leads(regular, more, Reached(hdrs \o batch, place, Len(hdrs)), At(file, at)),
         regular => file = 1, ~regular => file = Len(more)
  PROVE  \E place2 \in [1 .. Len(hdrs \o batch) -> Pos] :
           /\ \A n \in 1 .. Len(hdrs) : place2[n] = place[n]
           /\ \A n \in 1 .. Len(hdrs \o batch) : Laid(regular, more, hdrs \o batch, place2, n)
           /\ Closed(regular, more, Reached(hdrs \o batch, place2, Len(hdrs \o batch)))
<1> DEFINE all == hdrs \o batch
           m == Len(hdrs)
           L == Len(batch)
           units == more[file]
<1>0. /\ m \in Nat /\ L \in Nat /\ L >= 1 /\ all \in Seq(HeaderShape) /\ Len(all) = m + L
      /\ \A k \in 1 .. L : all[m + k] = batch[k] /\ batch[k] \in HeaderShape
      /\ units \in Seq(Units(Len(all))) /\ UnitsIn(more, file) = units /\ Len(more) \in Nat
  <2>1. \A k \in 1 .. L : all[m + k] = batch[k] /\ batch[k] \in HeaderShape
    BY ConcatProperties, ElementOfSeq
  <2>2. all \in Seq(HeaderShape) /\ Len(all) = m + L
    BY ConcatProperties
  <2>3. units \in Seq(Units(Len(all))) /\ UnitsIn(more, file) = units
    BY ElementOfSeq DEF UnitsIn
  <2> QED
    BY <2>1, <2>2, <2>3
<1>1. PICK start \in [0 .. L -> Nat] :
           /\ start[0] = at
           /\ \A k \in 0 .. L : Whole(start[k])
           /\ \A k \in 1 .. L :
                /\ start[k] = start[k - 1] + EntryUnits(batch[k])
                /\ Lies(units, start[k - 1], Entry((m + 1) + k - 1, batch[k]))
           /\ Lies(units, start[L], Trailer)
           /\ regular => Len(units) = start[L] + 2 * BlockUnits
  <2>1. (m + 1) + L <= Len(all) + 1 /\ m + 1 \in Nat \ {0} /\ Len(all) \in Nat
    BY <1>0
  <2>2. Lies(units, at, Archive(regular, m + 1, batch)) /\ Len(units) = at + Len(Archive(regular, m + 1, batch))
    OBVIOUS
  <2>3. units \in Seq(Units(Len(all)))
    BY <1>0
  <2> DEFINE n == Len(all)
             first == m + 1
  <2> HIDE DEF all, units, m, n, first
  <2>4. /\ n \in Nat /\ first \in Nat \ {0} /\ first + Len(batch) <= n + 1 /\ units \in Seq(Units(n))
        /\ Lies(units, at, Archive(regular, first, batch))
        /\ Len(units) = at + Len(Archive(regular, first, batch))
    BY <2>1, <2>2, <2>3 DEF n, first
  <2>5. \E start \in [0 .. Len(batch) -> Nat] : Starts(regular, first, batch, units, at, start)
    BY <2>4, ArchiveLies, SMTT(40)
  <2> QED
    BY <2>5 DEF first, Starts
<1> DEFINE place2 == [n \in 1 .. Len(all) |-> IF n <= m THEN place[n] ELSE At(file, start[n - m - 1])]
<1>2. \A n \in 1 .. m : place2[n] = place[n] /\ n \in 1 .. Len(all)
  <2>1. \A n \in 1 .. m : n \in 1 .. m + L /\ n <= m
    BY <1>0
  <2> QED
    BY <1>0, <2>1
<1>3. \A k \in 1 .. L : place2[m + k] = At(file, start[k - 1]) /\ m + k \in 1 .. Len(all) /\ k - 1 \in 0 .. L
  <2> TAKE k \in 1 .. L
  <2>1. m + k \in 1 .. Len(all) /\ ~(m + k <= m) /\ (m + k) - m - 1 = k - 1 /\ k - 1 \in 0 .. L
    BY <1>0
  <2> HIDE DEF all, m, L
  <2> QED
    BY <2>1
<1>4. \A n \in 1 .. Len(all) : n \in 1 .. m \/ \E k \in 1 .. L : n = m + k
  <2> TAKE n \in 1 .. Len(all)
  <2>1. ~(n \in 1 .. m) => n - m \in 1 .. L /\ n = m + (n - m)
    BY <1>0
  <2> QED
    BY <2>1
<1>5. place2 \in [1 .. Len(all) -> Pos]
  <2>1. \A n \in 1 .. m : place2[n] \in Pos
    BY <1>2
  <2>2. \A k \in 1 .. L : place2[m + k] \in Pos
    <3> HIDE DEF place2, all, m
    <3> TAKE k \in 1 .. L
    <3>1. k - 1 \in 0 .. L /\ place2[m + k] = At(file, start[k - 1])
      BY <1>3
    <3>2. start[k - 1] \in Nat
      BY <3>1
    <3>3. file \in Nat
      BY <1>0
    <3> QED
      BY <3>1, <3>2, <3>3 DEF At, Pos
  <2>3. \A n \in 1 .. Len(all) : place2[n] \in Pos
    <3> HIDE DEF place2, all
    <3> QED
      BY <1>4, <2>1, <2>2
  <2>4. place2 = [n \in 1 .. Len(all) |-> place2[n]]
    OBVIOUS
  <2> HIDE DEF place2, all
  <2> QED
    BY <2>3, <2>4
<1> HIDE DEF place2
<1>6. \A n \in 0 .. m : Reached(all, place2, n) = Reached(all, place, n)
  <2> TAKE n \in 0 .. m
  <2>1. n # 0 => n \in 1 .. m
    BY <1>0
  <2> QED
    BY <1>2, <2>1 DEF Reached
<1>7. \A k \in 1 .. L : Reached(all, place2, m + k) = At(file, start[k])
  <2> TAKE k \in 1 .. L
  <2>1. m + k # 0 /\ all[m + k] = batch[k] /\ start[k] = start[k - 1] + EntryUnits(batch[k])
    BY <1>0, <1>1
  <2>2. place2[m + k].file = file /\ place2[m + k].at = start[k - 1]
    <3>1. place2[m + k] = At(file, start[k - 1])
      BY <1>3
    <3> HIDE DEF m
    <3> QED
      BY <3>1 DEF At
  <2> HIDE DEF all, m, L
  <2> QED
    BY <2>1, <2>2 DEF Reached
<1>8. ASSUME NEW n \in 1 .. m PROVE Laid(regular, more, all, place2, n)
  <2>1. n - 1 \in 0 .. m
    BY <1>0
  <2>2. Laid(regular, more, all, place, n)
    OBVIOUS
  <2>3. place2[n] = place[n] /\ Reached(all, place2, n - 1) = Reached(all, place, n - 1)
    BY <1>2, <1>6, <2>1
  <2> HIDE DEF all, m
  <2> QED
    BY <2>2, <2>3 DEF Laid
<1>9. ASSUME NEW k \in 1 .. L PROVE Laid(regular, more, all, place2, m + k)
  <2>1. place2[m + k].file = file /\ place2[m + k].at = start[k - 1] /\ place2[m + k] = At(file, start[k - 1])
    BY <1>3, SMTT(40) DEF At
  <2>2. Whole(start[k - 1])
    BY <1>1, <1>3
  <2>3. LiesAt(more, place2[m + k], Entry(m + k, all[m + k]))
    <3>1. (m + 1) + k - 1 = m + k
      BY <1>0
    <3>2. Lies(units, start[k - 1], Entry(m + k, batch[k])) /\ all[m + k] = batch[k]
      BY <1>0, <1>1, <3>1
    <3> HIDE DEF all, m, units
    <3> QED
      BY <1>0, <2>1, <3>2 DEF LiesAt
  <2>4. Leads(regular, more, Reached(all, place2, (m + k) - 1), place2[m + k])
    <3>1. CASE k = 1
      <4>1. (m + k) - 1 = m /\ m \in 0 .. m /\ k - 1 = 0
        BY <1>0, <3>1
      <4>2. Leads(regular, more, Reached(all, place, m), At(file, at))
        OBVIOUS
      <4> HIDE DEF all, m
      <4> QED
        BY <1>1, <1>6, <2>1, <4>1, <4>2
    <3>2. CASE k # 1
      <4>1. k - 1 \in 1 .. L /\ (m + k) - 1 = m + (k - 1)
        BY <1>0, <3>2
      <4>2. Reached(all, place2, m + (k - 1)) = At(file, start[k - 1])
        BY <1>7, <4>1
      <4> HIDE DEF all, m
      <4> QED
        BY <2>1, <4>1, <4>2 DEF Leads
    <3> QED
      BY <3>1, <3>2
  <2>5. file \in DOMAIN more
    OBVIOUS
  <2> HIDE DEF all, m
  <2> QED
    BY <2>1, <2>2, <2>3, <2>4, <2>5 DEF Laid
<1>10. Closed(regular, more, Reached(all, place2, Len(all)))
  <2>1. Reached(all, place2, Len(all)) = At(file, start[L])
    <3>1. L \in 1 .. L /\ Len(all) = m + L
      BY <1>0
    <3> HIDE DEF all, m, L
    <3> QED
      BY <1>7, <3>1
  <2>2. At(file, start[L]).file = file /\ At(file, start[L]).at = start[L]
    BY DEF At
  <2>3. EndsAt(more, At(file, start[L]))
    BY <1>0, <1>1, <2>2 DEF EndsAt, LiesAt
  <2>4. regular => Len(UnitsIn(more, 1)) = start[L] + 2 * BlockUnits
    BY <1>0, <1>1
  <2> HIDE DEF all, L
  <2> QED
    BY <2>1, <2>2, <2>3, <2>4 DEF Closed
<1>11. \A n \in 1 .. Len(all) : Laid(regular, more, all, place2, n)
  <2> HIDE DEF all, m, L
  <2> QED
    BY <1>4, <1>8, <1>9
<1> QED
  BY <1>2, <1>5, <1>10, <1>11

LEMMA ArchiveHasTrailer ==
  ASSUME NEW n \in Nat, NEW first \in Nat \ {0}, NEW batch \in Seq(HeaderShape),
         first + Len(batch) <= n + 1, NEW regular \in BOOLEAN
  PROVE  Archive(regular, first, batch) \in Seq(Units(n)) /\ Archive(regular, first, batch) # <<>>
<1> DEFINE out == Archive(regular, first, batch)
<1>1. out \in Seq(Units(n))
  BY ArchiveType
<1>2. Lies(out, 0, out) /\ Len(out) = 0 + Len(out) /\ Whole(0)
  <2> HIDE DEF out
  <2> QED
    BY <1>1, SelfLies, WholeSum
<1>3. PICK start \in [0 .. Len(batch) -> Nat] : Starts(regular, first, batch, out, 0, start)
  <2>1. 0 \in Nat
    OBVIOUS
  <2> QED
    BY <1>1, <1>2, <2>1, ArchiveLies
<1>4. Lies(out, start[Len(batch)], Trailer) /\ start[Len(batch)] \in Nat
  BY <1>3 DEF Starts
<1> HIDE DEF out
<1>5. Len(out) >= 2 * BlockUnits
  <2>1. 2 * BlockUnits \in Nat
    BY UnitSizes
  <2>2. Len(Trailer) = 2 * BlockUnits
    BY <2>1 DEF Trailer, Zeros
  <2> QED
    BY <1>1, <1>4, <2>1, <2>2 DEF Lies
<1>6. out # <<>>
  BY <1>5, UnitSizes
<1> QED
  BY <1>1, <1>6 DEF out

(* Units behind others.                                                    *)
LEMMA LiesBehind ==
  ASSUME NEW E, NEW s \in Seq(E), NEW t \in Seq(E)
  PROVE  /\ Len(s \o t) = Len(s) + Len(t) /\ Lies(s \o t, Len(s), t)
         /\ s \o t \in Seq(E) /\ \A k \in 1 .. Len(s) : (s \o t)[k] = s[k]
<1>1. s \o t \in Seq(E) /\ Len(s \o t) = Len(s) + Len(t) /\ \A k \in 1 .. Len(s) : (s \o t)[k] = s[k]
  BY ConcatProperties
<1>2. Lies(s \o t, 0, s \o t)
  BY <1>1, SelfLies
<1>3. Lies(s \o t, 0 + Len(s), t)
  <2>1. 0 \in Nat
    OBVIOUS
  <2> QED
    BY <1>1, <1>2, <2>1, PartsLie
<1>4. 0 + Len(s) = Len(s)
  OBVIOUS
<1> QED
  BY <1>1, <1>3, <1>4

LEMMA AppendedLonger ==
  ASSUME DriveOK, NEW n \in Nat, Len(headers) <= n, NEW out \in Seq(Units(n))
  PROVE  Longer(isRegular, medium, Appended(out)) /\ Appended(out) \in Seq(Seq(Units(n)))
<1>0. /\ isRegular \in BOOLEAN /\ Len(headers) \in Nat
      /\ medium \in Seq(Seq(Units(n))) /\ Len(medium) \in Nat
      /\ isRegular => Len(medium) = 1
  <2>1. Seq(Units(Len(headers))) \subseteq Seq(Units(n)) /\ Len(headers) \in Nat
    BY UnitsMonotone DEF DriveOK
  <2>2. medium \in Seq(Seq(Units(n)))
    BY <2>1, SeqMonotonic DEF DriveOK
  <2> QED
    BY <2>1, <2>2 DEF DriveOK
<1>1. \A f \in 1 .. Len(medium) : medium[f] \in Seq(Units(n)) /\ Len(medium[f]) \in Nat
  <2> TAKE f \in 1 .. Len(medium)
  <2>1. medium[f] \in Seq(Units(n))
    BY <1>0, ElementOfSeq
  <2> QED
    BY <2>1
<1>2. CASE isRegular
  <2> DEFINE s == medium[1]
             longer == s \o out
  <2>0. Len(medium) = 1
    BY <1>2 DEF DriveOK
  <2>1. s \in Seq(Units(n)) /\ Len(s) \in Nat /\ Len(out) \in Nat
    BY <1>1, <2>0
  <2> HIDE DEF s
  <2>2. longer \in Seq(Units(n)) /\ Len(longer) = Len(s) + Len(out) /\ \A k \in 1 .. Len(s) : longer[k] = s[k]
    BY <2>1, LiesBehind
  <2>3. Appended(out) = <<longer>>
    BY <1>2 DEF Appended, s
  <2> HIDE DEF longer
  <2>4. \A f \in 1 .. Len(medium) : f = 1
    BY <2>0
  <2>5. <<longer>> \in Seq(Seq(Units(n))) /\ Len(<<longer>>) = 1 /\ <<longer>>[1] = longer
    BY <2>2
  <2>6. Len(s) <= Len(longer)
    BY <2>1, <2>2
  <2> QED
    BY <1>0, <1>2, <2>2, <2>3, <2>4, <2>5, <2>6, SMTT(40) DEF Longer, s
<1>3. CASE ~isRegular /\ out = <<>>
  BY <1>0, <1>1, <1>3 DEF Longer, Appended
<1>4. CASE ~isRegular /\ out # <<>>
  <2>1. Appended(out) = Append(medium, out)
    BY <1>4 DEF Appended
  <2>2. /\ Append(medium, out) \in Seq(Seq(Units(n))) /\ Len(Append(medium, out)) = Len(medium) + 1
        /\ \A f \in 1 .. Len(medium) : Append(medium, out)[f] = medium[f]
    BY <1>0, AppendProperties
  <2> QED
    BY <1>0, <1>1, <2>1, <2>2 DEF Longer
<1> QED
  BY <1>2, <1>3, <1>4

-----------------------------------------------------------------------------
(* Where the headers before the first torn archive are, place[n] that of   *)
(* the n-th; if none is torn, those are all and nothing is behind them.    *)
LaidOut(place) ==
  /\ intact \in 0 .. Len(headers) /\ torn \in BOOLEAN
  /\ place \in [1 .. intact -> Pos]
  /\ \A n \in 1 .. intact : Laid(isRegular, medium, headers, place, n)
  /\ ~torn => intact = Len(headers) /\ Closed(isRegular, medium, Reached(headers, place, intact))

LEMMA TornStaysLaid ==
  ASSUME DriveOK, NEW place, LaidOut(place), NEW batch \in Seq(HeaderShape), headers' = headers \o batch,
         NEW out \in Seq(Units(Len(headers'))), medium' = Appended(out), isRegular' = isRegular,
         torn' = TRUE, intact' = intact
  PROVE  LaidOut(place)'
<1> DEFINE all == headers \o batch
           more == Appended(out)
<1>0. /\ headers \in Seq(HeaderShape) /\ isRegular \in BOOLEAN /\ medium \in Seq(Seq(Units(Len(headers))))
      /\ Len(all) \in Nat /\ Len(headers) \in Nat /\ Len(headers) <= Len(all)
      /\ intact \in 0 .. Len(headers) /\ place \in [1 .. intact -> Pos]
      /\ \A n \in 1 .. intact : Laid(isRegular, medium, headers, place, n)
  <2>1. headers \in Seq(HeaderShape)
    BY DEF DriveOK
  <2>2. Len(all) = Len(headers) + Len(batch)
    BY <2>1, ConcatProperties
  <2> HIDE DEF all
  <2> QED
    BY <2>1, <2>2 DEF DriveOK, LaidOut
<1>1. out \in Seq(Units(Len(all)))
  OBVIOUS
<1>2. Longer(isRegular, medium, more) /\ more \in Seq(Seq(Units(Len(all))))
  <2> HIDE DEF all
  <2> QED
    BY <1>0, <1>1, AppendedLonger
<1>3. \A n \in 1 .. intact : Laid(isRegular, more, all, place, n)
  <2> HIDE DEF more
  <2> QED
    BY <1>0, <1>2, LayoutStays
<1>4. intact \in 0 .. Len(all)
  <2> HIDE DEF all
  <2> QED
    BY <1>0
<1> QED
  BY <1>0, <1>3, <1>4 DEF LaidOut

(* The archive of an operation lies where a scan gets to from the end.     *)
LEMMA OperationLies ==
  ASSUME DriveOK, NEW place, LaidOut(place), ~torn, NEW n \in Nat, Len(headers) <= n,
         NEW out \in Seq(Units(n)), out # <<>>
  PROVE  LET p == Reached(headers, place, intact)
             more == Appended(out)
             file == IF isRegular THEN 1 ELSE Len(medium) + 1
             at == IF isRegular THEN Len(medium[1]) ELSE 0
         IN  /\ file \in 1 .. Len(more) /\ at \in Nat /\ Whole(at)
             /\ Lies(more[file], at, out) /\ Len(more[file]) = at + Len(out)
             /\ Leads(isRegular, more, p, At(file, at))
             /\ isRegular => file = 1
             /\ ~isRegular => file = Len(more)
<1> DEFINE p == Reached(headers, place, intact)
           more == Appended(out)
<1>0. /\ headers \in Seq(HeaderShape) /\ medium \in Seq(Seq(Units(n))) /\ Len(medium) \in Nat
      /\ more \in Seq(Seq(Units(n))) /\ Longer(isRegular, medium, more)
      /\ Len(out) \in Nat /\ 2 * BlockUnits \in Nat \ {0}
  <2>1. Seq(Units(Len(headers))) \subseteq Seq(Units(n)) /\ Len(headers) \in Nat
    BY UnitsMonotone DEF DriveOK
  <2>2. medium \in Seq(Seq(Units(n)))
    BY <2>1, SeqMonotonic DEF DriveOK
  <2> QED
    BY <2>1, <2>2, AppendedLonger, UnitSizes DEF DriveOK
<1>1. /\ p \in Pos /\ Whole(p.at) /\ p.file = IF intact = 0 THEN 1 ELSE place[intact].file
      /\ p = At(p.file, p.at) /\ p.at \in Nat
  <2>1. /\ intact \in 0 .. Len(headers) /\ place \in [1 .. intact -> Pos]
        /\ \A k \in 1 .. intact : Whole(place[k].at)
    BY DEF LaidOut, Laid
  <2>2. intact \in 0 .. intact
    BY <2>1
  <2>3. p \in Pos /\ Whole(p.at) /\ p.file = IF intact = 0 THEN 1 ELSE place[intact].file
    BY <1>0, <2>1, <2>2, ReachedType
  <2> HIDE DEF p
  <2> QED
    BY <2>3 DEF Pos, At
<1>2. Closed(isRegular, medium, p)
  BY DEF LaidOut
<1>3. p.file \in 1 .. Len(medium) \/ p.file = 1
  <2>1. intact # 0 => intact \in 1 .. intact
    BY DEF LaidOut
  <2>2. intact # 0 => place[intact].file \in 1 .. Len(medium)
    BY <2>1, SMTT(40) DEF LaidOut, Laid
  <2> HIDE DEF p
  <2> QED
    BY <1>1, <2>2
<1>4. ASSUME isRegular
      PROVE  /\ 1 \in 1 .. Len(more) /\ Len(medium[1]) \in Nat /\ Whole(Len(medium[1]))
             /\ Lies(more[1], Len(medium[1]), out) /\ Len(more[1]) = Len(medium[1]) + Len(out)
             /\ Leads(isRegular, more, p, At(1, Len(medium[1])))
  <2> DEFINE s == medium[1]
             longer == s \o out
  <2>0. Len(medium) = 1
    BY <1>4 DEF DriveOK
  <2>1. s \in Seq(Units(n)) /\ UnitsIn(medium, 1) = s
    <3>1. 1 \in 1 .. Len(medium) /\ 1 \in DOMAIN medium
      BY <1>0, <2>0
    <3>2. medium[1] \in Seq(Units(n))
      BY <1>0, <3>1, ElementOfSeq
    <3> QED
      BY <3>1, <3>2 DEF UnitsIn
  <2>2. more = <<longer>>
    BY <1>4 DEF Appended
  <2>3. Len(more) = 1 /\ more[1] = longer /\ UnitsIn(more, 1) = longer
    <3> HIDE DEF longer, more
    <3> QED
      BY <2>2 DEF UnitsIn
  <2> HIDE DEF s
  <2>4. /\ Len(longer) = Len(s) + Len(out) /\ Lies(longer, Len(s), out)
        /\ longer \in Seq(Units(n)) /\ \A k \in 1 .. Len(s) : longer[k] = s[k]
    BY <2>1, LiesBehind
  <2> HIDE DEF longer, more
  <2>5. Len(s) \in Nat /\ Len(longer) \in Nat /\ Len(s) <= Len(longer)
    BY <1>0, <2>1, <2>4
  <2>6. p.file = 1 /\ Len(s) \in {p.at, p.at + 2 * BlockUnits}
    <3> HIDE DEF p
    <3> QED
      BY <1>2, <1>4, <2>1 DEF Closed
  <2> HIDE DEF p
  <2>7. Whole(Len(s))
    BY <1>1, <2>6, WholeSum
  <2>8. Leads(isRegular, more, p, At(1, Len(s)))
    <3>1. CASE Len(s) = p.at
      <4>1. At(1, Len(s)) = p
        BY <1>1, <2>6, <3>1
      <4> QED
        BY <4>1 DEF Leads
    <3>2. CASE Len(s) # p.at
      <4>1. Len(s) = p.at + 2 * BlockUnits
        BY <2>6, <3>2
      <4>2. Lies(s, p.at, Trailer)
        BY <1>2, <2>1, <2>6, <3>2 DEF Closed, EndsAt, LiesAt
      <4>3. Len(Trailer) \in Nat
        BY <1>0 DEF Trailer, Zeros
      <4>4. Lies(longer, p.at, Trailer)
        BY <1>1, <2>4, <2>5, <4>2, <4>3, StillLies
      <4>5. LiesAt(more, p, Trailer)
        BY <2>3, <2>6, <4>4 DEF LiesAt
      <4> QED
        BY <1>4, <2>6, <4>1, <4>5 DEF Leads
    <3> QED
      BY <3>1, <3>2
  <2> QED
    BY <2>3, <2>4, <2>5, <2>7, <2>8 DEF s
<1>5. ASSUME ~isRegular
      PROVE  /\ Len(medium) + 1 \in 1 .. Len(more) /\ Whole(0)
             /\ Lies(more[Len(medium) + 1], 0, out) /\ Len(more[Len(medium) + 1]) = 0 + Len(out)
             /\ Leads(isRegular, more, p, At(Len(medium) + 1, 0)) /\ Len(medium) + 1 = Len(more)
  <2>1. more = Append(medium, out)
    BY <1>5 DEF Appended
  <2>2. /\ Len(more) = Len(medium) + 1 /\ more[Len(medium) + 1] = out
        /\ \A f \in 1 .. Len(medium) : more[f] = medium[f]
    BY <1>0, <2>1, AppendProperties
  <2>3. Lies(out, 0, out)
    BY SelfLies
  <2> HIDE DEF more, p
  <2>4. Leads(isRegular, more, p, At(Len(medium) + 1, 0))
    <3>1. CASE p.file \in 1 .. Len(medium)
      <4>1. Len(medium) = p.file
        <5>1. medium # <<>>
          BY <1>0, <3>1
        <5> QED
          BY <1>2, <1>5, <5>1 DEF Closed
      <4>2. UnitsIn(more, p.file) = UnitsIn(medium, p.file)
        BY <1>0, <2>2, <3>1, SMTT(40) DEF UnitsIn
      <4>3. EndsAt(more, p)
        BY <1>2, <4>2 DEF Closed, EndsAt, LiesAt
      <4> QED
        BY <1>5, <4>1, <4>3 DEF Leads
    <3>2. CASE p.file \notin 1 .. Len(medium)
      <4>1. p.file = 1 /\ Len(medium) # 1
        <5>1. p.file = 1
          BY <1>3, <3>2
        <5>2. 1 \notin 1 .. Len(medium)
          BY <3>2, <5>1
        <5>3. Len(medium) = 1 => 1 \in 1 .. Len(medium)
          OBVIOUS
        <5> QED
          BY <5>1, <5>2, <5>3
      <4>2. medium = <<>> /\ p = At(1, 0)
        BY <1>2, <1>5, <4>1 DEF Closed
      <4>3. Len(medium) + 1 = 1
        BY <4>2
      <4> QED
        BY <4>2, <4>3 DEF Leads
    <3> QED
      BY <3>1, <3>2
  <2> QED
    BY <1>0, <2>2, <2>3, <2>4, WholeSum
<1>6. CASE isRegular
  BY <1>4, <1>6
<1>7. CASE ~isRegular
  <2> HIDE DEF more, p
  <2>1. 0 \in Nat
    OBVIOUS
  <2> QED
    BY <1>5, <1>7, <2>1 DEF more, p
<1> QED
  BY <1>6, <1>7

(* ... and its headers are laid out behind those there are.                *)
LEMMA ArchiveStaysLaid ==
  ASSUME DriveOK, NEW place, LaidOut(place), ~torn,
         NEW batch \in Seq(HeaderShape), Len(batch) >= 1, headers' = headers \o batch,
         medium' = Appended(Archive(isRegular, Len(headers) + 1, batch)), isRegular' = isRegular,
         torn' = FALSE, intact' = Len(headers')
  PROVE  \E place2 : LaidOut(place2)' /\ \A n \in 1 .. intact : place2[n] = place[n]
<1> DEFINE all == headers \o batch
           out == Archive(isRegular, Len(headers) + 1, batch)
           more == Appended(out)
           p == Reached(headers, place, intact)
           file == IF isRegular THEN 1 ELSE Len(medium) + 1
           at == IF isRegular THEN Len(medium[1]) ELSE 0
<1>0. /\ headers \in Seq(HeaderShape) /\ isRegular \in BOOLEAN /\ medium \in Seq(Seq(Units(Len(headers))))
      /\ Len(all) \in Nat /\ Len(headers) \in Nat /\ Len(headers) <= Len(all)
      /\ Len(all) = Len(headers) + Len(batch) /\ Len(batch) \in Nat
      /\ intact = Len(headers) /\ place \in [1 .. intact -> Pos]
      /\ \A n \in 1 .. intact : Laid(isRegular, medium, headers, place, n)
  <2>1. headers \in Seq(HeaderShape)
    BY DEF DriveOK
  <2>2. Len(all) = Len(headers) + Len(batch)
    BY <2>1, ConcatProperties
  <2> HIDE DEF all
  <2> QED
    BY <2>1, <2>2 DEF DriveOK, LaidOut
<1>1. out \in Seq(Units(Len(all))) /\ out # <<>>
  <2>1. Len(headers) + 1 \in Nat \ {0} /\ (Len(headers) + 1) + Len(batch) <= Len(all) + 1
    BY <1>0
  <2> HIDE DEF all
  <2> QED
    BY <1>0, <2>1, ArchiveHasTrailer
<1>2. Longer(isRegular, medium, more) /\ more \in Seq(Seq(Units(Len(all))))
  <2> HIDE DEF all, out
  <2> QED
    BY <1>0, <1>1, AppendedLonger
<1>3. /\ file \in 1 .. Len(more) /\ at \in Nat /\ Whole(at)
      /\ Lies(more[file], at, out) /\ Len(more[file]) = at + Len(out)
      /\ Leads(isRegular, more, p, At(file, at))
      /\ isRegular => file = 1
      /\ ~isRegular => file = Len(more)
  <2> HIDE DEF all, out
  <2> QED
    BY <1>0, <1>1, OperationLies
<1>4. \A n \in 1 .. Len(headers) : Laid(isRegular, more, all, place, n)
  <2>1. Len(headers) \in 0 .. Len(headers) /\ place \in [1 .. Len(headers) -> Pos]
        /\ \A n \in 1 .. Len(headers) : Laid(isRegular, medium, headers, place, n)
    BY <1>0
  <2> HIDE DEF more
  <2> QED
    BY <1>0, <1>2, <2>1, LayoutStays
<1>5. Reached(all, place, Len(headers)) = p
  <2>1. Len(headers) # 0 => all[Len(headers)] = headers[Len(headers)]
    <3>1. Len(headers) # 0 => Len(headers) \in 1 .. Len(headers)
      BY <1>0
    <3> QED
      BY <1>0, <3>1, ConcatProperties
  <2> HIDE DEF all
  <2> QED
    BY <1>0, <2>1 DEF Reached
<1>6. PICK place2 \in [1 .. Len(all) -> Pos] :
        /\ \A n \in 1 .. Len(headers) : place2[n] = place[n]
        /\ \A n \in 1 .. Len(all) : Laid(isRegular, more, all, place2, n)
        /\ Closed(isRegular, more, Reached(all, place2, Len(all)))
  <2>1. Leads(isRegular, more, Reached(all, place, Len(headers)), At(file, at))
    BY <1>3, <1>5
  <2>2. place \in [1 .. Len(headers) -> Pos]
    BY <1>0
  <2> HIDE DEF more, file, at, p
  <2>3. \A n \in 1 .. Len(headers) : Laid(isRegular, more, headers \o batch, place, n)
    BY <1>4
  <2> QED
    BY <1>0, <1>2, <1>3, <2>1, <2>2, <2>3, ArchiveExtends, ZenonT(60)
<1>7. Len(all) \in 0 .. Len(all)
  <2> HIDE DEF all
  <2> QED
    BY <1>0
<1>8. LaidOut(place2)'
  <2>1. headers' = all /\ medium' = more /\ isRegular' = isRegular /\ torn' = FALSE /\ intact' = Len(all)
    OBVIOUS
  <2> HIDE DEF all, more
  <2> QED
    BY <1>6, <1>7, <2>1 DEF LaidOut
<1> QED
  BY <1>0, <1>6, <1>8

PlaceOf(r) == At(FileWith(r.record), OffsetIn(FileWith(r.record), r.record, r.block))

LEMMA FileWithIs ==
  ASSUME DriveOK, NEW file \in 1 .. EndOfData, NEW record \in Nat,
         isRegular => file = 1,
         ~isRegular => FirstRecord(file) <= record /\ file < EndOfData /\ record < FirstRecord(file + 1)
  PROVE  FileWith(record) = file
<1> DEFINE g == FileWith(record)
<1>0. EndOfData \in Nat
  BY DEF DriveOK, EndOfData
<1>1. /\ g \in 1 .. EndOfData /\ (isRegular => g = 1)
      /\ ~isRegular => FirstRecord(g) <= record /\ (g < EndOfData => record < FirstRecord(g + 1))
  BY FileWithType
<1> HIDE DEF g
<1>2. CASE isRegular
  BY <1>1, <1>2 DEF g
<1>3. CASE ~isRegular
  <2>1. /\ \A f \in 1 .. EndOfData : FirstRecord(f) \in Nat
        /\ \A e, f \in 1 .. EndOfData : e < f => FirstRecord(e) < FirstRecord(f)
    BY FirstRecordsAscend DEF DriveOK, FirstRecord, EndOfData
  <2>2. \A e, f \in 1 .. EndOfData : e <= f => FirstRecord(e) <= FirstRecord(f)
    <3> TAKE e, f \in 1 .. EndOfData
    <3>1. e <= f => e = f \/ e < f
      BY <1>0
    <3> QED
      BY <2>1, <3>1
  <2>3. ~(g < file)
    <3> SUFFICES ASSUME g < file PROVE FALSE
      OBVIOUS
    <3>1. g + 1 \in 1 .. EndOfData /\ g + 1 <= file /\ g < EndOfData
      BY <1>0, <1>1
    <3>2. FirstRecord(g + 1) <= FirstRecord(file) /\ FirstRecord(g + 1) \in Nat /\ FirstRecord(file) \in Nat
      BY <2>1, <2>2, <3>1
    <3> QED
      BY <1>1, <1>3, <3>1, <3>2
  <2>4. ~(file < g)
    <3> SUFFICES ASSUME file < g PROVE FALSE
      OBVIOUS
    <3>1. file + 1 \in 1 .. EndOfData /\ file + 1 <= g
      BY <1>0, <1>1
    <3>2. FirstRecord(file + 1) <= FirstRecord(g) /\ FirstRecord(file + 1) \in Nat /\ FirstRecord(g) \in Nat
      BY <1>1, <2>1, <2>2, <3>1
    <3> QED
      BY <1>1, <1>3, <3>2
  <2> QED
    BY <1>0, <1>1, <2>3, <2>4 DEF g
<1> QED
  BY <1>2, <1>3

(* The record and block of a place lead back to it.                        *)
LEMMA PlaceIs ==
  ASSUME DriveOK, NEW file \in 1 .. EndOfData, isRegular => file = 1,
         NEW at \in Nat, at + BlockUnits <= Len(UnitsOf(file)),
         NEW record \in Nat, NEW block \in 0 .. RecordSize - 1,
         (record * RecordSize + block) * BlockUnits = Base(file) + at
  PROVE  FileWith(record) = file /\ OffsetIn(file, record, block) = at
<1>0. /\ Base(file) \in Nat /\ BlockUnits \in Nat \ {0} /\ RecordUnits \in Nat \ {0} /\ EndOfData \in Nat
      /\ record * RecordUnits \in Nat /\ (record + 1) * RecordUnits \in Nat
  BY BaseType, UnitSizes, ProductNat DEF DriveOK, EndOfData
<1>1. /\ record * RecordUnits <= (record * RecordSize + block) * BlockUnits
      /\ (record * RecordSize + block) * BlockUnits < (record + 1) * RecordUnits
  <2>1. /\ RecordSize \in Nat /\ BlockUnits \in Nat \ {0} /\ record * RecordSize \in Nat /\ block \in Nat
        /\ (record + 1) * RecordSize \in Nat
    BY UnitSizes, ProductNat
  <2>2. (record + 1) * RecordSize = record * RecordSize + RecordSize
    <3>1. 1 * RecordSize = RecordSize
      BY <2>1
    <3> QED
      BY <2>1, <3>1, ProductDistributes
  <2>3. record * RecordUnits = (record * RecordSize) * BlockUnits
        /\ (record + 1) * RecordUnits = ((record + 1) * RecordSize) * BlockUnits
    BY UnitSizes DEF RecordUnits
  <2> DEFINE a == record * RecordSize
             c == (record + 1) * RecordSize
  <2>4. a \in Nat /\ c \in Nat /\ a <= a + block /\ a + block + 1 <= c /\ a + block \in Nat
    BY <2>1, <2>2
  <2> HIDE DEF a, c
  <2>5. a * BlockUnits <= (a + block) * BlockUnits /\ (a + block + 1) * BlockUnits <= c * BlockUnits
    BY <2>1, <2>4, ProductMonotone
  <2>6. (a + block + 1) * BlockUnits = (a + block) * BlockUnits + BlockUnits /\ (a + block) * BlockUnits \in Nat
        /\ c * BlockUnits \in Nat
    <3>1. 1 * BlockUnits = BlockUnits
      BY <2>1
    <3> QED
      BY <2>1, <2>4, <3>1, ProductDistributes, ProductNat
  <2>7. (a + block) * BlockUnits < c * BlockUnits
    BY <2>1, <2>5, <2>6
  <2> QED
    BY <2>3, <2>5, <2>7 DEF a, c
<1>2. CASE isRegular
  <2>1. FileWith(record) = 1 /\ file = 1 /\ Base(file) = 0
    BY <1>2 DEF FileWith, Base
  <2>2. /\ OffsetIn(file, record, block) \in Nat
        /\ Base(file) + OffsetIn(file, record, block) = (record * RecordSize + block) * BlockUnits
    BY <2>1, OffsetOfPlace
  <2> QED
    BY <2>1, <2>2
<1>3. CASE ~isRegular
  <2> DEFINE before == FirstRecord(file)
             after == FirstRecord(file + 1)
             unit == (record * RecordSize + block) * BlockUnits
  <2>1. file < EndOfData /\ Base(file) + (at + BlockUnits) <= after * RecordUnits
    <3>1. at + BlockUnits \in Nat /\ 0 < at + BlockUnits
      BY <1>0
    <3> QED
      BY <1>3, <3>1, FileEnds
  <2>2. before \in Nat /\ after \in Nat /\ Base(file) = before * RecordUnits
    <3>1. file + 1 \in 1 .. EndOfData
      BY <1>0, <2>1
    <3> QED
      BY <1>3, <3>1, FirstRecordsAscend DEF DriveOK, FirstRecord, EndOfData, Base
  <2> HIDE DEF before, after, unit
  <2>3. before * RecordUnits \in Nat /\ after * RecordUnits \in Nat
    BY <1>0, <2>2, ProductNat
  <2>4. unit = before * RecordUnits + at
    BY <2>2 DEF unit
  <2>5. record * RecordUnits <= unit /\ unit < (record + 1) * RecordUnits
    BY <1>1 DEF unit
  <2>6. before * RecordUnits < (record + 1) * RecordUnits
    BY <1>0, <2>3, <2>4, <2>5
  <2>7. record * RecordUnits < after * RecordUnits
    BY <1>0, <2>1, <2>2, <2>3, <2>4, <2>5
  <2>8. before < record + 1 /\ record < after
    BY <1>0, <2>2, <2>6, <2>7, ProductMonotone
  <2>9. FileWith(record) = file
    <3>1. FirstRecord(file) <= record /\ record < FirstRecord(file + 1)
      BY <2>2, <2>8 DEF before, after
    <3> QED
      BY <1>3, <2>1, <3>1, FileWithIs
  <2>10. /\ OffsetIn(file, record, block) \in Nat
         /\ Base(file) + OffsetIn(file, record, block) = (record * RecordSize + block) * BlockUnits
    BY <2>9, OffsetOfPlace
  <2> QED
    BY <1>0, <2>9, <2>10
<1> QED
  BY <1>2, <1>3

(* What is added to a drive leaves places where they are.                  *)
LEMMA PlacesStay ==
  ASSUME DriveOK, DriveOK', isRegular' = isRegular, EndOfData <= EndOfData',
         ~isRegular => \A f \in 1 .. EndOfData : FirstRecord(f)' = FirstRecord(f),
         NEW r, r.record \in Nat, r.block \in 0 .. RecordSize - 1,
         ~isRegular => r.record < FirstRecord(EndOfData)
  PROVE  PlaceOf(r)' = PlaceOf(r)
<1>0. EndOfData \in Nat \ {0} /\ EndOfData' \in Nat
  BY DEF DriveOK, EndOfData
<1>1. CASE isRegular
  BY <1>1 DEF PlaceOf, FileWith, OffsetIn
<1>2. CASE ~isRegular
  <2> DEFINE S == {f \in 1 .. EndOfData : FirstRecord(f) <= r.record}
             T == {f \in 1 .. EndOfData' : FirstRecord(f)' <= r.record}
  <2>1. /\ \A f \in 1 .. EndOfData' : FirstRecord(f)' \in Nat
        /\ \A e, f \in 1 .. EndOfData' : e < f => FirstRecord(e)' < FirstRecord(f)'
    <3>1. EndOfData' = Len(medium') + 1 /\ \A f : FirstRecord(f)' = FirstRecords(medium')[f]
      BY DEF EndOfData, FirstRecord
    <3> HIDE DEF EndOfData, FirstRecord
    <3> QED
      BY <3>1, FirstRecordsAscend DEF DriveOK
  <2>2. S = T
    <3>1. \A f \in 1 .. EndOfData : f \in 1 .. EndOfData'
      BY <1>0
    <3>2. ASSUME NEW f \in T PROVE f \in 1 .. EndOfData
      <4>1. CASE f <= EndOfData
        BY <1>0, <4>1
      <4>2. CASE ~(f <= EndOfData)
        <5>1. EndOfData \in 1 .. EndOfData /\ EndOfData \in 1 .. EndOfData' /\ EndOfData < f
          BY <1>0, <4>2
        <5>2. FirstRecords(medium')[EndOfData] < FirstRecords(medium')[f]
          BY <2>1, <5>1 DEF FirstRecord
        <5>3. FirstRecords(medium')[EndOfData] = FirstRecords(medium)[EndOfData]
          BY <1>2, <5>1 DEF FirstRecord
        <5>4. r.record < FirstRecords(medium)[EndOfData] /\ FirstRecords(medium')[f] <= r.record
          BY <1>2 DEF FirstRecord
        <5>5. FirstRecords(medium')[f] \in Nat /\ FirstRecords(medium')[EndOfData] \in Nat
          BY <2>1, <5>1 DEF FirstRecord
        <5> HIDE DEF EndOfData
        <5> QED
          BY <5>2, <5>3, <5>4, <5>5
      <4> QED
        BY <4>1, <4>2
    <3> QED
      BY <1>2, <3>1, <3>2
  <2>3. FileWith(r.record) = Max(S) /\ FileWith(r.record)' = Max(T)
    BY <1>2 DEF FileWith
  <2> HIDE DEF S, T
  <2>4. FileWith(r.record)' = FileWith(r.record)
    BY <2>2, <2>3
  <2>5. FileWith(r.record) \in 1 .. EndOfData
    BY FileWithType
  <2>6. FirstRecord(FileWith(r.record))' = FirstRecord(FileWith(r.record))
    BY <1>2, <2>4, <2>5 DEF FirstRecord
  <2> QED
    BY <1>2, <2>4, <2>6 DEF PlaceOf, OffsetIn
<1> QED
  BY <1>1, <1>2

-----------------------------------------------------------------------------
(* The inductive invariant, about a scan and the layout of the drive.      *)

(* A row that is indexed for a header is where the header is.              *)
IndexPlaced(place) ==
  \A k \in DOMAIN index :
    /\ index[k].id \in 0 .. Len(headers)
    /\ k <= intact => index[k].id = k /\ PlaceOf(index[k]) = place[k]

Complete == Len(index) >= intact /\ (~torn => Len(index) = intact)

(* An index that is trusted is complete.                                   *)
Trusted == trusted /\ (scan = Idle \/ scan.by = "query") => Complete

(* The scans of Index that are on known ground: any, if nothing is torn,   *)
(* and Index of everything until it has come to what is.                   *)
Follows == scan.by # "query" /\ (~torn \/ (scan.by = "recovery" /\ Len(index) < intact))

(* The header that such a scan reads next.                                 *)
Due == IF scan.i < scan.offset THEN scan.from ELSE Len(index) + 1

Here == At(scan.file, scan.at + scan.pad)

(* On the way to the n-th header, or behind the last one.                  *)
OnTrack(place, n) ==
  /\ n \in 1 .. intact + 1
  /\ n <= intact =>
       \/ scan.pc = "next" /\ Here \in {place[n], Reached(headers, place, n - 1)}
       \/ scan.pc = "resync" /\ Here = place[n]
  /\ n > intact =>
       \/ scan.pc = "next" /\ Here = Reached(headers, place, intact)
       \/ scan.pc = "next" /\ ~isRegular /\ Here = At(EndOfData, 0)
       \/ scan.pc \in {"resync", "mark"} /\ scan.at = Len(UnitsOf(1))
       \/ scan.pc = "done"

(* What the scan of an operation does not index is what was indexed last;  *)
(* what it indexes are the headers in memory, in their order.              *)
Counts ==
  /\ scan.by = "recovery" => scan.offset = 0
  /\ scan.by = "operation" /\ torn => Len(index) >= intact /\ scan.from >= intact
  /\ scan.by = "operation" /\ ~torn =>
       IF scan.i < scan.offset
         THEN scan.from = Len(index) /\ Len(index) <= intact /\ scan.i = 0 /\ scan.offset = 1
       ELSE scan.from + (scan.i - scan.offset) = Len(index)

Tracked(place) ==
  scan # Idle /\ scan.by # "query" => Counts /\ (Follows => OnTrack(place, Due))

Aligned ==
  scan # Idle /\ scan.pc = "next" => scan.pad < BlockUnits /\ Whole(scan.at + scan.pad)

LayoutInv ==
  /\ Fetchable /\ Trusted /\ Aligned
  /\ \E place : LaidOut(place) /\ IndexPlaced(place) /\ Tracked(place)

-----------------------------------------------------------------------------
(* The beginning.                                                          *)

(* An archive of another program that is on the drive ends as those of     *)
(* archive/tar do, or just ends.                                           *)
PlainPadding == "foreign" \in Permit => Padding \subseteq {0, 2}

LEMMA EmptyLaid ==
  ASSUME DriveOK, headers = <<>>, intact = 0, torn = FALSE, NEW place, place = [n \in 1 .. 0 |-> At(1, 0)],
         medium = IF isRegular THEN <<<<>>>> ELSE <<>>
  PROVE  LaidOut(place)
<1>1. UnitsIn(medium, 1) = <<>> /\ (~isRegular => medium = <<>>)
  <2>1. CASE isRegular
    <3>1. medium = <<<<>>>>
      BY <2>1
    <3> QED
      BY <2>1, <3>1 DEF UnitsIn
  <2>2. CASE ~isRegular
    <3>1. medium = <<>>
      BY <2>2
    <3> QED
      BY <2>2, <3>1 DEF UnitsIn
  <2> QED
    BY <2>1, <2>2
<1>2. Reached(headers, place, 0) = At(1, 0) /\ At(1, 0).file = 1 /\ At(1, 0).at = 0 /\ Len(<<>>) = 0
  BY DEF Reached, At
<1>3. Closed(isRegular, medium, At(1, 0))
  BY <1>1, <1>2 DEF Closed, EndsAt
<1>4. place \in [1 .. 0 -> Pos] /\ \A n \in 1 .. 0 : FALSE
  BY DEF At, Pos
<1>5. Len(headers) = 0 /\ intact \in 0 .. Len(headers) /\ torn \in BOOLEAN /\ place \in [1 .. intact -> Pos]
  <2>1. Len(headers) = 0 /\ intact \in 0 .. Len(headers)
    OBVIOUS
  <2>2. torn \in BOOLEAN
    OBVIOUS
  <2>3. place \in [1 .. intact -> Pos]
    <3>1. 1 .. intact = 1 .. 0
      OBVIOUS
    <3> QED
      BY <1>4, <3>1, Zenon
  <2> QED
    BY <2>1, <2>2, <2>3
<1>6. \A n \in 1 .. intact : Laid(isRegular, medium, headers, place, n)
  BY <1>4
<1>7. Closed(isRegular, medium, Reached(headers, place, intact))
  BY <1>2, <1>3
<1> QED
  BY <1>5, <1>6, <1>7 DEF LaidOut

LEMMA ForeignLaid ==
  ASSUME DriveOK, NEW h \in HeaderShape, NEW blocks \in {0, 2},
         headers = <<h>>, medium = <<Entry(1, h) \o Zeros(blocks * BlockUnits)>>,
         intact = 1, torn = FALSE, NEW place, place = [n \in 1 .. 1 |-> At(1, 0)]
  PROVE  LaidOut(place)
<1> DEFINE entry == Entry(1, h)
           zeros == Zeros(blocks * BlockUnits)
           units == entry \o zeros
           end == EntryUnits(h)
<1>1. blocks * BlockUnits \in Nat /\ 2 * BlockUnits \in Nat /\ (blocks = 0 => blocks * BlockUnits = 0)
  BY UnitSizes
<1>2. /\ entry \in Seq(Units(1)) /\ Len(entry) = end /\ end \in Nat
      /\ zeros \in Seq(Units(1)) /\ Len(zeros) = blocks * BlockUnits
  <2>1. 1 \in Nat /\ 1 \in 1 .. 1
    OBVIOUS
  <2>2. entry \in Seq(Units(1)) /\ Len(entry) = end
    BY <2>1, EntryType, EntryLength
  <2>3. end \in Nat
    BY HeadIs
  <2>4. zeros \in Seq(Units(1)) /\ Len(zeros) = blocks * BlockUnits
    BY <1>1, <2>1, ZerosType
  <2> QED
    BY <2>2, <2>3, <2>4
<1> HIDE DEF entry, zeros, end
<1>3. /\ units \in Seq(Units(1)) /\ Len(units) = end + blocks * BlockUnits
      /\ Lies(units, 0, entry) /\ Lies(units, end, zeros)
  <2>1. Len(units) = Len(entry) + Len(zeros) /\ Lies(units, Len(entry), zeros) /\ units \in Seq(Units(1))
    BY <1>2, LiesBehind
  <2>2. Lies(units, 0, units) /\ 0 \in Nat
    BY <2>1, SelfLies
  <2>3. Lies(units, 0, entry)
    BY <1>2, <2>1, <2>2, PartsLie
  <2> QED
    BY <1>2, <2>1, <2>3
<1>4. medium = <<units>>
  BY DEF entry, zeros
<1> HIDE DEF units
<1>5. UnitsIn(medium, 1) = units /\ 1 \in DOMAIN medium /\ Len(medium) = 1
  BY <1>4 DEF UnitsIn
<1>6. /\ place[1] = At(1, 0) /\ At(1, 0).file = 1 /\ At(1, 0).at = 0
      /\ Reached(headers, place, 0) = At(1, 0)
      /\ Len(headers) = 1 /\ headers[1] = h
  BY DEF Reached, At
<1>7. Reached(headers, place, 1) = At(1, end) /\ At(1, end).file = 1 /\ At(1, end).at = end
  <2>1. 0 + end = end
    BY <1>2
  <2> QED
    BY <1>6, <2>1 DEF Reached, At, end
<1>8. Laid(isRegular, medium, headers, place, 1)
  <2>1. 1 - 1 = 0
    OBVIOUS
  <2>2. LiesAt(medium, place[1], Entry(1, headers[1]))
    BY <1>3, <1>5, <1>6 DEF LiesAt, entry
  <2>3. Leads(isRegular, medium, Reached(headers, place, 0), place[1])
    BY <1>6 DEF Leads
  <2> QED
    BY <1>5, <1>6, <2>1, <2>2, <2>3, WholeSum DEF Laid
<1>9. Closed(isRegular, medium, At(1, end))
  <2>1. Len(units) = end \/ (Len(units) = end + 2 * BlockUnits /\ Lies(units, end, Trailer))
    <3>1. CASE blocks = 0
      BY <1>1, <1>2, <1>3, <3>1
    <3>2. CASE blocks = 2
      <4>1. zeros = Trailer
        BY <3>2 DEF zeros, Trailer
      <4> QED
        BY <1>3, <3>2, <4>1
    <3> QED
      BY <3>1, <3>2
  <2>2. EndsAt(medium, At(1, end))
    BY <1>5, <1>7, <2>1 DEF EndsAt, LiesAt
  <2> QED
    BY <1>5, <1>7, <2>1, <2>2 DEF Closed
<1>10. place \in [1 .. 1 -> Pos] /\ \A n \in 1 .. 1 : n = 1
  BY DEF At, Pos
<1>11. intact \in 0 .. Len(headers) /\ torn \in BOOLEAN /\ place \in [1 .. intact -> Pos]
  <2>1. intact \in 0 .. Len(headers)
    BY <1>6
  <2>2. torn \in BOOLEAN
    OBVIOUS
  <2>3. place \in [1 .. intact -> Pos]
    <3>1. 1 .. intact = 1 .. 1
      OBVIOUS
    <3> QED
      BY <1>10, <3>1, Zenon
  <2> QED
    BY <2>1, <2>2, <2>3
<1>12. \A n \in 1 .. intact : Laid(isRegular, medium, headers, place, n)
  BY <1>8, <1>10
<1>13. Closed(isRegular, medium, Reached(headers, place, intact))
  BY <1>7, <1>9
<1> QED
  BY <1>6, <1>11, <1>12, <1>13 DEF LaidOut

LEMMA InitLayoutInv ==
  ASSUME Init, PlainPadding
  PROVE  LayoutInv
<1>1. DriveOK
  BY InitBlocksInv DEF BlocksInv
<1>2. intact = Len(headers) /\ torn = FALSE /\ index = <<>> /\ trusted = FALSE /\ scan = Idle
  BY DEF Init
<1>3. \E place : LaidOut(place)
  <2>1. CASE Empty
    <3>1. headers = <<>> /\ Len(<<>>) = 0 /\ medium = IF isRegular THEN <<<<>>>> ELSE <<>>
      BY <2>1 DEF Empty
    <3>2. intact = 0
      BY <1>2, <3>1
    <3> QED
      BY <1>1, <1>2, <3>1, <3>2, EmptyLaid
  <2>2. CASE ForeignArchive
    <3>1. PICK h \in HeaderShape, blocks \in Padding :
            headers = <<h>> /\ medium = <<Entry(1, h) \o Zeros(blocks * BlockUnits)>>
      BY <2>2 DEF ForeignArchive
    <3>2. blocks \in {0, 2}
      BY <2>2 DEF ForeignArchive, PlainPadding
    <3> HIDE DEF Entry, Zeros
    <3>3. intact = 1
      <4>1. Len(<<h>>) = 1
        OBVIOUS
      <4> QED
        BY <1>2, <3>1, <4>1
    <3> QED
      BY <1>1, <1>2, <3>1, <3>2, <3>3, ForeignLaid
  <2> QED
    BY <2>1, <2>2 DEF Init
<1>4. DOMAIN index = {} /\ ToSet(index) = {}
  BY <1>2 DEF ToSet
<1>5. Fetchable
  BY <1>4 DEF Fetchable
<1> QED
  BY <1>2, <1>3, <1>4, <1>5 DEF LayoutInv, Trusted, Aligned, IndexPlaced, Tracked

-----------------------------------------------------------------------------
(* Scans begin.                                                            *)

LEMMA ScanFields ==
  ASSUME NEW by, NEW offset, NEW from, NEW record, NEW block
  PROVE  LET s == Scan(by, offset, from, record, block)
         IN  /\ s.pc = "next" /\ s.by = by /\ s.offset = offset /\ s.from = from /\ s.i = 0 /\ s.pad = 0
             /\ s.file = FileWith(record) /\ s.at = OffsetIn(FileWith(record), record, block)
             /\ s # Idle
<1> DEFINE file == FileWith(record)
           at == OffsetIn(file, record, block)
           counter == (record * RecordSize + block) * BlockUnits
           s == [pc |-> "next", by |-> by, offset |-> offset, from |-> from, i |-> 0,
                 record |-> record, block |-> block, file |-> file, at |-> at, pad |-> 0,
                 counter |-> counter, counts |-> TRUE]
<1>1. Scan(by, offset, from, record, block) = s
  BY DEF Scan
<1> HIDE DEF file, at, counter
<1>2. /\ s.pc = "next" /\ s.by = by /\ s.offset = offset /\ s.from = from /\ s.i = 0 /\ s.pad = 0
      /\ s.file = file /\ s.at = at
      /\ s # Idle
  BY DEF Idle
<1> HIDE DEF s
<1> QED
  BY <1>1, <1>2 DEF file, at

LEMMA OffsetWhole ==
  ASSUME DriveOK, NEW record \in Nat, NEW block \in 0 .. RecordSize - 1
  PROVE  Whole(OffsetIn(FileWith(record), record, block))
<1> DEFINE file == FileWith(record)
           first == IF isRegular THEN 0 ELSE FirstRecord(file)
<1>1. first \in Nat /\ first <= record
  <2>1. CASE isRegular
    BY <2>1
  <2>2. CASE ~isRegular
    <3>1. file \in 1 .. EndOfData /\ FirstRecord(file) <= record
      BY <2>2, FileWithType
    <3> HIDE DEF file
    <3>2. FirstRecord(file) \in Nat
      BY <3>1, FirstRecordsAscend DEF DriveOK, FirstRecord, EndOfData
    <3> QED
      BY <2>2, <3>1, <3>2
  <2> QED
    BY <2>1, <2>2
<1>2. OffsetIn(file, record, block) = ((record - first) * RecordSize + block) * BlockUnits
  BY DEF OffsetIn
<1> HIDE DEF first, file
<1>3. (record - first) * RecordSize + block \in Nat
  <2>1. record - first \in Nat /\ RecordSize \in Nat /\ block \in Nat
    BY <1>1, UnitSizes
  <2>2. (record - first) * RecordSize \in Nat
    BY <2>1, ProductNat
  <2> QED
    BY <2>1, <2>2
<1> QED
  BY <1>2, <1>3 DEF Whole, file

(* Scans leave the drive alone.                                            *)
LEMMA DriveSame ==
  ASSUME UNCHANGED drive
  PROVE  /\ headers' = headers /\ intact' = intact /\ torn' = torn /\ isRegular' = isRegular
         /\ \A place : LaidOut(place)' <=> LaidOut(place)
         /\ \A place, n : Reached(headers, place, n)' = Reached(headers, place, n)
         /\ \A r : PlaceOf(r)' = PlaceOf(r)
         /\ \A record, block : Fetch(record, block)' = Fetch(record, block)
<1>1. /\ headers' = headers /\ intact' = intact /\ torn' = torn /\ isRegular' = isRegular
      /\ medium' = medium
  BY DEF drive
<1>2. \A place : LaidOut(place)' <=> LaidOut(place)
  BY <1>1 DEF LaidOut
<1>3. \A record : FileWith(record)' = FileWith(record)
  BY <1>1 DEF FileWith, EndOfData, FirstRecord
<1>4. \A file, record, block : OffsetIn(file, record, block)' = OffsetIn(file, record, block)
  BY <1>1 DEF OffsetIn, FirstRecord
<1>5. \A file : UnitsOf(file)' = UnitsOf(file)
  BY <1>1 DEF UnitsOf
<1>6. \A r : PlaceOf(r)' = PlaceOf(r)
  BY <1>1 DEF PlaceOf, FileWith, EndOfData, FirstRecord, OffsetIn
<1>7. \A record, block : Fetch(record, block)' = Fetch(record, block)
  BY <1>1 DEF Fetch, FileWith, EndOfData, FirstRecord, OffsetIn, UnitsOf
<1>8. \A place, n : Reached(headers, place, n)' = Reached(headers, place, n)
  BY <1>1
<1> QED
  BY <1>1, <1>2, <1>6, <1>7, <1>8

LEMMA ScanIsAligned ==
  ASSUME DriveOK, NEW by, NEW offset, NEW from, NEW record \in Nat, NEW block \in 0 .. RecordSize - 1,
         scan' = Scan(by, offset, from, record, block)
  PROVE  Aligned'
<1> DEFINE s == Scan(by, offset, from, record, block)
<1>1. s.pad = 0 /\ s.at = OffsetIn(FileWith(record), record, block)
  BY ScanFields
<1>2. Whole(s.at) /\ s.at + s.pad = s.at
  <2>1. Whole(s.at)
    BY <1>1, OffsetWhole
  <2> HIDE DEF s
  <2> QED
    BY <1>1, <2>1, WholeSum
<1>3. scan'.pad < BlockUnits /\ Whole(scan'.at + scan'.pad)
  <2>1. s.pad < BlockUnits /\ Whole(s.at + s.pad)
    <3> HIDE DEF s
    <3> QED
      BY <1>1, <1>2, UnitSizes
  <2> QED
    BY <2>1
<1> QED
  BY <1>3 DEF Aligned, Whole

(* Index of everything begins before the first header.                     *)
LEMMA StartsOnTrack ==
  ASSUME NEW place, intact' \in Nat, index' = <<>>, NEW by, by # "query",
         scan'.pc = "next" /\ scan'.by = by /\ scan'.offset = 0 /\ scan'.from = 0 /\ scan'.i = 0,
         scan'.pad = 0 /\ scan'.at = 0 /\ scan'.file = 1,
         by = "operation" => torn' = FALSE
  PROVE  Tracked(place)'
<1>1. Due' = 1 /\ Len(index') = 0
  BY DEF Due
<1>2. Here' = At(1, 0) /\ Reached(headers', place, 0) = At(1, 0)
  BY DEF Here, Reached
<1>3. OnTrack(place, 1)'
  <2>1. CASE intact' = 0
    BY <1>2, <2>1 DEF OnTrack
  <2>2. CASE intact' # 0
    <3> DEFINE count == intact'
    <3>0. count \in Nat /\ count # 0
      BY <2>2
    <3> HIDE DEF count
    <3>1. 1 \in 1 .. count + 1 /\ 1 - 1 = 0 /\ ~(1 > count)
      BY <3>0
    <3> USE DEF count
    <3> QED
      BY <1>2, <3>1 DEF OnTrack
  <2> QED
    BY <2>1, <2>2
<1>4. Counts'
  BY <1>1 DEF Counts
<1>5. OnTrack(place, Due)'
  BY <1>1, <1>3 DEF OnTrack
<1> QED
  BY <1>4, <1>5 DEF Tracked

LEMMA RecoveryIndexKeepsLayout ==
  ASSUME BlocksInv, LayoutInv, RecoveryIndex
  PROVE  LayoutInv'
<1>1. /\ scan = Idle /\ index' = <<>> /\ scan' = Scan("recovery", 0, 0, 0, 0)
      /\ UNCHANGED drive /\ trusted' = trusted
  BY DEF RecoveryIndex
<1>2. DriveOK /\ 0 \in Nat /\ 0 \in 0 .. RecordSize - 1
  BY UnitSizes DEF BlocksInv
<1>3. /\ scan'.pc = "next" /\ scan'.by = "recovery" /\ scan'.offset = 0 /\ scan'.from = 0 /\ scan'.i = 0
      /\ scan'.pad = 0 /\ scan'.at = 0 /\ scan'.file = 1 /\ scan' # Idle
  BY <1>1, <1>2, ScanFields, ScanFromStart
<1>4. Aligned'
  BY <1>1, <1>2, ScanIsAligned
<1>5. PICK place : LaidOut(place)
  BY DEF LayoutInv
<1>6. LaidOut(place)' /\ intact' \in Nat
  <2>1. intact' = intact /\ (LaidOut(place)' <=> LaidOut(place))
    BY <1>1, DriveSame
  <2>2. intact \in Nat
    BY <1>2, <1>5 DEF LaidOut, DriveOK
  <2> QED
    BY <1>5, <2>1, <2>2
<1>7. Tracked(place)'
  BY <1>1, <1>3, <1>6, StartsOnTrack
<1>8. Fetchable' /\ IndexPlaced(place)'
  <2>1. DOMAIN index' = {} /\ ToSet(index)' = {}
    BY <1>1 DEF ToSet
  <2> QED
    BY <2>1 DEF Fetchable, IndexPlaced
<1>9. Trusted'
  BY <1>3 DEF Trusted
<1> QED
  BY <1>4, <1>6, <1>7, <1>8, <1>9 DEF LayoutInv

LEMMA QueryKeepsLayout ==
  ASSUME BlocksInv, LayoutInv, NEW row \in ToSet(index), Query(row)
  PROVE  LayoutInv'
<1>1. /\ scan = Idle /\ index' = index /\ scan' = Scan("query", 0, 0, row.record, row.block)
      /\ UNCHANGED drive /\ trusted' = trusted
  BY DEF Query
<1>2. DriveOK /\ row.record \in Nat /\ row.block \in 0 .. RecordSize - 1
  <2>1. row \in Row
    BY DEF ToSet, BlocksInv
  <2> QED
    BY <2>1 DEF Row, BlocksInv
<1>3. scan'.by = "query" /\ scan' # Idle
  BY <1>1, ScanFields
<1>4. Aligned'
  BY <1>1, <1>2, ScanIsAligned
<1>5. PICK place : LaidOut(place) /\ IndexPlaced(place)
  BY DEF LayoutInv
<1>6. LaidOut(place)' /\ intact' = intact /\ torn' = torn /\ headers' = headers
      /\ \A r : PlaceOf(r)' = PlaceOf(r)
  BY <1>1, <1>5, DriveSame
<1>7. IndexPlaced(place)'
  BY <1>1, <1>5, <1>6 DEF IndexPlaced
<1>8. Tracked(place)'
  BY <1>3 DEF Tracked
<1>9. Fetchable'
  <2>1. \A record, block : Fetch(record, block)' = Fetch(record, block)
    BY <1>1, DriveSame
  <2>2. Fetchable
    BY DEF LayoutInv
  <2> QED
    BY <1>1, <1>6, <2>1, <2>2 DEF Fetchable
<1>10. Trusted'
  <2>1. Trusted
    BY DEF LayoutInv
  <2> QED
    BY <1>1, <1>6, <2>1 DEF Trusted, Complete
<1> QED
  BY <1>4, <1>6, <1>7, <1>8, <1>9, <1>10 DEF LayoutInv

-----------------------------------------------------------------------------
(* Operations.                                                             *)

(* What is fetched, by place.                                              *)
LEMMA FetchIsRead ==
  /\ \A r : Fetch(r.record, r.block)
              = ReadNext(headers, UnitsIn(medium, PlaceOf(r).file), PlaceOf(r).at, 0)
  /\ \A r : Fetch(r.record, r.block)'
              = ReadNext(headers', UnitsIn(medium', PlaceOf(r)'.file), PlaceOf(r)'.at, 0)
<1>1. \A r : PlaceOf(r).file = FileWith(r.record) /\ PlaceOf(r).at = OffsetIn(FileWith(r.record), r.record, r.block)
  BY DEF PlaceOf, At
<1>2. \A f : UnitsOf(f) = UnitsIn(medium, f)
  BY DEF UnitsOf, UnitsIn
<1>3. \A r : Fetch(r.record, r.block)
              = ReadNext(headers, UnitsIn(medium, PlaceOf(r).file), PlaceOf(r).at, 0)
  BY <1>1, <1>2 DEF Fetch
<1>4. \A r : PlaceOf(r)'.file = FileWith(r.record)'
             /\ PlaceOf(r)'.at = OffsetIn(FileWith(r.record), r.record, r.block)'
  BY DEF PlaceOf, At
<1>5. \A r : Fetch(r.record, r.block)'
              = ReadNext(headers', UnitsOf(FileWith(r.record))',
                         OffsetIn(FileWith(r.record), r.record, r.block)', 0)
  BY DEF Fetch
<1>6. \A r : UnitsOf(FileWith(r.record))' = UnitsIn(medium', FileWith(r.record)')
  BY DEF UnitsOf, UnitsIn
<1>7. \A r : Fetch(r.record, r.block)'
              = ReadNext(headers', UnitsIn(medium', PlaceOf(r)'.file), PlaceOf(r)'.at, 0)
  BY <1>4, <1>5, <1>6
<1> QED
  BY <1>3, <1>7

(* The drive that grows.                                                   *)
LEMMA UnitsGrow ==
  ASSUME DriveOK, NEW batch \in Seq(HeaderShape), headers' = headers \o batch,
         NEW out \in Seq(Units(Len(headers'))), medium' = Appended(out),
         NEW f \in 1 .. EndOfData
  PROVE  /\ UnitsIn(medium, f) \in Seq(Units(Len(headers)))
         /\ UnitsIn(medium', f) \in Seq(Units(Len(headers')))
         /\ Len(UnitsIn(medium, f)) <= Len(UnitsIn(medium', f))
         /\ \A k \in 1 .. Len(UnitsIn(medium, f)) : UnitsIn(medium', f)[k] = UnitsIn(medium, f)[k]
<1> DEFINE n == Len(headers')
<1>1. /\ Len(headers) \in Nat /\ n \in Nat /\ Len(headers) <= n
      /\ medium \in Seq(Seq(Units(Len(headers)))) /\ Len(medium) \in Nat
  <2>1. Len(headers') = Len(headers) + Len(batch)
    BY ConcatProperties DEF DriveOK
  <2> QED
    BY <2>1 DEF DriveOK
<1>2. out \in Seq(Units(n))
  OBVIOUS
<1>3. Longer(isRegular, medium, medium') /\ medium' \in Seq(Seq(Units(n)))
  <2> HIDE DEF n
  <2> QED
    BY <1>1, <1>2, AppendedLonger
<1>4. Len(medium') \in Nat /\ Len(medium) <= Len(medium')
  BY <1>3 DEF Longer
<1> HIDE DEF n
<1>5. UnitsIn(medium', f) \in Seq(Units(n)) /\ Len(UnitsIn(medium', f)) \in Nat
  <2>1. CASE f \in DOMAIN medium'
    <3>1. medium'[f] \in Seq(Units(n))
      BY <1>3, <1>4, <2>1, ElementOfSeq
    <3> QED
      BY <2>1, <3>1 DEF UnitsIn
  <2>2. CASE f \notin DOMAIN medium'
    BY <2>2 DEF UnitsIn
  <2> QED
    BY <2>1, <2>2
<1>6. CASE f \in 1 .. Len(medium)
  <2>1. f \in DOMAIN medium /\ f \in DOMAIN medium'
    BY <1>1, <1>3, <1>4, <1>6
  <2>2. medium[f] \in Seq(Units(Len(headers)))
    BY <1>1, <1>6, ElementOfSeq
  <2>3. Len(medium[f]) <= Len(medium'[f]) /\ \A k \in 1 .. Len(medium[f]) : medium'[f][k] = medium[f][k]
    BY <1>3, <1>6 DEF Longer
  <2> QED
    BY <1>5, <2>1, <2>2, <2>3 DEF UnitsIn, n
<1>7. CASE f \notin 1 .. Len(medium)
  <2>1. f \notin DOMAIN medium
    BY <1>1, <1>7
  <2>2. UnitsIn(medium, f) = <<>>
    BY <2>1 DEF UnitsIn
  <2>3. <<>> \in Seq(Units(Len(headers))) /\ Len(<<>>) = 0 /\ \A k \in 1 .. 0 : FALSE
    OBVIOUS
  <2> QED
    BY <1>5, <2>2, <2>3 DEF n
<1> QED
  BY <1>6, <1>7

LEMMA RowsStay ==
  ASSUME BlocksInv, Fetchable, \A k \in DOMAIN index : index[k].id \in 0 .. Len(headers),
         NEW batch \in Seq(HeaderShape), headers' = headers \o batch, isRegular' = isRegular,
         NEW out \in Seq(Units(Len(headers'))), medium' = Appended(out), index' = index,
         intact \in 0 .. Len(headers), intact' = intact \/ intact = Len(headers), intact' \in Nat
  PROVE  /\ Fetchable'
         /\ \A r \in ToSet(index) : PlaceOf(r)' = PlaceOf(r)
         /\ Len(headers') \in Nat /\ \A k \in DOMAIN index : index[k].id \in 0 .. Len(headers')
<1>0. /\ DriveOK /\ headers \in Seq(HeaderShape) /\ headers' \in Seq(HeaderShape)
      /\ Len(headers) \in Nat /\ Len(headers') \in Nat /\ Len(headers) <= Len(headers')
      /\ \A k \in 1 .. Len(headers) : headers'[k] = headers[k]
  <2>1. DriveOK /\ headers \in Seq(HeaderShape)
    BY DEF BlocksInv, DriveOK
  <2> QED
    BY <2>1, ConcatProperties
<1>1. /\ DriveOK' /\ EndOfData \in Nat /\ EndOfData' \in Nat /\ EndOfData <= EndOfData'
      /\ ~isRegular => \A f \in 1 .. EndOfData : FirstRecord(f)' = FirstRecord(f)
  BY <1>0, DriveGrows
<1>2. ASSUME NEW r \in ToSet(index)
      PROVE  /\ PlaceOf(r)' = PlaceOf(r) /\ PlaceOf(r).file \in 1 .. EndOfData
             /\ PlaceOf(r).at \in Nat
  <2>1. r.record \in Nat /\ r.block \in 0 .. RecordSize - 1 /\ (~isRegular => r.record < FirstRecord(EndOfData))
    <3>1. r \in Row
      BY DEF BlocksInv, ToSet
    <3>2. ~isRegular => r.record < FirstRecord(EndOfData)
      BY DEF BlocksInv, RowsOnDrive, ToSet
    <3> QED
      BY <3>1, <3>2 DEF Row
  <2>2. FileWith(r.record) \in 1 .. EndOfData /\ OffsetIn(FileWith(r.record), r.record, r.block) \in Nat
    BY <1>0, <2>1, FileWithType, OffsetOfPlace
  <2>3. PlaceOf(r).file = FileWith(r.record) /\ PlaceOf(r).at = OffsetIn(FileWith(r.record), r.record, r.block)
    BY DEF PlaceOf, At
  <2>4. PlaceOf(r)' = PlaceOf(r)
    BY <1>0, <1>1, <2>1, PlacesStay
  <2> QED
    BY <2>2, <2>3, <2>4
<1>3. ASSUME NEW r \in ToSet(index), r.id \in 1 .. intact'
      PROVE  Fetch(r.record, r.block)'.res = "header" /\ Fetch(r.record, r.block)'.id = r.id
  <2> DEFINE f == PlaceOf(r).file
             at == PlaceOf(r).at
             units == UnitsIn(medium, f)
             longer == UnitsIn(medium', f)
  <2>1. r.id \in 1 .. intact
    <3>1. r.id \in 0 .. Len(headers)
      BY DEF ToSet
    <3> QED
      BY <1>0, <1>3, <3>1
  <2>2. ReadNext(headers, units, at, 0).res = "header" /\ ReadNext(headers, units, at, 0).id = r.id
    BY <2>1, FetchIsRead DEF Fetchable
  <2>3. Fetch(r.record, r.block)' = ReadNext(headers', longer, at, 0)
    <3>1. Fetch(r.record, r.block)' = ReadNext(headers', UnitsIn(medium', PlaceOf(r)'.file), PlaceOf(r)'.at, 0)
      BY FetchIsRead
    <3> QED
      BY <1>2, <3>1
  <2>4. f \in 1 .. EndOfData /\ at \in Nat
    BY <1>2
  <2> HIDE DEF f, at
  <2>5. /\ units \in Seq(Units(Len(headers))) /\ longer \in Seq(Units(Len(headers')))
        /\ Len(units) <= Len(longer) /\ \A k \in 1 .. Len(units) : longer[k] = units[k]
    BY <1>0, <2>4, UnitsGrow
  <2> HIDE DEF units, longer
  <2>6. /\ ReadNext(headers', longer, at, 0).res = "header"
        /\ ReadNext(headers', longer, at, 0).id = ReadNext(headers, units, at, 0).id
    <3> DEFINE more == headers'
    <3>1. /\ headers \in Seq(HeaderShape) /\ more \in Seq(HeaderShape) /\ Len(headers) <= Len(more)
          /\ \A k \in 1 .. Len(headers) : more[k] = headers[k]
          /\ longer \in Seq(Units(Len(more)))
      BY <1>0, <2>5
    <3> HIDE DEF more
    <3>2. at \in Nat /\ ReadNext(headers, units, at, 0).res = "header"
      BY <2>2, <2>4
    <3>3. units \in Seq(Units(Len(headers))) /\ Len(units) <= Len(longer)
      BY <2>5
    <3>4. \A k \in 1 .. Len(units) : longer[k] = units[k]
      BY <2>5
    <3>5. /\ ReadNext(more, longer, at, 0).res = "header"
          /\ ReadNext(more, longer, at, 0).id = ReadNext(headers, units, at, 0).id
      BY <3>1, <3>2, <3>3, <3>4, HeaderStays
    <3> QED
      BY <3>5 DEF more
  <2> QED
    BY <2>2, <2>3, <2>6
<1>4. Fetchable'
  <2>1. ToSet(index)' = ToSet(index)
    BY DEF ToSet
  <2> QED
    BY <1>3, <2>1 DEF Fetchable
<1> QED
  BY <1>0, <1>2, <1>4

LEMMA PlacedStays ==
  ASSUME index \in Seq(Row), index' = index, NEW place, NEW place2, IndexPlaced(place),
         Len(headers) \in Nat, Len(headers') \in Nat, Len(headers) <= Len(headers'),
         intact \in Nat, \A k \in DOMAIN index : k <= intact' => k <= intact,
         \A n \in 1 .. intact : place2[n] = place[n],
         \A r \in ToSet(index) : PlaceOf(r)' = PlaceOf(r)
  PROVE  IndexPlaced(place2)'
<1>1. ASSUME NEW k \in DOMAIN index
      PROVE  /\ index[k].id \in 0 .. Len(headers')
             /\ k <= intact' => index[k].id = k /\ PlaceOf(index[k])' = place2[k]
  <2>1. index[k].id \in 0 .. Len(headers) /\ (k <= intact => index[k].id = k /\ PlaceOf(index[k]) = place[k])
    BY DEF IndexPlaced
  <2>2. index[k] \in ToSet(index)
    BY DEF ToSet
  <2>3. PlaceOf(index[k])' = PlaceOf(index[k])
    BY <2>2
  <2>4. index[k].id \in 0 .. Len(headers')
    BY <2>1
  <2>5. k \in Nat \ {0}
    OBVIOUS
  <2>6. k <= intact => k \in 1 .. intact
    BY <2>5
  <2> QED
    BY <2>1, <2>3, <2>4, <2>6
<1> QED
  BY <1>1 DEF IndexPlaced

LEMMA LastIsLast ==
  ASSUME BlocksInv, index # <<>>
  PROVE  Len(index) \in Nat \ {0} /\ Len(index) \in DOMAIN index /\ LastIndexed = index[Len(index)]
<1>1. Len(index) \in Nat \ {0} /\ Len(index) \in DOMAIN index /\ DOMAIN index = 1 .. Len(index)
  BY DEF BlocksInv
<1>2. PICK i \in DOMAIN index : LastIndexed = index[i]
  BY LastIndexedIsLast
<1>3. Location(index[Len(index)]) <= Location(index[i])
  BY <1>1, <1>2, LastIndexedIsLast
<1>4. i < Len(index) => Location(index[i]) < Location(index[Len(index)])
  BY <1>1 DEF BlocksInv, RowsAscend
<1>5. Location(index[i]) \in Nat /\ Location(index[Len(index)]) \in Nat
  <2>1. \A k \in DOMAIN index : Location(index[k]) \in Nat
    <3> TAKE k \in DOMAIN index
    <3>1. index[k] \in Row
      BY DEF BlocksInv
    <3>2. index[k].record \in Nat /\ index[k].block \in 0 .. RecordSize - 1
      BY <3>1 DEF Row
    <3> QED
      BY <3>2, LocationOfBlock
  <2> QED
    BY <1>1, <2>1
<1>6. i = Len(index)
  BY <1>1, <1>3, <1>4, <1>5
<1> QED
  BY <1>1, <1>2, <1>6

LEMMA OverwriteKeepsLayout ==
  ASSUME BlocksInv, NEW batch \in Batches, Overwrite(batch)
  PROVE  LayoutInv'
<1> DEFINE out == Archive(isRegular, 1, batch)
<1>1. /\ headers' = batch /\ intact' = Len(batch) /\ torn' = FALSE /\ isRegular' = isRegular
      /\ medium' = <<out>> /\ index' = <<>> /\ trusted' = FALSE
      /\ scan' = Scan("operation", 0, 0, 0, 0)
  BY DEF Overwrite
<1>2. DriveOK /\ 0 \in Nat /\ 0 \in 0 .. RecordSize - 1 /\ isRegular \in BOOLEAN
  BY UnitSizes DEF BlocksInv, DriveOK
<1>3. batch \in Seq(HeaderShape) /\ Len(batch) \in Nat /\ Len(batch) >= 1
  BY BatchType DEF Batches
<1>4. out \in Seq(Units(Len(batch)))
  <2>1. 1 \in Nat \ {0} /\ 1 + Len(batch) <= Len(batch) + 1
    BY <1>3
  <2> QED
    BY <1>3, <2>1, ArchiveType
<1> HIDE DEF out
<1>5. \E place2 : LaidOut(place2)'
  <2> DEFINE none == <<>>
             more == <<out>>
             place == [n \in 1 .. 0 |-> At(1, 0)]
  <2>1. none \in Seq(HeaderShape) /\ Len(none) = 0 /\ none \o batch = batch /\ Len(none) + 1 = 1
    BY <1>3
  <2>2. more \in Seq(Seq(Units(Len(none \o batch)))) /\ Len(more) = 1 /\ more[1] = out /\ 1 \in 1 .. Len(more)
    BY <1>4, <2>1
  <2>3. place \in [1 .. Len(none) -> Pos] /\ \A n \in 1 .. Len(none) : FALSE
    BY <2>1 DEF At, Pos
  <2>4. Lies(more[1], 0, out) /\ Len(more[1]) = 0 + Len(out) /\ 0 \in Nat /\ Whole(0)
    <3>1. Lies(out, 0, out) /\ Len(out) \in Nat
      BY <1>4, SelfLies
    <3> QED
      BY <2>2, <3>1, WholeSum
  <2>5. Reached(none \o batch, place, Len(none)) = At(1, 0)
    BY <2>1 DEF Reached
  <2>6. Leads(isRegular, more, At(1, 0), At(1, 0))
    BY DEF Leads
  <2>7. out = Archive(isRegular, Len(none) + 1, batch)
    BY <2>1 DEF out
  <2> HIDE DEF none, more, place
  <2>8. \E place2 \in [1 .. Len(none \o batch) -> Pos] :
          /\ \A n \in 1 .. Len(none \o batch) : Laid(isRegular, more, none \o batch, place2, n)
          /\ Closed(isRegular, more, Reached(none \o batch, place2, Len(none \o batch)))
    <3>1. \A n \in 1 .. Len(none) : Laid(isRegular, more, none \o batch, place, n)
      BY <2>3
    <3>2. Lies(more[1], 0, Archive(isRegular, Len(none) + 1, batch))
          /\ Len(more[1]) = 0 + Len(Archive(isRegular, Len(none) + 1, batch))
      BY <2>4, <2>7
    <3>3. Leads(isRegular, more, Reached(none \o batch, place, Len(none)), At(1, 0))
      BY <2>5, <2>6
    <3> QED
      BY <1>2, <1>3, <2>1, <2>2, <2>3, <2>4, <3>1, <3>2, <3>3, ArchiveExtends
  <2>9. PICK place2 \in [1 .. Len(batch) -> Pos] :
          /\ \A n \in 1 .. Len(batch) : Laid(isRegular, more, batch, place2, n)
          /\ Closed(isRegular, more, Reached(batch, place2, Len(batch)))
    BY <2>1, <2>8
  <2>10. LaidOut(place2)'
    <3>1. medium' = more
      BY <1>1 DEF more
    <3>2. intact' \in 0 .. Len(headers') /\ torn' \in BOOLEAN /\ intact' = Len(headers')
      <4>1. torn' \in BOOLEAN
        BY <1>1
      <4>2. intact' = Len(headers') /\ intact' \in 0 .. Len(headers')
        BY <1>1, <1>3
      <4> QED
        BY <4>1, <4>2
    <3>3. place2 \in [1 .. intact' -> Pos]
      BY <1>1
    <3> QED
      BY <1>1, <2>9, <3>1, <3>2, <3>3 DEF LaidOut
  <2> QED
    BY <2>10
<1>6. /\ scan'.pc = "next" /\ scan'.by = "operation" /\ scan'.offset = 0 /\ scan'.from = 0 /\ scan'.i = 0
      /\ scan'.pad = 0 /\ scan'.at = 0 /\ scan'.file = 1 /\ scan' # Idle
  BY <1>1, <1>2, ScanFields, ScanFromStart
<1>7. Aligned'
  BY <1>1, <1>2, ScanIsAligned
<1>8. PICK place : LaidOut(place)'
  BY <1>5
<1>9. Tracked(place)'
  <2>1. intact' \in Nat
    BY <1>1, <1>3
  <2> QED
    BY <1>1, <1>6, <2>1, StartsOnTrack
<1>10. Fetchable' /\ IndexPlaced(place)'
  <2>1. DOMAIN index' = {} /\ ToSet(index)' = {}
    BY <1>1 DEF ToSet
  <2> QED
    BY <2>1 DEF Fetchable, IndexPlaced
<1>11. Trusted'
  BY <1>1 DEF Trusted
<1> QED
  BY <1>7, <1>8, <1>9, <1>10, <1>11 DEF LayoutInv

LEMMA OperationTracked ==
  ASSUME index' = index, NEW place, NEW n \in Nat \ {0}, NEW count \in Nat, intact' = count, ~torn',
         scan' # Idle, scan'.pc = "next", scan'.by = "operation", scan'.offset = 1, scan'.from = n,
         scan'.i = 0, Here' = place[n], n <= count, n = Len(index)
  PROVE  Tracked(place)'
<1>1. Counts'
  BY DEF Counts
<1>2. Due' = n
  BY DEF Due
<1>3. n \in 1 .. count + 1 /\ ~(n > count) /\ n <= count
  OBVIOUS
<1>4. OnTrack(place, Due)'
  BY <1>2, <1>3 DEF OnTrack
<1> QED
  BY <1>1, <1>4 DEF Tracked

(* What an operation appends leaves the layout as it was, or extends it.   *)
LEMMA OperationLaid ==
  ASSUME DriveOK, NEW place, LaidOut(place), NEW batch \in Seq(HeaderShape), Len(batch) >= 1,
         headers' = headers \o batch, isRegular' = isRegular,
         medium' = Appended(Archive(isRegular, Len(headers) + 1, batch)),
         torn' = torn, intact' = IF torn THEN intact ELSE Len(headers')
  PROVE  \E place2 : LaidOut(place2)' /\ \A n \in 1 .. intact : place2[n] = place[n]
<1> DEFINE out == Archive(isRegular, Len(headers) + 1, batch)
<1>1. CASE torn
  <2>1. out \in Seq(Units(Len(headers')))
    <3>1. headers \in Seq(HeaderShape) /\ Len(headers) \in Nat /\ Len(batch) \in Nat
      BY DEF DriveOK
    <3>2. Len(headers') = Len(headers) + Len(batch)
      BY <3>1, ConcatProperties
    <3> QED
      BY <3>1, <3>2, ArchiveType
  <2>2. medium' = Appended(out) /\ intact' = intact
    BY <1>1
  <2>3. torn' = TRUE
    <3>1. torn \in BOOLEAN
      BY DEF LaidOut
    <3> QED
      BY <1>1, <3>1
  <2> HIDE DEF out
  <2>4. LaidOut(place)'
    BY <2>1, <2>2, <2>3, TornStaysLaid
  <2> QED
    BY <2>4
<1>2. CASE ~torn
  <2>1. intact' = Len(headers')
    BY <1>2
  <2>2. torn' = FALSE
    <3>1. torn \in BOOLEAN
      BY DEF LaidOut
    <3> QED
      BY <1>2, <3>1
  <2> QED
    BY <1>2, <2>1, <2>2, ArchiveStaysLaid
<1> QED
  BY <1>1, <1>2

LEMMA OperationKeepsLayout ==
  ASSUME BlocksInv, LayoutInv, NEW batch \in Batches, Operation(batch)
  PROVE  LayoutInv'
<1> DEFINE out == Archive(isRegular, Len(headers) + 1, batch)
           last == LastIndexed
<1>1. /\ headers' = headers \o batch /\ isRegular' = isRegular /\ index' = index /\ index # <<>>
      /\ torn' = torn /\ medium' = Appended(out) /\ intact' = IF torn THEN intact ELSE Len(headers')
      /\ scan = Idle /\ trusted
  BY DEF Operation, Extend
<1>2. scan' = Scan("operation", 1, Len(headers), last.record, last.block)
  BY DEF Operation, IndexFromLast
<1>3. /\ batch \in Seq(HeaderShape) /\ Len(batch) \in Nat /\ Len(batch) >= 1
      /\ Len(headers) \in Nat /\ Len(headers') = Len(headers) + Len(batch) /\ Len(headers') \in Nat
  <2>1. batch \in Seq(HeaderShape) /\ Len(batch) \in Nat /\ Len(batch) >= 1
    BY BatchType DEF Batches
  <2>2. headers \in Seq(HeaderShape) /\ Len(headers) \in Nat
    BY DEF BlocksInv, DriveOK
  <2>3. Len(headers') = Len(headers) + Len(batch)
    BY <1>1, <2>1, <2>2, ConcatProperties
  <2> QED
    BY <2>1, <2>2, <2>3
<1>4. DriveOK /\ out \in Seq(Units(Len(headers')))
  <2>1. Len(headers) + 1 \in Nat \ {0} /\ Len(headers) + 1 + Len(batch) <= Len(headers') + 1
    BY <1>3
  <2>2. out \in Seq(Units(Len(headers')))
    BY <1>3, <2>1, ArchiveType
  <2> QED
    BY <2>2 DEF BlocksInv
<1> HIDE DEF out
<1>5. PICK place : LaidOut(place) /\ IndexPlaced(place)
  BY DEF LayoutInv
<1>6. /\ intact \in 0 .. Len(headers) /\ torn \in BOOLEAN
      /\ Len(index) >= intact /\ (~torn => intact = Len(headers) /\ Len(index) = intact)
  <2>1. intact \in 0 .. Len(headers) /\ torn \in BOOLEAN /\ (~torn => intact = Len(headers))
    BY <1>5 DEF LaidOut
  <2>2. Complete
    BY <1>1 DEF LayoutInv, Trusted
  <2> QED
    BY <2>1, <2>2 DEF Complete
<1>7. PICK place2 : LaidOut(place2)' /\ \A n \in 1 .. intact : place2[n] = place[n]
  <2>1. medium' = Appended(Archive(isRegular, Len(headers) + 1, batch))
    BY <1>1 DEF out
  <2> QED
    BY <1>1, <1>3, <1>4, <1>5, <2>1, OperationLaid
<1>8. /\ Fetchable' /\ \A r \in ToSet(index) : PlaceOf(r)' = PlaceOf(r)
  <2>1. \A k \in DOMAIN index : index[k].id \in 0 .. Len(headers)
    BY <1>5 DEF IndexPlaced
  <2>2. Fetchable
    BY DEF LayoutInv
  <2>3. (intact' = intact \/ intact = Len(headers)) /\ intact' \in Nat
    BY <1>1, <1>3, <1>6
  <2> QED
    BY <1>1, <1>3, <1>4, <1>6, <2>1, <2>2, <2>3, RowsStay
<1>9. index \in Seq(Row) /\ Len(index) \in Nat
  BY DEF BlocksInv
<1>10. IndexPlaced(place2)'
  <2>1. \A k \in DOMAIN index : k <= intact' => k <= intact
    BY <1>1, <1>6, <1>9
  <2> QED
    BY <1>1, <1>3, <1>5, <1>6, <1>7, <1>8, <1>9, <2>1, PlacedStays
<1>11. /\ last = index[Len(index)] /\ Len(index) \in Nat \ {0} /\ Len(index) \in DOMAIN index
       /\ last.record \in Nat /\ last.block \in 0 .. RecordSize - 1
  <2>1. last = index[Len(index)] /\ Len(index) \in Nat \ {0} /\ Len(index) \in DOMAIN index
    BY <1>1, LastIsLast
  <2>2. last \in Row
    BY <1>1, LastIndexedIsLast
  <2> QED
    BY <2>1, <2>2 DEF Row
<1> HIDE DEF last
<1>12. /\ scan'.pc = "next" /\ scan'.by = "operation" /\ scan'.offset = 1 /\ scan'.from = Len(headers)
       /\ scan'.i = 0 /\ scan'.pad = 0 /\ scan' # Idle /\ Here' = PlaceOf(last)
  <2> DEFINE s == Scan("operation", 1, Len(headers), last.record, last.block)
  <2>1. /\ s.pc = "next" /\ s.by = "operation" /\ s.offset = 1 /\ s.from = Len(headers)
        /\ s.i = 0 /\ s.pad = 0 /\ s # Idle
        /\ s.file = FileWith(last.record) /\ s.at = OffsetIn(FileWith(last.record), last.record, last.block)
    BY ScanFields
  <2>2. s.at \in Nat
    BY <1>4, <1>11, <2>1, OffsetOfPlace
  <2>3. scan' = s
    BY <1>2
  <2> HIDE DEF s
  <2>4. scan'.at + scan'.pad = s.at
    BY <2>1, <2>2, <2>3
  <2>5. Here' = At(s.file, s.at)
    BY <2>3, <2>4 DEF Here
  <2> QED
    BY <2>1, <2>3, <2>5 DEF PlaceOf
<1>13. Aligned'
  BY <1>2, <1>4, <1>11, ScanIsAligned
<1>14. Trusted'
  BY <1>12 DEF Trusted
<1>15. Tracked(place2)'
  <2>1. CASE torn
    <3>1. torn' = TRUE
      BY <1>1, <1>6, <2>1
    <3>2. Counts'
      BY <1>1, <1>6, <1>12, <2>1, <3>1 DEF Counts
    <3>3. ~Follows'
      BY <1>12, <3>1 DEF Follows
    <3> QED
      BY <3>2, <3>3 DEF Tracked
  <2>2. CASE ~torn
    <3> DEFINE n == Len(headers)
               count == Len(headers')
    <3>1. n \in Nat \ {0} /\ count \in Nat /\ n <= count /\ n = Len(index)
      BY <1>3, <1>6, <1>11, <2>2
    <3>2. intact' = count /\ ~torn'
      BY <1>1, <2>2
    <3>3. Here' = place2[n]
      <4>1. PlaceOf(index[n]) = place[n]
        <5>1. n \in DOMAIN index /\ n <= intact
          BY <1>6, <1>11, <2>2
        <5> QED
          BY <1>5, <5>1 DEF IndexPlaced
      <4>2. place2[n] = place[n]
        <5>1. n \in 1 .. intact
          BY <1>6, <1>11, <2>2
        <5> QED
          BY <1>7, <5>1
      <4> QED
        BY <1>11, <1>12, <3>1, <4>1, <4>2
    <3>4. scan'.from = n
      BY <1>12
    <3> HIDE DEF n, count
    <3> QED
      BY <1>1, <1>12, <3>1, <3>2, <3>3, <3>4, OperationTracked
  <2> QED
    BY <2>1, <2>2
<1> QED
  BY <1>7, <1>8, <1>10, <1>13, <1>14, <1>15 DEF LayoutInv

LEMMA TearKeepsLayout ==
  ASSUME BlocksInv, LayoutInv, NEW batch \in Batches, Tear(batch)
  PROVE  LayoutInv'
<1> DEFINE out == Archive(isRegular, Len(headers) + 1, batch)
<1>1. /\ headers' = headers \o batch /\ isRegular' = isRegular /\ index' = index
      /\ scan = Idle /\ scan' = scan /\ trusted /\ trusted' = FALSE
  BY DEF Tear, Extend
<1>2. PICK n \in TearPoints(isRegular, out) :
        /\ medium' = Appended(SubSeq(out, 1, n))
        /\ torn' = (torn \/ n < Len(out))
        /\ intact' = IF torn' THEN intact ELSE Len(headers')
  BY DEF Tear
<1>3. /\ batch \in Seq(HeaderShape) /\ Len(batch) \in Nat /\ Len(batch) >= 1
      /\ Len(headers) \in Nat /\ Len(headers') = Len(headers) + Len(batch) /\ Len(headers') \in Nat
  <2>1. batch \in Seq(HeaderShape) /\ Len(batch) \in Nat /\ Len(batch) >= 1
    BY BatchType DEF Batches
  <2>2. headers \in Seq(HeaderShape) /\ Len(headers) \in Nat
    BY DEF BlocksInv, DriveOK
  <2>3. Len(headers') = Len(headers) + Len(batch)
    BY <1>1, <2>1, <2>2, ConcatProperties
  <2> QED
    BY <2>1, <2>2, <2>3
<1>4. DriveOK /\ out \in Seq(Units(Len(headers')))
  <2>1. Len(headers) + 1 \in Nat \ {0} /\ Len(headers) + 1 + Len(batch) <= Len(headers') + 1
    BY <1>3
  <2>2. out \in Seq(Units(Len(headers')))
    BY <1>3, <2>1, ArchiveType
  <2> QED
    BY <2>2 DEF BlocksInv
<1>5. /\ SubSeq(out, 1, n) \in Seq(Units(Len(headers'))) /\ n \in 0 .. Len(out) /\ Len(out) \in Nat
      /\ ~(n < Len(out)) => SubSeq(out, 1, n) = out
  <2> HIDE DEF out
  <2>1. n \in 0 .. Len(out) /\ Len(out) \in Nat
    BY <1>2, <1>4 DEF TearPoints
  <2>2. \A u \in 1 .. n : out[u] \in Units(Len(headers'))
    BY <1>4, <2>1, ElementOfSeq
  <2>3. SubSeq(out, 1, n) \in Seq(Units(Len(headers')))
    BY <1>4, <2>1, <2>2, SubSeqProperties
  <2>4. ASSUME ~(n < Len(out)) PROVE SubSeq(out, 1, n) = out
    <3>1. n = Len(out)
      BY <2>1, <2>4
    <3> QED
      BY <1>4, <3>1
  <2> QED
    BY <2>1, <2>3, <2>4
<1>6. PICK place : LaidOut(place) /\ IndexPlaced(place)
  BY DEF LayoutInv
<1>7. /\ intact \in 0 .. Len(headers) /\ torn \in BOOLEAN
      /\ Len(index) >= intact /\ (~torn => intact = Len(headers) /\ Len(index) = intact)
  <2>1. intact \in 0 .. Len(headers) /\ torn \in BOOLEAN /\ (~torn => intact = Len(headers))
    BY <1>6 DEF LaidOut
  <2>2. Complete
    BY <1>1 DEF LayoutInv, Trusted
  <2> QED
    BY <2>1, <2>2 DEF Complete
<1>8. PICK place2 : LaidOut(place2)' /\ \A k \in 1 .. intact : place2[k] = place[k]
  <2> DEFINE piece == SubSeq(out, 1, n)
  <2>0. piece \in Seq(Units(Len(headers'))) /\ medium' = Appended(piece)
    BY <1>2, <1>5
  <2>1. CASE torn \/ n < Len(out)
    <3>1. torn' = TRUE /\ intact' = intact
      BY <1>2, <2>1
    <3> HIDE DEF piece, out
    <3>2. LaidOut(place)'
      BY <1>1, <1>3, <1>4, <1>6, <2>0, <3>1, TornStaysLaid
    <3> QED
      BY <3>2
  <2>2. CASE ~torn /\ ~(n < Len(out))
    <3>1. torn' = FALSE /\ intact' = Len(headers')
      BY <1>2, <2>2
    <3>2. medium' = Appended(Archive(isRegular, Len(headers) + 1, batch))
      BY <1>2, <1>5, <2>2
    <3> QED
      BY <1>1, <1>3, <1>4, <1>6, <2>2, <3>1, <3>2, ArchiveStaysLaid
  <2> QED
    BY <2>1, <2>2
<1>9. (intact' = intact \/ intact = Len(headers)) /\ intact' \in Nat
  BY <1>2, <1>3, <1>7
<1>10. Fetchable' /\ \A r \in ToSet(index) : PlaceOf(r)' = PlaceOf(r)
  <2> DEFINE piece == SubSeq(out, 1, n)
  <2>1. \A k \in DOMAIN index : index[k].id \in 0 .. Len(headers)
    BY <1>6 DEF IndexPlaced
  <2>2. Fetchable
    BY DEF LayoutInv
  <2>3. piece \in Seq(Units(Len(headers'))) /\ medium' = Appended(piece)
    BY <1>2, <1>5
  <2> HIDE DEF piece
  <2> QED
    BY <1>1, <1>3, <1>7, <1>9, <2>1, <2>2, <2>3, RowsStay
<1>11. index \in Seq(Row) /\ Len(index) \in Nat
  BY DEF BlocksInv
<1>12. IndexPlaced(place2)'
  <2>1. \A k \in DOMAIN index : k <= intact' => k <= intact
    BY <1>2, <1>7, <1>11
  <2> QED
    BY <1>1, <1>3, <1>6, <1>7, <1>8, <1>10, <1>11, <2>1, PlacedStays
<1>13. Aligned' /\ Trusted' /\ Tracked(place2)'
  BY <1>1 DEF Aligned, Trusted, Tracked
<1> QED
  BY <1>8, <1>10, <1>12, <1>13 DEF LayoutInv

-----------------------------------------------------------------------------
(* A header is taken.                                                      *)

LEMMA UnitsOfType ==
  ASSUME DriveOK, NEW file
  PROVE  UnitsOf(file) \in Seq(Units(Len(headers))) /\ Len(UnitsOf(file)) \in Nat
<1>1. UnitsOf(file) \in Seq(Units(Len(headers)))
  <2>1. \A f \in DOMAIN medium : medium[f] \in Seq(Units(Len(headers)))
    BY DEF DriveOK
  <2> QED
    BY <2>1 DEF UnitsOf
<1> QED
  BY <1>1

LEMMA HeaderWhole ==
  ASSUME NEW hdrs, NEW n \in Nat, NEW units \in Seq(Units(n)), NEW from \in Nat, Whole(from),
         ReadNext(hdrs, units, from, 0).res = "header"
  PROVE  Whole(ReadNext(hdrs, units, from, 0).at)
<1>1. PICK m : PaxTo(units, from, m)
  BY PaxEnds
<1> DEFINE at == from + m * BlockUnits
           pax == IF m > 0 THEN BlockAt(units, from + (m - 1) * BlockUnits)[2] ELSE Ghost
<1>2. ReadNext(hdrs, units, from, 0) = ReadHeader(hdrs, units, at, pax)
  <2>1. ReadNext(hdrs, units, from, 0) = BehindPax(hdrs, units, from, m)
    BY <1>1, ReadBehindPax
  <2> QED
    BY <2>1 DEF BehindPax
<1>3. m \in 0 .. Len(units) /\ BlockAt(units, at)[1] # "pax"
  BY <1>1 DEF PaxTo
<1>4. Whole(at) /\ at \in Nat
  <2>1. m \in Nat
    BY <1>3
  <2>2. Whole(m * BlockUnits)
    BY <2>1 DEF Whole
  <2> QED
    BY <2>2, WholeSum
<1> HIDE DEF at, pax
<1>5. ReadHeader(hdrs, units, at, pax).res = "header" => ReadHeader(hdrs, units, at, pax).at = at + BlockUnits
  <2>1. BlockAt(units, at)[1] \in Kinds
    BY <1>4, BlockAtType
  <2> DEFINE kind == BlockAt(units, at)[1]
  <2>2. ReadHeader(hdrs, units, at, pax).res = "header" <=> kind = "header"
    BY <1>3, <1>4, HeaderIsBlock
  <2>3. ASSUME kind = "header" PROVE ReadHeader(hdrs, units, at, pax).at = at + BlockUnits
    BY <2>3 DEF ReadHeader
  <2> QED
    BY <2>2, <2>3
<1> QED
  BY <1>2, <1>4, <1>5, WholeSum

LEMMA BaseWhole ==
  ASSUME DriveOK, NEW file \in 1 .. EndOfData
  PROVE  Whole(Base(file)) /\ Base(file) \in Nat
<1>1. Base(file) \in Nat
  BY BaseType
<1>2. CASE isRegular
  BY <1>1, <1>2, WholeSum DEF Base
<1>3. CASE ~isRegular
  <2>1. FirstRecord(file) \in Nat
    BY FirstRecordsAscend DEF DriveOK, FirstRecord, EndOfData
  <2> DEFINE first == FirstRecord(file)
  <2>2. Base(file) = first * RecordUnits
    BY <1>3 DEF Base
  <2> HIDE DEF first
  <2>3. first \in Nat /\ first * RecordSize \in Nat
    BY <2>1, UnitSizes, ProductNat DEF first
  <2>4. first * RecordUnits = (first * RecordSize) * BlockUnits
    BY <2>3, UnitSizes DEF RecordUnits
  <2> QED
    BY <1>1, <2>2, <2>3, <2>4 DEF Whole
<1> QED
  BY <1>2, <1>3

(* The block that holds the end of a content is the last before what       *)
(* follows the padding.                                                    *)
LEMMA NextBlock ==
  ASSUME NEW units \in Nat, NEW pad \in Nat, pad < BlockUnits, Whole(units + pad)
  PROVE  TotalBlocks(units) * BlockUnits = units + pad
<1>1. PICK k \in Nat : units + pad = k * BlockUnits
  BY DEF Whole
<1> DEFINE total == TotalBlocks(units)
<1>2. /\ total \in Nat /\ total * BlockUnits >= units
      /\ total * BlockUnits < units + BlockUnits
  BY TotalBlocksBounds
<1>3. BlockUnits \in Nat \ {0}
  BY UnitSizes
<1> HIDE DEF total
<1>4. total * BlockUnits \in Nat /\ k * BlockUnits \in Nat
  BY <1>2, <1>3, ProductNat
<1>5. (k + 1) * BlockUnits = k * BlockUnits + BlockUnits
      /\ (total + 1) * BlockUnits = total * BlockUnits + BlockUnits
  BY <1>2, <1>3, ProductDistributes
<1>6. k * BlockUnits < (total + 1) * BlockUnits /\ total * BlockUnits < (k + 1) * BlockUnits
  BY <1>1, <1>2, <1>3, <1>4, <1>5
<1>7. k < total + 1 /\ total < k + 1
  BY <1>2, <1>3, <1>6, ProductMonotone
<1>8. total = k
  BY <1>2, <1>7
<1> QED
  BY <1>1, <1>8 DEF total

(* What is read where a scan is on its way.                                *)
LEMMA ReadOnIs ==
  ASSUME DriveOK, NEW at \in Nat, NEW pad \in Nat, NEW file
  PROVE  LET r == ReadNext(headers, UnitsOf(file), at, pad)
         IN  r.res = "header" \/ at + pad <= Len(UnitsOf(file)) =>
               r = ReadNext(headers, UnitsOf(file), at + pad, 0)
<1> DEFINE units == UnitsOf(file)
           r == ReadNext(headers, units, at, pad)
<1>1. Len(units) \in Nat /\ units \in Seq(Units(Len(headers)))
  BY UnitsOfType
<1>2. CASE at + pad <= Len(units)
  BY <1>1, <1>2, ReadBehindPadding
<1>3. CASE at + pad > Len(units) /\ pad > 0
  <2>1. r = ReadTo("eof", Len(units))
    BY <1>3 DEF ReadNext
  <2>2. r.res = "eof"
    BY <2>1 DEF ReadTo
  <2> HIDE DEF r, units
  <2> QED
    BY <1>1, <1>3, <2>2 DEF units, r
<1>4. CASE pad = 0
  <2>1. at + pad = at
    BY <1>4
  <2> QED
    BY <1>4, <2>1
<1> QED
  BY <1>1, <1>2, <1>3, <1>4

(* What the tar reader makes of the place of a header.                     *)
LEMMA Expected ==
  ASSUME DriveOK, NEW place, LaidOut(place), NEW n \in 1 .. intact, NEW file, NEW from,
         place[n] = At(file, from)
  PROVE  /\ headers[n] \in HeaderShape /\ from \in Nat /\ Whole(from) /\ file \in DOMAIN medium
         /\ ReadNext(headers, UnitsOf(file), from, 0)
              = [res |-> "header", at |-> from + HeadUnits(headers[n]), id |-> n, size |-> headers[n].size]
         /\ from + EntryUnits(headers[n]) <= Len(UnitsOf(file))
         /\ Reached(headers, place, n) = At(file, from + EntryUnits(headers[n]))
<1>1. /\ headers \in Seq(HeaderShape) /\ intact \in 0 .. Len(headers) /\ n \in 1 .. Len(headers)
      /\ headers[n] \in HeaderShape
  BY DEF DriveOK, LaidOut
<1>2. Laid(isRegular, medium, headers, place, n) /\ place[n].file = file /\ place[n].at = from
  BY DEF LaidOut, At
<1>3. /\ file \in DOMAIN medium /\ Whole(from) /\ from \in Nat
      /\ Lies(UnitsOf(file), from, Entry(n, headers[n]))
  <2>1. file \in DOMAIN medium /\ Whole(from) /\ LiesAt(medium, place[n], Entry(n, headers[n]))
    BY <1>2 DEF Laid
  <2>2. UnitsIn(medium, file) = UnitsOf(file)
    BY DEF UnitsIn, UnitsOf
  <2>3. from \in Nat
    BY <2>1, WholeSum
  <2> QED
    BY <1>2, <2>1, <2>2, <2>3 DEF LiesAt
<1> DEFINE units == UnitsOf(file)
<1>4. units \in Seq(Units(Len(headers)))
  BY UnitsOfType
<1> HIDE DEF units
<1>5. /\ ReadNext(headers, units, from, 0)
           = [res |-> "header", at |-> from + HeadUnits(headers[n]), id |-> n, size |-> headers[n].size]
      /\ from + EntryUnits(headers[n]) <= Len(units)
  <2>1. Lies(units, from, Entry(n, headers[n]))
    BY <1>3 DEF units
  <2> QED
    BY <1>1, <1>3, <1>4, <2>1, EntryRead
<1>6. Reached(headers, place, n) = At(file, from + EntryUnits(headers[n]))
  <2>1. ~(n = 0)
    OBVIOUS
  <2> QED
    BY <1>2, <2>1 DEF Reached
<1> QED
  BY <1>1, <1>3, <1>5, <1>6 DEF units

(* A step that indexes nothing.                                            *)
LEMMA StepKeepsLayout ==
  ASSUME Fetchable, Trusted, NEW place, LaidOut(place), IndexPlaced(place), Tracked(place),
         UNCHANGED drive, trusted' = trusted, index' = index, scan # Idle, scan' # Idle,
         scan'.by = scan.by, scan'.i = scan.i, scan'.offset = scan.offset, scan'.from = scan.from,
         Aligned', Follows => \A n : n = Due => OnTrack(place, n)'
  PROVE  LayoutInv'
<1>1. /\ headers' = headers /\ intact' = intact /\ torn' = torn
      /\ LaidOut(place)' /\ \A r : PlaceOf(r)' = PlaceOf(r)
      /\ \A record, block : Fetch(record, block)' = Fetch(record, block)
  BY DriveSame
<1>2. Fetchable'
  BY <1>1 DEF Fetchable
<1>3. Trusted'
  BY <1>1 DEF Trusted, Complete
<1>4. IndexPlaced(place)'
  BY <1>1 DEF IndexPlaced
<1>5. Tracked(place)'
  <2> SUFFICES ASSUME scan.by # "query" PROVE Counts' /\ (Follows => OnTrack(place, Due)')
    BY <1>1 DEF Tracked, Follows
  <2>1. Counts'
    <3>1. Counts
      BY DEF Tracked
    <3> QED
      BY <1>1, <3>1 DEF Counts
  <2>2. Due' = Due
    BY DEF Due
  <2>3. ASSUME Follows PROVE OnTrack(place, Due)'
    <3>1. PICK n : n = Due
      OBVIOUS
    <3>2. OnTrack(place, n)'
      BY <2>3, <3>1
    <3> QED
      BY <2>2, <3>1, <3>2 DEF OnTrack
  <2> QED
    BY <2>1, <2>3
<1> QED
  BY <1>1, <1>2, <1>3, <1>4, <1>5 DEF LayoutInv

(* What Take makes of the scan and of the index.                           *)
Taken(r, record, block) ==
  /\ scan' # Idle /\ scan'.by = scan.by /\ scan'.offset = scan.offset /\ scan'.from = scan.from
  /\ \/ scan'.pc = "failed" /\ scan'.i = scan.i
     \/ /\ scan'.pc = "next" /\ scan'.i = scan.i + 1 /\ scan'.file = scan.file
        /\ scan'.at = r.at + r.size /\ scan'.pad = PaddingOf(r.size)
  /\ \/ /\ scan'.pc = "failed" /\ index' = index
        /\ scan.by = "operation" /\ scan.i >= scan.offset /\ DueId > Len(headers)
     \/ /\ scan'.pc = "failed" => r.at + r.size > Len(UnitsOf(scan.file))
        /\ scan.by = "operation" /\ scan.i >= scan.offset => ~(DueId > Len(headers))
        /\ \/ index' = index /\ (scan.by = "query" \/ scan.i < scan.offset)
           \/ /\ scan.by # "query" /\ scan.i >= scan.offset
              /\ index' = index \o <<RowAt(FoundId(r), record, block)>>

LEMMA TakeIs ==
  ASSUME index \in Seq(Row), scan \in Scanning, NEW r, NEW record, NEW block, Take(r, record, block)
  PROVE  Taken(r, record, block)
<1> DEFINE at == r.at + r.size
           total == TotalBlocks(IF isRegular THEN at ELSE Counted(at))
           row == RowAt(FoundId(r), record, block)
           pad == PaddingOf(r.size)
           counter == Counted(at)
           last == RecordOf(total)
           rest == BlockOf(total)
           failed == [scan EXCEPT !.pc = "failed"]
           onward == [scan EXCEPT !.pc = "next", !.i = scan.i + 1, !.at = at, !.pad = pad,
                                  !.counter = counter, !.record = last, !.block = rest]
           unknown == scan.by = "operation" /\ scan.i >= scan.offset /\ DueId > Len(headers)
<1>1. IF unknown THEN scan' = failed /\ index' = index
      ELSE Found(r, record, block) /\ scan' = IF at > Len(UnitsOf(scan.file)) THEN failed ELSE onward
  BY DEF Take
<1>2. ~unknown => \/ index' = index /\ (scan.by = "query" \/ scan.i < scan.offset)
                  \/ scan.by # "query" /\ scan.i >= scan.offset /\ index' = index \o <<row>>
  <2>1. scan.i \in Nat /\ scan.offset \in Nat /\ index \o <<>> = index
    BY DEF Scanning
  <2> SUFFICES ASSUME Found(r, record, block)
               PROVE  \/ index' = index /\ (scan.by = "query" \/ scan.i < scan.offset)
                      \/ scan.by # "query" /\ scan.i >= scan.offset /\ index' = index \o <<row>>
    BY <1>1
  <2>2. CASE scan.by = "query"
    BY <2>2 DEF Found
  <2>3. CASE scan.by # "query"
    <3>1. index' = index \o (IF scan.i < scan.offset THEN <<>> ELSE <<row>>)
      BY <2>3 DEF Found
    <3> HIDE DEF row
    <3> QED
      BY <2>1, <2>3, <3>1
  <2> QED
    BY <2>2, <2>3
<1>3. /\ failed.pc = "failed" /\ failed.i = scan.i /\ failed # Idle
      /\ failed.by = scan.by /\ failed.offset = scan.offset /\ failed.from = scan.from
  BY DEF Scanning, Idle
<1>4. /\ onward.pc = "next" /\ onward.i = scan.i + 1 /\ onward # Idle /\ onward.file = scan.file
      /\ onward.at = at /\ onward.pad = pad
      /\ onward.by = scan.by /\ onward.offset = scan.offset /\ onward.from = scan.from
  <2> HIDE DEF at, pad, counter, last, rest
  <2> QED
    BY DEF Scanning, Idle
<1> HIDE DEF failed, onward
<1>5. scan' = failed \/ scan' = onward
  BY <1>1
<1>6. /\ scan' # Idle /\ scan'.by = scan.by /\ scan'.offset = scan.offset /\ scan'.from = scan.from
      /\ \/ scan'.pc = "failed" /\ scan'.i = scan.i
         \/ /\ scan'.pc = "next" /\ scan'.i = scan.i + 1 /\ scan'.file = scan.file
            /\ scan'.at = at /\ scan'.pad = pad
  BY <1>3, <1>4, <1>5
<1>7. CASE unknown
  BY <1>1, <1>3, <1>6, <1>7 DEF Taken
<1>8. CASE ~unknown
  <2>1. scan'.pc = "failed" => at > Len(UnitsOf(scan.file))
    BY <1>1, <1>4, <1>8
  <2> QED
    BY <1>2, <1>6, <1>8, <2>1 DEF Taken
<1> QED
  BY <1>7, <1>8

(* What is read at the place of a header is the header, and the scan goes  *)
(* on to the next.                                                         *)
LEMMA TrackIsTaken ==
  ASSUME BlocksInv, NEW place, LaidOut(place), UNCHANGED drive,
         NEW n \in 1 .. intact, NEW from, place[n] = At(scan.file, from),
         NEW r, r = ReadNext(headers, UnitsOf(scan.file), from, 0)
  PROVE  /\ r.id = n /\ ~(r.at + r.size > Len(UnitsOf(scan.file)))
         /\ /\ scan'.pc = "next" /\ scan'.file = scan.file
            /\ scan'.at = r.at + r.size /\ scan'.pad = PaddingOf(r.size)
            => OnTrack(place, n + 1)'
<1> DEFINE h == headers[n]
<1>0. DriveOK /\ intact \in Nat
  BY DEF BlocksInv, LaidOut, DriveOK
<1>1. /\ h \in HeaderShape /\ from \in Nat
      /\ r = [res |-> "header", at |-> from + HeadUnits(h), id |-> n, size |-> h.size]
      /\ from + EntryUnits(h) <= Len(UnitsOf(scan.file))
      /\ Reached(headers, place, n) = At(scan.file, from + EntryUnits(h))
  BY <1>0, Expected
<1>2. /\ r.id = n /\ r.size = h.size /\ r.at = from + HeadUnits(h)
      /\ r.at + r.size + PaddingOf(r.size) = from + EntryUnits(h)
      /\ ~(r.at + r.size > Len(UnitsOf(scan.file)))
  <2>1. r.id = n /\ r.size = h.size /\ r.at = from + HeadUnits(h)
    BY <1>1
  <2>2. /\ h.size \in Nat /\ HeadUnits(h) \in Nat /\ PaddingOf(h.size) \in Nat
        /\ EntryUnits(h) = HeadUnits(h) + h.size + PaddingOf(h.size)
    BY <1>1, HeadIs
  <2>3. Len(UnitsOf(scan.file)) \in Nat
    BY <1>0, UnitsOfType
  <2> HIDE DEF h
  <2> QED
    BY <1>1, <2>1, <2>2, <2>3
<1>3. ASSUME scan'.pc = "next", scan'.file = scan.file,
             scan'.at = r.at + r.size, scan'.pad = PaddingOf(r.size)
      PROVE  OnTrack(place, n + 1)'
  <2>1. Here' = Reached(headers, place, n)
    <3>1. scan'.at + scan'.pad = from + EntryUnits(h)
      BY <1>2, <1>3
    <3> QED
      BY <1>1, <1>3, <3>1 DEF Here
  <2>2. headers' = headers /\ intact' = intact /\ isRegular' = isRegular
    BY DEF drive
  <2> DEFINE m == n + 1
  <2>3. m \in 1 .. intact + 1 /\ m - 1 = n /\ (m > intact => n = intact)
    BY <1>0
  <2>4. Reached(headers', place, n) = Here'
    BY <2>1, <2>2
  <2> HIDE DEF m
  <2>5. OnTrack(place, m)'
    BY <1>3, <2>2, <2>3, <2>4 DEF OnTrack
  <2> QED
    BY <2>5 DEF m
<1> QED
  BY <1>2, <1>3

(* A header that is due is the one that is read, and the scan goes on      *)
(* behind it.                                                              *)
LEMMA DueIsTaken ==
  ASSUME BlocksInv, NEW place, LaidOut(place), Tracked(place), scan # Idle, Follows, UNCHANGED drive,
         NEW from, Due \in 1 .. intact, place[Due] = At(scan.file, from),
         NEW r, r = ReadNext(headers, UnitsOf(scan.file), from, 0),
         NEW record, NEW block, Taken(r, record, block)
  PROVE  /\ r.id = Due /\ Counts' /\ OnTrack(place, Due)'
         /\ scan.i >= scan.offset => Due = Len(index) + 1 /\ (scan.by = "operation" => DueId = Due)
<1> DEFINE n == Due
<1>0. /\ DriveOK /\ scan \in Scanning /\ index \in Seq(Row) /\ Len(index) \in Nat
      /\ intact \in Nat /\ intact <= Len(headers) /\ Len(headers) \in Nat /\ n \in 1 .. intact
      /\ scan.i \in Nat /\ scan.offset \in Nat /\ scan.from \in Nat
  <2>1. DriveOK /\ scan \in Scanning /\ index \in Seq(Row)
    BY DEF BlocksInv
  <2> QED
    BY <2>1 DEF LaidOut, DriveOK, Scanning
<1>1. PICK m : m = n
  OBVIOUS
<1>2. /\ r.id = n /\ ~(r.at + r.size > Len(UnitsOf(scan.file)))
      /\ /\ scan'.pc = "next" /\ scan'.file = scan.file
         /\ scan'.at = r.at + r.size /\ scan'.pad = PaddingOf(r.size)
         => OnTrack(place, m + 1)'
  <2>1. m \in 1 .. intact /\ place[m] = At(scan.file, from)
    BY <1>0, <1>1
  <2> HIDE DEF n
  <2> QED
    BY <1>1, <2>1, TrackIsTaken
<1> HIDE DEF n
<1>3. /\ Counts /\ scan.by \in {"operation", "recovery"} /\ (scan.by = "operation" => ~torn)
  BY <1>0 DEF Tracked, Follows, Scanning
<1>4. scan.i >= scan.offset => n = Len(index) + 1 /\ (scan.by = "operation" => DueId = n)
  <2>1. scan.i >= scan.offset => n = Len(index) + 1
    BY <1>0 DEF n, Due
  <2>2. scan.by = "operation" /\ scan.i >= scan.offset => scan.from + (scan.i - scan.offset) = Len(index)
    BY <1>0, <1>3 DEF Counts
  <2> QED
    BY <1>0, <2>1, <2>2 DEF DueId
<1>5. /\ scan'.pc = "next" /\ scan'.i = scan.i + 1 /\ scan'.file = scan.file
      /\ scan'.at = r.at + r.size /\ scan'.pad = PaddingOf(r.size)
      /\ scan'.by = scan.by /\ scan'.offset = scan.offset /\ scan'.from = scan.from
      /\ \/ index' = index /\ scan.i < scan.offset
         \/ scan.i >= scan.offset /\ index' = index \o <<RowAt(FoundId(r), record, block)>>
  <2>1. ~(scan.by = "operation" /\ scan.i >= scan.offset /\ DueId > Len(headers))
    BY <1>0, <1>4
  <2> QED
    BY <1>2, <1>3, <2>1 DEF Taken
<1>6. headers' = headers /\ intact' = intact /\ torn' = torn /\ isRegular' = isRegular
  BY DEF drive
<1>8. /\ Due' = n + 1 /\ scan'.i >= scan'.offset
      /\ scan.i >= scan.offset => Len(index') = Len(index) + 1
      /\ scan.i < scan.offset => Len(index') = Len(index) /\ scan.from = Len(index) /\ scan.i = 0 /\ scan.offset = 1
  <2>1. CASE scan.i >= scan.offset
    <3> DEFINE row == RowAt(FoundId(r), record, block)
    <3>1. index' = index \o <<row>>
      BY <1>0, <1>5, <2>1
    <3> HIDE DEF row
    <3>2. Len(index') = Len(index) + 1
      <4>1. \E E : index \in Seq(E) /\ row \in E
        <5>1. index \in Seq(Row \cup {row})
          BY <1>0
        <5> QED
          BY <5>1
      <4> QED
        BY <1>0, <3>1, <4>1
    <3> QED
      BY <1>0, <1>4, <1>5, <2>1, <3>2 DEF Due
  <2>2. CASE scan.i < scan.offset
    <3>1. scan.by = "operation"
      BY <1>0, <1>3, <2>2 DEF Counts
    <3>2. scan.from = Len(index) /\ scan.i = 0 /\ scan.offset = 1
      BY <1>3, <2>2, <3>1 DEF Counts
    <3>3. n = Len(index)
      BY <2>2, <3>2 DEF n, Due
    <3>4. index' = index
      BY <1>0, <1>5, <2>2
    <3> QED
      BY <1>0, <1>5, <2>2, <3>2, <3>3, <3>4 DEF Due
  <2> QED
    BY <1>0, <2>1, <2>2
<1>9. Counts'
  <2>1. scan.by = "recovery" => scan.offset = 0
    BY <1>3 DEF Counts
  <2>2. scan.by = "operation" => scan'.from + (scan'.i - scan'.offset) = Len(index')
    <3>1. scan.by = "operation" /\ scan.i >= scan.offset => scan.from + (scan.i - scan.offset) = Len(index)
      BY <1>0, <1>3 DEF Counts
    <3> QED
      BY <1>0, <1>5, <1>8, <3>1, SMTT(40)
  <2>3. ~(scan'.i < scan'.offset)
    BY <1>0, <1>5, <1>8
  <2> QED
    BY <1>3, <1>5, <1>6, <2>1, <2>2, <2>3 DEF Counts
<1>10. OnTrack(place, Due)'
  <2>1. OnTrack(place, m + 1)' /\ Due' = m + 1
    BY <1>1, <1>2, <1>5, <1>8
  <2> QED
    BY <2>1 DEF OnTrack
<1> QED
  BY <1>2, <1>4, <1>9, <1>10 DEF n

LEMMA TakeKeepsLayout ==
  ASSUME BlocksInv, Fetchable, Trusted, NEW place, LaidOut(place), IndexPlaced(place), Tracked(place),
         scan # Idle, UNCHANGED drive, trusted' = trusted,
         NEW from \in Nat, Whole(from),
         NEW r, r = ReadNext(headers, UnitsOf(scan.file), from, 0), r.res = "header",
         NEW record \in Nat, NEW block \in 0 .. RecordSize - 1,
         scan.by # "query" => (record * RecordSize + block) * BlockUnits = Base(scan.file) + from,
         Follows => Due \in 1 .. intact /\ place[Due] = At(scan.file, from),
         Take(r, record, block)
  PROVE  LayoutInv'
<1> DEFINE row == RowAt(FoundId(r), record, block)
           units == UnitsOf(scan.file)
<1>0. /\ DriveOK /\ scan \in Scanning /\ index \in Seq(Row) /\ Len(index) \in Nat
      /\ scan.file \in 1 .. EndOfData /\ (isRegular => scan.file = 1)
      /\ intact \in Nat /\ intact <= Len(headers) /\ Len(headers) \in Nat /\ torn \in BOOLEAN
      /\ headers \in Seq(HeaderShape) /\ trusted' = trusted
      /\ scan.i \in Nat /\ scan.offset \in Nat /\ scan.from \in Nat
      /\ scan.by \in {"operation", "recovery", "query"}
  <2>1. DriveOK /\ scan \in Scanning /\ index \in Seq(Row) /\ headers \in Seq(HeaderShape)
    BY DEF BlocksInv, DriveOK
  <2>2. scan.file \in 1 .. EndOfData /\ (isRegular => scan.file = 1)
    BY DEF BlocksInv, ScanOnDrive
  <2>3. intact \in 0 .. Len(headers) /\ torn \in BOOLEAN
    BY DEF LaidOut
  <2>4. scan.i \in Nat /\ scan.offset \in Nat /\ scan.from \in Nat /\ scan.by \in {"operation", "recovery", "query"}
    BY <2>1 DEF Scanning
  <2> QED
    BY <2>1, <2>2, <2>3, <2>4
<1>1. Taken(r, record, block)
  BY <1>0, TakeIs
<1>2. units \in Seq(Units(Len(headers))) /\ Len(units) \in Nat
  BY <1>0, UnitsOfType
<1> HIDE DEF units
<1>3. r = ReadNext(headers, units, from, 0)
  BY DEF units
<1>4. /\ r \in Readings(Len(headers)) /\ r.at >= from + BlockUnits /\ r.at <= Len(units)
      /\ r.at \in Nat /\ r.size \in Nat /\ r.id \in 0 .. Len(headers) /\ Whole(r.at)
  <2>1. 0 \in Nat /\ ~(0 > 0)
    OBVIOUS
  <2>2. /\ ReadNext(headers, units, from, 0) \in Readings(Len(headers))
        /\ ReadNext(headers, units, from, 0).res = "header" =>
             /\ ReadNext(headers, units, from, 0).at >= from + BlockUnits
             /\ ReadNext(headers, units, from, 0).at <= Len(units)
    BY <1>0, <1>2, <2>1, ReadNextAdvances
  <2>3. Whole(r.at)
    BY <1>0, <1>2, <1>3, HeaderWhole
  <2> QED
    BY <1>3, <2>2, <2>3 DEF Readings
<1>5. from + BlockUnits <= Len(units)
  BY <1>2, <1>4, UnitSizes
<1>6. scan.by # "query" => FileWith(record) = scan.file /\ OffsetIn(scan.file, record, block) = from
  BY <1>0, <1>5, PlaceIs DEF units
<1>7. scan.by # "query" => PlaceOf(row) = At(scan.file, from) /\ Fetch(record, block) = r
  <2>1. row.record = record /\ row.block = block
    BY DEF RowAt
  <2> HIDE DEF row
  <2> QED
    BY <1>3, <1>6, <2>1 DEF PlaceOf, Fetch, units
<1>8. /\ headers' = headers /\ intact' = intact /\ torn' = torn
      /\ LaidOut(place)' /\ \A s : PlaceOf(s)' = PlaceOf(s)
      /\ \A p, b : Fetch(p, b)' = Fetch(p, b)
  BY DriveSame
<1>9. Follows => /\ r.id = Due /\ Counts' /\ OnTrack(place, Due)'
                 /\ scan.i >= scan.offset => Due = Len(index) + 1 /\ (scan.by = "operation" => DueId = Due)
  BY <1>1, DueIsTaken
<1>10. /\ row.record = record /\ row.block = block /\ row.id = FoundId(r)
       /\ FoundId(r) = IF scan.by = "operation" THEN DueId ELSE r.id
  BY DEF RowAt, FoundId
<1>11. /\ scan' # Idle /\ scan'.by = scan.by /\ scan'.offset = scan.offset /\ scan'.from = scan.from
       /\ \/ index' = index
          \/ /\ scan.by # "query" /\ scan.i >= scan.offset /\ index' = index \o <<row>>
             /\ scan.by = "operation" => ~(DueId > Len(headers))
  BY <1>1 DEF Taken
<1>12. scan.by # "query" => Counts
  BY DEF Tracked
<1> HIDE DEF row
<1>13. \/ index' = index
       \/ /\ Len(index') = Len(index) + 1 /\ DOMAIN index' = 1 .. Len(index) + 1
          /\ \A k \in DOMAIN index : index'[k] = index[k]
          /\ index'[Len(index) + 1] = row
          /\ DOMAIN index = 1 .. Len(index)
          /\ scan.by # "query" /\ scan.i >= scan.offset
          /\ scan.by = "operation" => ~(DueId > Len(headers))
  <2>1. ASSUME index' = index \o <<row>>
        PROVE  /\ Len(index') = Len(index) + 1 /\ DOMAIN index' = 1 .. Len(index) + 1
               /\ \A k \in DOMAIN index : index'[k] = index[k]
               /\ index'[Len(index) + 1] = row
               /\ DOMAIN index = 1 .. Len(index)
    <3> DEFINE All == Row \cup {row}
    <3>1. index \in Seq(All) /\ row \in All
      BY <1>0
    <3> HIDE DEF All
    <3> QED
      BY <2>1, <3>1
  <2> QED
    BY <1>11, <2>1
<1>14. ASSUME index' # index
       PROVE  /\ row.id \in 0 .. Len(headers)
              /\ Len(index) + 1 <= intact => row.id = Len(index) + 1 /\ PlaceOf(row) = place[Len(index) + 1]
              /\ row.id \in 1 .. intact => r.id = row.id
  <2>0. /\ scan.by # "query" /\ scan.i >= scan.offset /\ (scan.by = "operation" => ~(DueId > Len(headers)))
    BY <1>13, <1>14
  <2>1. DueId \in Nat /\ DueId >= 1 /\ DueId >= scan.from + 1
    BY <1>0, <2>0, SMTT(40) DEF DueId
  <2>2. row.id \in 0 .. Len(headers)
    BY <1>0, <1>4, <1>10, <2>0, <2>1, SMTT(40)
  <2>3. ASSUME Len(index) + 1 <= intact
        PROVE  row.id = Len(index) + 1 /\ PlaceOf(row) = place[Len(index) + 1]
    <3>1. Follows
      <4>1. CASE scan.by = "recovery"
        BY <1>0, <2>3, <4>1 DEF Follows
      <4>2. CASE scan.by = "operation"
        <5>1. ~torn
          BY <1>0, <1>12, <2>3, <4>2 DEF Counts
        <5> QED
          BY <4>2, <5>1 DEF Follows
      <4> QED
        BY <1>0, <2>0, <4>1, <4>2
    <3>2. r.id = Due /\ Due = Len(index) + 1 /\ (scan.by = "operation" => DueId = Due)
      BY <1>9, <2>0, <3>1
    <3>3. PlaceOf(row) = At(scan.file, from) /\ place[Due] = At(scan.file, from)
      BY <1>7, <2>0, <3>1
    <3> QED
      BY <1>10, <3>2, <3>3
  <2>4. ASSUME row.id \in 1 .. intact PROVE r.id = row.id
    <3>1. CASE scan.by # "operation"
      BY <1>10, <3>1
    <3>2. CASE scan.by = "operation"
      <4>1. row.id = DueId
        BY <1>10, <3>2
      <4>2. ~torn
        <5>1. torn => scan.from >= intact
          BY <1>12, <2>0, <3>2 DEF Counts
        <5> QED
          BY <1>0, <2>1, <2>4, <4>1, <5>1
      <4>3. Follows
        BY <2>0, <4>2 DEF Follows
      <4> QED
        BY <1>9, <2>0, <3>2, <4>1, <4>3
    <3> QED
      BY <3>1, <3>2
  <2> QED
    BY <2>2, <2>3, <2>4
<1>15. IndexPlaced(place)'
  <2>1. CASE index' = index
    BY <1>8, <2>1 DEF IndexPlaced
  <2>2. CASE index' # index
    <3>1. ASSUME NEW k \in DOMAIN index', NEW s, s = index'[k]
          PROVE  /\ s.id \in 0 .. Len(headers)
                 /\ k <= intact => s.id = k /\ PlaceOf(s) = place[k]
      <4>1. CASE k = Len(index) + 1
        <5>1. s = row
          BY <1>13, <2>2, <3>1, <4>1
        <5> QED
          BY <1>14, <2>2, <4>1, <5>1
      <4>2. CASE k # Len(index) + 1
        <5>1. k \in DOMAIN index /\ s = index[k]
          BY <1>0, <1>13, <2>2, <3>1, <4>2
        <5> QED
          BY <5>1 DEF IndexPlaced
      <4> QED
        BY <4>1, <4>2
    <3> QED
      BY <1>8, <3>1 DEF IndexPlaced
  <2> QED
    BY <2>1, <2>2
<1>16. Fetchable'
  <2>1. CASE index' = index
    BY <1>8, <2>1 DEF Fetchable
  <2>2. CASE index' # index
    <3>1. ASSUME NEW k \in DOMAIN index', NEW s, s = index'[k], s.id \in 1 .. intact
          PROVE  Fetch(s.record, s.block).res = "header" /\ Fetch(s.record, s.block).id = s.id
      <4>1. CASE k = Len(index) + 1
        <5>1. s = row
          BY <1>13, <2>2, <3>1, <4>1
        <5>2. Fetch(record, block) = r
          BY <1>7, <1>13, <2>2
        <5> QED
          BY <1>10, <1>14, <2>2, <3>1, <5>1, <5>2
      <4>2. CASE k # Len(index) + 1
        <5>1. k \in DOMAIN index /\ s = index[k]
          BY <1>0, <1>13, <2>2, <3>1, <4>2
        <5>2. s \in ToSet(index)
          BY <5>1 DEF ToSet
        <5> QED
          BY <3>1, <5>2 DEF Fetchable
      <4> QED
        BY <4>1, <4>2
    <3>2. \A s \in ToSet(index') : \E k \in DOMAIN index' : s = index'[k]
      BY DEF ToSet
    <3>3. ASSUME NEW s \in ToSet(index'), s.id \in 1 .. intact
          PROVE  Fetch(s.record, s.block).res = "header" /\ Fetch(s.record, s.block).id = s.id
      BY <3>1, <3>2, <3>3
    <3>4. ToSet(index)' = ToSet(index')
      BY DEF ToSet
    <3> QED
      BY <1>8, <3>3, <3>4 DEF Fetchable
  <2> QED
    BY <2>1, <2>2
<1>17. Trusted'
  <2>1. CASE scan.by = "query"
    <3>1. index' = index
      BY <1>11, <2>1
    <3> QED
      BY <1>0, <1>8, <1>11, <2>1, <3>1 DEF Trusted, Complete
  <2>2. CASE scan.by # "query"
    BY <1>11, <2>2 DEF Trusted
  <2> QED
    BY <2>1, <2>2
<1>18. Aligned'
  <2>1. CASE scan'.pc = "next"
    <3>1. scan'.at = r.at + r.size /\ scan'.pad = PaddingOf(r.size)
      BY <1>1, <2>1 DEF Taken
    <3>2. /\ PaddingOf(r.size) \in Nat /\ PaddingOf(r.size) < BlockUnits
          /\ Whole(r.size + PaddingOf(r.size))
      BY <1>4, PaddingFills
    <3>3. Whole(r.at + (r.size + PaddingOf(r.size)))
      BY <1>4, <3>2, WholeSum
    <3>4. r.at + r.size + PaddingOf(r.size) = r.at + (r.size + PaddingOf(r.size))
      BY <1>4, <3>2
    <3>5. Whole(r.at + r.size + PaddingOf(r.size))
      BY <3>3, <3>4
    <3> QED
      BY <3>1, <3>2, <3>5 DEF Aligned, Whole
  <2>2. CASE scan'.pc # "next"
    BY <2>2 DEF Aligned
  <2> QED
    BY <2>1, <2>2
<1>19. Tracked(place)'
  <2> SUFFICES ASSUME scan.by # "query" PROVE Counts' /\ (Follows' => OnTrack(place, Due)')
    BY <1>11 DEF Tracked
  <2>1. CASE Follows
    BY <1>9, <2>1
  <2>2. CASE ~Follows
    <3>1. Len(index') \in Nat /\ Len(index') >= Len(index)
      BY <1>0, <1>13
    <3>2. torn /\ (scan.by = "recovery" => Len(index) >= intact)
      BY <1>0, <2>2 DEF Follows
    <3>3. ~Follows'
      BY <1>0, <1>8, <1>11, <3>1, <3>2 DEF Follows
    <3>4. Counts'
      <4>1. scan.by = "recovery" => scan'.offset = 0
        BY <1>11, <1>12 DEF Counts
      <4>2. scan.by = "operation" => Len(index') >= intact /\ scan'.from >= intact
        <5>1. scan.by = "operation" => Len(index) >= intact /\ scan.from >= intact
          BY <1>12, <3>2 DEF Counts
        <5> QED
          BY <1>0, <1>11, <3>1, <5>1
      <4>3. torn' = TRUE
        BY <1>0, <1>8, <3>2
      <4> QED
        BY <1>8, <1>11, <4>1, <4>2, <4>3 DEF Counts
    <3> QED
      BY <3>3, <3>4
  <2> QED
    BY <2>1, <2>2
<1> QED
  BY <1>8, <1>15, <1>16, <1>17, <1>18, <1>19 DEF LayoutInv

-----------------------------------------------------------------------------
(* What the tar reader finds on the way to the header that is due.         *)

LEMMA EndIsRead ==
  ASSUME DriveOK, NEW p, p.at \in Nat, EndsAt(medium, p)
  PROVE  LET r == ReadNext(headers, UnitsOf(p.file), p.at, 0)
         IN  /\ r.res = "eof" /\ p.at <= Len(UnitsOf(p.file))
             /\ LiesAt(medium, p, Trailer) => r.at = p.at + 2 * BlockUnits /\ r.at <= Len(UnitsOf(p.file))
             /\ ~LiesAt(medium, p, Trailer) => r.at = p.at /\ Len(UnitsOf(p.file)) = p.at
<1> DEFINE units == UnitsOf(p.file)
           at == p.at
           r == ReadNext(headers, units, at, 0)
<1>1. units \in Seq(Units(Len(headers))) /\ Len(units) \in Nat /\ Len(headers) \in Nat /\ at \in Nat
  BY UnitsOfType DEF DriveOK
<1>2. UnitsIn(medium, p.file) = units
  BY DEF UnitsIn, UnitsOf
<1>3. LiesAt(medium, p, Trailer) <=> Lies(units, at, Trailer)
  BY <1>2 DEF LiesAt
<1>4. Lies(units, at, Trailer) \/ Len(units) = at
  BY <1>2, <1>3 DEF EndsAt
<1> HIDE DEF units, at
<1>5. ASSUME Lies(units, at, Trailer)
      PROVE  r.res = "eof" /\ r.at = at + 2 * BlockUnits /\ r.at <= Len(units) /\ at <= Len(units)
  <2>1. r = ReadTo("eof", at + 2 * BlockUnits) /\ at + 2 * BlockUnits <= Len(units)
    BY <1>1, <1>5, TrailerRead
  <2>2. r.res = "eof" /\ r.at = at + 2 * BlockUnits
    BY <2>1 DEF ReadTo
  <2> HIDE DEF r
  <2> QED
    BY <1>1, <2>1, <2>2, UnitSizes
<1>6. ASSUME ~Lies(units, at, Trailer)
      PROVE  r.res = "eof" /\ r.at = at /\ Len(units) = at /\ at <= Len(units)
  <2>1. Len(units) = at /\ at >= Len(units)
    BY <1>1, <1>4, <1>6
  <2>2. r = ReadTo("eof", at)
    BY <1>1, <2>1, EndRead
  <2>3. r.res = "eof" /\ r.at = at
    BY <2>2 DEF ReadTo
  <2> QED
    BY <1>1, <2>1, <2>3
<1> QED
  BY <1>3, <1>5, <1>6 DEF units, at

(* On the way to a header, or at the end of a drive where nothing is torn. *)
Knows(place, n) == OnTrack(place, n) /\ (n > intact => ~torn)

(* A scan that has come behind the last header has come to the end of a    *)
(* drive where nothing is torn.                                            *)
LEMMA BehindTheLast ==
  ASSUME BlocksInv, NEW place, LaidOut(place), Tracked(place), scan # Idle, Follows
  PROVE  /\ Due \in 1 .. intact + 1 /\ OnTrack(place, Due) /\ Knows(place, Due)
         /\ ~(Due \in 1 .. intact) =>
              Due = intact + 1 /\ ~torn /\ Closed(isRegular, medium, Reached(headers, place, intact))
<1>1. Counts /\ OnTrack(place, Due)
  BY DEF Tracked, Follows
<1>2. intact \in Nat /\ Len(index) \in Nat /\ scan.i \in Nat
  BY DEF LaidOut, BlocksInv, DriveOK, Scanning
<1>3. Due \in 1 .. intact + 1
  BY <1>1 DEF OnTrack
<1>4. ASSUME ~(Due \in 1 .. intact) PROVE Due = intact + 1 /\ ~torn
  <2>1. Due = intact + 1
    BY <1>2, <1>3, <1>4
  <2>2. ASSUME torn PROVE FALSE
    <3>1. scan.by = "recovery" /\ Len(index) < intact
      BY <2>2 DEF Follows
    <3>2. ~(scan.i < scan.offset)
      BY <1>1, <1>2, <3>1 DEF Counts
    <3>3. Due = Len(index) + 1
      BY <3>2 DEF Due
    <3> QED
      BY <1>2, <2>1, <3>1, <3>3
  <2> QED
    BY <2>1, <2>2
<1>5. Due > intact => ~torn
  BY <1>2, <1>3, <1>4
<1> QED
  BY <1>1, <1>3, <1>4, <1>5 DEF LaidOut, Knows

(* The scan is at p; what it reads there.                                  *)
LEMMA ReadOnAt ==
  ASSUME BlocksInv, scan # Idle, scan.pc = "next", Aligned, NEW p, Here = p
  PROVE  /\ p.file = scan.file /\ p.at = scan.at + scan.pad /\ p.at \in Nat
         /\ ReadOn.res = "header" \/ p.at <= Len(UnitsOf(p.file)) =>
              ReadOn = ReadNext(headers, UnitsOf(p.file), p.at, 0)
<1>1. p.file = scan.file /\ p.at = scan.at + scan.pad
  BY DEF Here, At
<1>2. scan.at \in Nat /\ scan.pad \in Nat /\ DriveOK
  BY DEF BlocksInv, Scanning
<1>3. LET r == ReadNext(headers, UnitsOf(scan.file), scan.at, scan.pad)
      IN  r.res = "header" \/ scan.at + scan.pad <= Len(UnitsOf(scan.file)) =>
            r = ReadNext(headers, UnitsOf(scan.file), scan.at + scan.pad, 0)
  BY <1>2, ReadOnIs
<1> QED
  BY <1>1, <1>2, <1>3 DEF ReadOn

(* At the end of an archive before the header that is due.                 *)
HeaderHere(place, n) == n \in 1 .. intact /\ ReadOn.res = "header" /\ place[n] = Here
HeaderBehindTrailer(place, n) ==
  n \in 1 .. intact /\ isRegular /\ ReadOn.res = "eof" /\ place[n] = At(scan.file, ReadOn.at)
HeaderInNextFile(place, n) ==
  n \in 1 .. intact /\ ~isRegular /\ ReadOn.res = "eof" /\ place[n] = At(scan.file + 1, 0) /\ scan.file # EndOfData
EndOfFile(n) == n = intact + 1 /\ isRegular /\ ReadOn.res = "eof" /\ ReadOn.at = Len(UnitsOf(1))
EndOfTape(n) == n = intact + 1 /\ ~isRegular /\ ReadOn.res = "eof" /\ scan.file + 1 >= EndOfData

LEMMA DueIsHere ==
  ASSUME BlocksInv, NEW place, LaidOut(place), scan # Idle, scan.pc = "next", Aligned,
         NEW n \in 1 .. intact, place[n] = Here
  PROVE  HeaderHere(place, n)
<1>1. DriveOK /\ Here = At(scan.file, scan.at + scan.pad)
  BY DEF BlocksInv, Here
<1> DEFINE from == scan.at + scan.pad
           r == ReadNext(headers, UnitsOf(scan.file), from, 0)
<1>2. place[n] = At(scan.file, from)
  BY <1>1
<1>3. /\ headers[n] \in HeaderShape /\ from \in Nat
      /\ r = [res |-> "header", at |-> from + HeadUnits(headers[n]), id |-> n, size |-> headers[n].size]
      /\ from + EntryUnits(headers[n]) <= Len(UnitsOf(scan.file))
  <2> HIDE DEF from
  <2> QED
    BY <1>1, <1>2, Expected
<1>4. from <= Len(UnitsOf(scan.file))
  <2>1. EntryUnits(headers[n]) \in Nat /\ Len(UnitsOf(scan.file)) \in Nat
    BY <1>1, <1>3, HeadIs, UnitsOfType
  <2> HIDE DEF from
  <2> QED
    BY <1>3, <2>1
<1>5. ReadOn = r
  <2>1. PICK p : p = Here
    OBVIOUS
  <2>2. p.file = scan.file /\ p.at = from
    BY <2>1, ReadOnAt
  <2> QED
    BY <1>4, <2>1, <2>2, ReadOnAt
<1> QED
  BY <1>3, <1>5 DEF HeaderHere

LEMMA DueIsAhead ==
  ASSUME BlocksInv, NEW place, LaidOut(place), scan # Idle, scan.pc = "next", Aligned,
         NEW n \in 1 .. intact, Here = Reached(headers, place, n - 1)
  PROVE  HeaderHere(place, n) \/ HeaderBehindTrailer(place, n) \/ HeaderInNextFile(place, n)
<1> DEFINE p == Here
<1>1. p.file = scan.file /\ p.at = scan.at + scan.pad /\ p.at \in Nat
      /\ (p.at <= Len(UnitsOf(p.file)) => ReadOn = ReadNext(headers, UnitsOf(p.file), p.at, 0))
  BY ReadOnAt
<1>2. Leads(isRegular, medium, p, place[n]) /\ place[n].file \in DOMAIN medium
  BY DEF LaidOut, Laid
<1>3. DriveOK
  BY DEF BlocksInv
<1> HIDE DEF p
<1>4. CASE place[n] = p
  BY <1>4, DueIsHere DEF p
<1>5. CASE isRegular /\ LiesAt(medium, p, Trailer) /\ place[n] = At(p.file, p.at + 2 * BlockUnits)
  <2>1. EndsAt(medium, p)
    BY <1>5 DEF EndsAt
  <2>2. ReadOn.res = "eof" /\ ReadOn.at = p.at + 2 * BlockUnits
    BY <1>1, <1>3, <1>5, <2>1, EndIsRead
  <2> QED
    BY <1>1, <1>5, <2>2 DEF HeaderBehindTrailer
<1>6. CASE ~isRegular /\ EndsAt(medium, p) /\ place[n] = At(p.file + 1, 0)
  <2>1. ReadOn.res = "eof"
    BY <1>1, <1>3, <1>6, EndIsRead
  <2>2. scan.file # EndOfData
    <3>1. scan.file + 1 \in DOMAIN medium /\ Len(medium) \in Nat /\ DOMAIN medium = 1 .. Len(medium)
      BY <1>1, <1>2, <1>3, <1>6 DEF At, DriveOK
    <3>2. scan.file \in Nat
      BY DEF BlocksInv, Scanning
    <3> QED
      BY <3>1, <3>2 DEF EndOfData
  <2> QED
    BY <1>1, <1>6, <2>1, <2>2 DEF HeaderInNextFile
<1> QED
  BY <1>2, <1>4, <1>5, <1>6 DEF Leads

LEMMA NothingIsAhead ==
  ASSUME BlocksInv, NEW place, LaidOut(place), scan # Idle, scan.pc = "next", Aligned,
         Closed(isRegular, medium, Reached(headers, place, intact)),
         Here = Reached(headers, place, intact) \/ (~isRegular /\ Here = At(EndOfData, 0)),
         NEW n, n = intact + 1
  PROVE  EndOfFile(n) \/ EndOfTape(n)
<1> DEFINE p == Here
<1>1. p.file = scan.file /\ p.at = scan.at + scan.pad /\ p.at \in Nat
      /\ (p.at <= Len(UnitsOf(p.file)) => ReadOn = ReadNext(headers, UnitsOf(p.file), p.at, 0))
  BY ReadOnAt
<1>2. DriveOK /\ Len(medium) \in Nat /\ DOMAIN medium = 1 .. Len(medium) /\ scan.file \in Nat
  BY DEF BlocksInv, DriveOK, Scanning
<1> HIDE DEF p
<1>3. EndsAt(medium, p) /\ (~isRegular => scan.file + 1 >= EndOfData)
  <2>1. CASE p = Reached(headers, place, intact)
    <3>1. Closed(isRegular, medium, p)
      BY <2>1
    <3>2. ~isRegular => Len(medium) = p.file \/ (medium = <<>> /\ p = At(1, 0))
      BY <3>1 DEF Closed
    <3>3. ASSUME ~isRegular PROVE scan.file + 1 >= EndOfData
      <4>1. CASE Len(medium) = p.file
        BY <1>1, <1>2, <4>1 DEF EndOfData
      <4>2. CASE medium = <<>> /\ p = At(1, 0)
        <5>1. Len(medium) = 0
          BY <4>2
        <5> QED
          BY <1>1, <1>2, <5>1 DEF EndOfData
      <4> QED
        BY <3>2, <3>3, <4>1, <4>2
    <3> QED
      BY <3>1, <3>3 DEF Closed
  <2>2. CASE ~isRegular /\ p = At(EndOfData, 0)
    <3>1. p.file = Len(medium) + 1 /\ p.at = 0
      BY <2>2 DEF At, EndOfData
    <3>2. p.file \notin DOMAIN medium
      BY <1>2, <3>1
    <3>3. UnitsIn(medium, p.file) = <<>>
      BY <3>2 DEF UnitsIn
    <3>4. EndsAt(medium, p)
      BY <3>1, <3>3 DEF EndsAt
    <3> QED
      BY <1>1, <1>2, <3>1, <3>4 DEF EndOfData
  <2> QED
    BY <2>1, <2>2 DEF p
<1>4. ReadOn.res = "eof"
  BY <1>1, <1>2, <1>3, EndIsRead
<1>5. CASE isRegular
  <2>1. Closed(isRegular, medium, p)
    BY <1>5 DEF p
  <2>2. /\ p.file = 1 /\ Len(UnitsIn(medium, 1)) \in {p.at, p.at + 2 * BlockUnits}
        /\ UnitsIn(medium, 1) = UnitsOf(1)
    BY <1>5, <2>1 DEF Closed, UnitsIn, UnitsOf
  <2>3. /\ p.at <= Len(UnitsOf(1)) /\ ReadOn = ReadNext(headers, UnitsOf(1), p.at, 0)
        /\ LiesAt(medium, p, Trailer) => ReadOn.at = p.at + 2 * BlockUnits /\ ReadOn.at <= Len(UnitsOf(1))
        /\ ~LiesAt(medium, p, Trailer) => ReadOn.at = p.at /\ Len(UnitsOf(1)) = p.at
    BY <1>1, <1>2, <1>3, <2>2, EndIsRead
  <2>4. ReadOn.at = Len(UnitsOf(1))
    <3> DEFINE end == Len(UnitsOf(1))
               at == ReadOn.at
               trailer == LiesAt(medium, p, Trailer)
    <3>1. end \in {p.at, p.at + 2 * BlockUnits}
      BY <2>2
    <3>2. /\ trailer => at = p.at + 2 * BlockUnits /\ at <= end
          /\ ~trailer => at = p.at /\ end = p.at
      BY <2>3
    <3> HIDE DEF end, at, trailer
    <3>3. at = end
      BY <1>1, <3>1, <3>2, UnitSizes
    <3> QED
      BY <3>3 DEF at, end
  <2> QED
    BY <1>4, <1>5, <2>4 DEF EndOfFile
<1>6. CASE ~isRegular
  BY <1>3, <1>4, <1>6 DEF EndOfTape
<1> QED
  BY <1>5, <1>6

LEMMA TrackIsRead ==
  ASSUME BlocksInv, NEW place, LaidOut(place), scan # Idle, scan.pc = "next", Aligned,
         NEW n, Knows(place, n)
  PROVE  \/ HeaderHere(place, n) \/ HeaderBehindTrailer(place, n) \/ HeaderInNextFile(place, n)
         \/ EndOfFile(n) \/ EndOfTape(n)
<1>1. OnTrack(place, n) /\ n \in 1 .. intact + 1 /\ intact \in Nat /\ (n > intact => ~torn)
  BY DEF Knows, OnTrack, LaidOut, BlocksInv, DriveOK
<1>2. CASE n \in 1 .. intact
  <2>1. n <= intact
    BY <1>1, <1>2
  <2>2. Here = place[n] \/ Here = Reached(headers, place, n - 1)
    BY <1>1, <2>1 DEF OnTrack
  <2> QED
    BY <1>2, <2>2, DueIsHere, DueIsAhead
<1>3. CASE ~(n \in 1 .. intact)
  <2>1. n = intact + 1 /\ n > intact
    BY <1>1, <1>3
  <2>2. Closed(isRegular, medium, Reached(headers, place, intact))
    BY <1>1, <2>1 DEF LaidOut
  <2>3. Here = Reached(headers, place, intact) \/ (~isRegular /\ Here = At(EndOfData, 0))
    BY <1>1, <2>1 DEF OnTrack
  <2> QED
    BY <2>1, <2>2, <2>3, NothingIsAhead
<1> QED
  BY <1>2, <1>3

(* The ways a step of a scan goes on without a header.                     *)
LEMMA EndOnTrack ==
  ASSUME BlocksInv, Aligned, NEW place, LaidOut(place), NextHeader, ReadOn.res # "header",
         NEW n, Knows(place, n)
  PROVE  OnTrack(place, n)'
<1>1. /\ scan.pc = "next" /\ isRegular /\ UNCHANGED drive /\ scan # Idle
      /\ scan' = [scan EXCEPT !.pc = "resync", !.at = ReadOn.at, !.pad = 0]
  BY DEF NextHeader, Idle
<1>2. /\ scan \in Scanning /\ ReadOn.at \in Nat /\ isRegular' = isRegular
      /\ intact' = intact /\ intact \in Nat
  <2>1. ReadOn \in Readings(Len(headers))
    BY <1>1, ReadOnAdvances
  <2>2. ReadOn.at \in Nat
    BY <2>1 DEF Readings
  <2> QED
    BY <1>1, <2>2 DEF BlocksInv, drive, LaidOut, DriveOK
<1> DEFINE at == ReadOn.at
<1> HIDE DEF at
<1>3. scan'.pc = "resync" /\ scan'.at = at /\ scan'.pad = 0 /\ scan'.file = scan.file
  BY <1>1, <1>2 DEF Scanning, at
<1>4. Here' = At(scan.file, at)
  <2>1. scan'.at + scan'.pad = at
    BY <1>2, <1>3 DEF at
  <2> QED
    BY <1>3, <2>1 DEF Here
<1>5. HeaderBehindTrailer(place, n) \/ EndOfFile(n)
  BY <1>1, TrackIsRead DEF HeaderHere, HeaderInNextFile, EndOfTape
<1>6. CASE HeaderBehindTrailer(place, n)
  <2>1. n \in 1 .. intact /\ place[n] = At(scan.file, at)
    BY <1>6 DEF HeaderBehindTrailer, at
  <2>2. n \in 1 .. intact + 1 /\ ~(n > intact)
    BY <1>2, <2>1
  <2> QED
    BY <1>2, <1>3, <1>4, <2>1, <2>2 DEF OnTrack
<1>7. CASE EndOfFile(n)
  <2>1. n = intact + 1 /\ at = Len(UnitsOf(1))
    BY <1>7 DEF EndOfFile, at
  <2>2. n \in 1 .. intact + 1 /\ ~(n <= intact)
    BY <1>2, <2>1
  <2>3. UnitsOf(1)' = UnitsOf(1)
    BY <1>1 DEF drive, UnitsOf
  <2> QED
    BY <1>2, <1>3, <2>1, <2>2, <2>3 DEF OnTrack
<1> QED
  BY <1>5, <1>6, <1>7

LEMMA MarkOnTrack ==
  ASSUME BlocksInv, Aligned, NEW place, LaidOut(place), NextOnTape, ReadOn.res # "header",
         NEW n, Knows(place, n)
  PROVE  OnTrack(place, n)'
<1>1. scan.pc = "next" /\ ~isRegular /\ UNCHANGED drive /\ scan # Idle
  BY DEF NextOnTape, Idle
<1>2. /\ scan \in Scanning /\ intact' = intact /\ intact \in Nat /\ isRegular' = isRegular
      /\ EndOfData' = EndOfData /\ EndOfData \in Nat /\ scan.file \in 1 .. EndOfData
  <2>1. scan \in Scanning /\ DriveOK /\ scan.file \in 1 .. EndOfData
    BY <1>1, Position DEF BlocksInv
  <2>2. Len(headers) \in Nat /\ Len(medium) \in Nat
    BY <2>1 DEF DriveOK
  <2> QED
    BY <1>1, <2>1, <2>2 DEF drive, LaidOut, EndOfData
<1>3. HeaderInNextFile(place, n) \/ EndOfTape(n)
  BY <1>1, TrackIsRead DEF HeaderHere, HeaderBehindTrailer, EndOfFile
<1>4. scan' = FileMark
  BY <1>3 DEF NextOnTape, HeaderInNextFile, EndOfTape
<1>5. CASE scan.file = EndOfData
  <2>1. scan' = [scan EXCEPT !.pc = "done"]
    BY <1>4, <1>5 DEF FileMark
  <2>2. scan'.pc = "done"
    BY <1>2, <2>1 DEF Scanning
  <2>3. n = intact + 1
    BY <1>3, <1>5 DEF HeaderInNextFile, EndOfTape
  <2>4. n \in 1 .. intact + 1 /\ ~(n <= intact)
    BY <1>2, <2>3
  <2> QED
    BY <1>2, <2>2, <2>4 DEF OnTrack
<1>6. CASE scan.file # EndOfData
  <2> DEFINE record == FirstRecord(scan.file + 1)
             next == [scan EXCEPT !.file = scan.file + 1, !.at = 0, !.pad = 0, !.record = record, !.block = 0]
  <2>1. scan' = IF scan.by = "query" THEN [next EXCEPT !.counts = FALSE]
                ELSE [next EXCEPT !.counter = record * RecordUnits]
    BY <1>4, <1>6 DEF FileMark
  <2> HIDE DEF record
  <2>2. scan'.pc = "next" /\ scan'.at = 0 /\ scan'.pad = 0 /\ scan'.file = scan.file + 1
    <3>1. CASE scan.by = "query"
      BY <1>1, <1>2, <2>1, <3>1 DEF Scanning
    <3>2. CASE scan.by # "query"
      BY <1>1, <1>2, <2>1, <3>2 DEF Scanning
    <3> QED
      BY <3>1, <3>2
  <2>3. Here' = At(scan.file + 1, 0)
    BY <2>2 DEF Here
  <2>4. CASE HeaderInNextFile(place, n)
    <3>1. n \in 1 .. intact /\ place[n] = At(scan.file + 1, 0)
      BY <2>4 DEF HeaderInNextFile
    <3>2. n \in 1 .. intact + 1 /\ ~(n > intact)
      BY <1>2, <3>1
    <3> QED
      BY <1>2, <2>2, <2>3, <3>1, <3>2 DEF OnTrack
  <2>5. CASE EndOfTape(n)
    <3>1. n = intact + 1 /\ scan.file + 1 = EndOfData
      BY <1>2, <1>6, <2>5 DEF EndOfTape
    <3>2. n \in 1 .. intact + 1 /\ ~(n <= intact)
      BY <1>2, <3>1
    <3>3. Here' = At(EndOfData', 0)
      BY <1>2, <2>3, <3>1
    <3> QED
      BY <1>1, <1>2, <2>2, <3>2, <3>3 DEF OnTrack
  <2> QED
    BY <1>3, <2>4, <2>5
<1> QED
  BY <1>5, <1>6

(* What is known before a step of a scan.                                  *)
Scans(place) ==
  /\ BlocksInv /\ Fetchable /\ Trusted /\ Aligned
  /\ LaidOut(place) /\ IndexPlaced(place) /\ Tracked(place)

LEMMA HeaderTaken ==
  ASSUME NEW place, Scans(place), scan # Idle, scan.pc = "next", UNCHANGED drive, trusted' = trusted,
         ReadOn.res = "header", Follows => HeaderHere(place, Due),
         Take(ReadOn, scan.record, scan.block)
  PROVE  LayoutInv'
<1> DEFINE from == scan.at + scan.pad
<1>1. /\ scan \in Scanning /\ DriveOK /\ scan.file \in 1 .. EndOfData
      /\ scan.record \in Nat /\ scan.block \in 0 .. RecordSize - 1
      /\ scan.at \in Nat /\ scan.pad \in Nat
  BY Position DEF Scans, BlocksInv, Scanning
<1>2. from \in Nat /\ Whole(from) /\ scan.pad < BlockUnits
  BY <1>1 DEF Scans, Aligned
<1>3. ReadOn = ReadNext(headers, UnitsOf(scan.file), from, 0)
  <2>1. PICK p : p = Here
    OBVIOUS
  <2>2. p.file = scan.file /\ p.at = from
    BY <2>1, ReadOnAt DEF Scans
  <2> QED
    BY <2>1, <2>2, ReadOnAt DEF Scans
<1>4. ASSUME scan.by # "query"
      PROVE  (scan.record * RecordSize + scan.block) * BlockUnits = Base(scan.file) + from
  <2>1. scan.record * RecordSize + scan.block = TotalBlocks(Base(scan.file) + scan.at)
    BY <1>4 DEF Scans, BlocksInv, IndexCounts, Indexing, Location, Where
  <2> DEFINE base == Base(scan.file)
             units == base + scan.at
  <2>2. Whole(base) /\ base \in Nat
    BY <1>1, BaseWhole
  <2> HIDE DEF base
  <2>3. units \in Nat /\ units + scan.pad = base + from
    BY <1>1, <2>2
  <2>4. Whole(units + scan.pad)
    <3>1. Whole(base + from)
      BY <1>2, <2>2, WholeSum
    <3> QED
      BY <2>3, <3>1
  <2>5. TotalBlocks(units) * BlockUnits = units + scan.pad
    <3> HIDE DEF units
    <3> QED
      BY <1>1, <1>2, <2>3, <2>4, NextBlock
  <2> QED
    BY <2>1, <2>3, <2>5 DEF base
<1>5. Follows => Due \in 1 .. intact /\ place[Due] = At(scan.file, from)
  BY DEF HeaderHere, Here
<1> DEFINE r == ReadOn
           record == scan.record
           block == scan.block
<1> HIDE DEF r, record, block, from
<1>6. /\ r = ReadNext(headers, UnitsOf(scan.file), from, 0) /\ r.res = "header"
      /\ Take(r, record, block) /\ record \in Nat /\ block \in 0 .. RecordSize - 1
      /\ scan.by # "query" => (record * RecordSize + block) * BlockUnits = Base(scan.file) + from
  BY <1>1, <1>3, <1>4 DEF r, record, block
<1> QED
  BY <1>2, <1>5, <1>6, TakeKeepsLayout DEF Scans

LEMMA NextHeaderKeepsLayout ==
  ASSUME NEW place, Scans(place), NextHeader
  PROVE  LayoutInv'
<1>1. /\ scan.pc = "next" /\ isRegular /\ UNCHANGED drive /\ trusted' = trusted /\ scan # Idle
  BY DEF NextHeader, Idle
<1>2. Follows => Knows(place, Due)
  BY <1>1, BehindTheLast DEF Scans
<1>3. CASE ReadOn.res = "header"
  <2>1. Take(ReadOn, scan.record, scan.block)
    BY <1>3 DEF NextHeader
  <2>2. Follows => HeaderHere(place, Due)
    BY <1>1, <1>2, <1>3, TrackIsRead DEF Scans, HeaderBehindTrailer, HeaderInNextFile, EndOfFile, EndOfTape
  <2> QED
    BY <1>1, <1>3, <2>1, <2>2, HeaderTaken
<1>4. CASE ReadOn.res # "header"
  <2>1. scan' = [scan EXCEPT !.pc = "resync", !.at = ReadOn.at, !.pad = 0] /\ index' = index
    BY <1>4 DEF NextHeader
  <2>2. /\ scan'.pc = "resync" /\ scan' # Idle
        /\ scan'.by = scan.by /\ scan'.i = scan.i /\ scan'.offset = scan.offset /\ scan'.from = scan.from
    <3>1. scan \in Scanning
      BY <1>1 DEF Scans, BlocksInv
    <3> DEFINE at == ReadOn.at
    <3> HIDE DEF at
    <3>2. scan' = [scan EXCEPT !.pc = "resync", !.at = at, !.pad = 0]
      BY <2>1 DEF at
    <3> QED
      BY <3>1, <3>2 DEF Scanning, Idle
  <2>3. ASSUME Follows, NEW n, n = Due PROVE OnTrack(place, n)'
    <3>1. Knows(place, n)
      BY <1>2, <2>3
    <3> QED
      BY <1>4, <3>1, EndOnTrack DEF Scans
  <2>4. Aligned'
    BY <2>2 DEF Aligned
  <2> QED
    BY <1>1, <2>1, <2>2, <2>3, <2>4, StepKeepsLayout DEF Scans
<1> QED
  BY <1>3, <1>4

LEMMA NextOnTapeKeepsLayout ==
  ASSUME NEW place, Scans(place), NextOnTape
  PROVE  LayoutInv'
<1>1. /\ scan.pc = "next" /\ ~isRegular /\ UNCHANGED drive /\ trusted' = trusted /\ scan # Idle
  BY DEF NextOnTape, Idle
<1>2. Follows => Knows(place, Due)
  BY <1>1, BehindTheLast DEF Scans
<1>3. scan \in Scanning
  BY <1>1 DEF Scans, BlocksInv
<1>4. CASE ReadOn.res = "header"
  <2>1. Take(ReadOn, scan.record, scan.block)
    BY <1>4 DEF NextOnTape
  <2>2. Follows => HeaderHere(place, Due)
    BY <1>1, <1>2, <1>4, TrackIsRead DEF Scans, HeaderBehindTrailer, HeaderInNextFile, EndOfFile, EndOfTape
  <2> QED
    BY <1>1, <1>4, <2>1, <2>2, HeaderTaken
<1>5. CASE ReadOn.res # "header"
  <2>1. index' = index /\ (scan' = FileMark \/ scan' = [scan EXCEPT !.pc = "failed"])
    BY <1>5 DEF NextOnTape
  <2>2. /\ scan' # Idle /\ (scan'.pc = "next" => scan'.at = 0 /\ scan'.pad = 0)
        /\ scan'.by = scan.by /\ scan'.i = scan.i /\ scan'.offset = scan.offset /\ scan'.from = scan.from
    <3> DEFINE record == FirstRecord(scan.file + 1)
               next == [scan EXCEPT !.file = scan.file + 1, !.at = 0, !.pad = 0, !.record = record, !.block = 0]
    <3>1. \/ \E pc \in {"done", "failed"} : scan' = [scan EXCEPT !.pc = pc]
          \/ scan' = [next EXCEPT !.counts = FALSE]
          \/ scan' = [next EXCEPT !.counter = record * RecordUnits]
      BY <2>1 DEF FileMark
    <3> HIDE DEF record
    <3>2. ASSUME NEW pc \in {"done", "failed"}, scan' = [scan EXCEPT !.pc = pc]
          PROVE  /\ scan' # Idle /\ (scan'.pc = "next" => scan'.at = 0 /\ scan'.pad = 0)
                 /\ scan'.by = scan.by /\ scan'.i = scan.i /\ scan'.offset = scan.offset /\ scan'.from = scan.from
      BY <1>3, <3>2 DEF Scanning, Idle
    <3>3. CASE scan' = [next EXCEPT !.counts = FALSE]
      BY <1>1, <1>3, <3>3 DEF Scanning, Idle
    <3>4. CASE scan' = [next EXCEPT !.counter = record * RecordUnits]
      BY <1>1, <1>3, <3>4 DEF Scanning, Idle
    <3> QED
      BY <3>1, <3>2, <3>3, <3>4
  <2>3. ASSUME Follows, NEW n, n = Due PROVE OnTrack(place, n)'
    <3>1. Knows(place, n)
      BY <1>2, <2>3
    <3> QED
      BY <1>5, <3>1, MarkOnTrack DEF Scans
  <2>4. Aligned'
    <3>1. 0 + 0 = 0 /\ 0 < BlockUnits /\ Whole(0)
      BY UnitSizes, WholeSum
    <3> QED
      BY <2>2, <3>1 DEF Aligned, Whole
  <2> QED
    BY <1>1, <2>1, <2>2, <2>3, <2>4, StepKeepsLayout DEF Scans
<1> QED
  BY <1>4, <1>5

(* What the search reads where it is, if that is known ground.             *)
LEMMA TrackIsFound ==
  ASSUME BlocksInv, NEW place, LaidOut(place), scan # Idle, scan.pc = "resync",
         NEW from, from = TotalBlocks(scan.at) * BlockUnits,
         NEW r, r = ReadNext(headers, UnitsOf(1), from, 0), NEW n, Knows(place, n)
  PROVE  \/ n \in 1 .. intact /\ r.res = "header" /\ place[n] = At(1, from)
         \/ n = intact + 1 /\ r.res = "eof" /\ r.at = Len(UnitsOf(1))
<1>1. OnTrack(place, n) /\ n \in 1 .. intact + 1 /\ intact \in Nat /\ (n > intact => ~torn)
  BY DEF Knows, OnTrack, LaidOut, BlocksInv, DriveOK
<1>2. /\ DriveOK /\ isRegular /\ scan.file = 1 /\ scan.pad = 0 /\ scan.at \in Nat
      /\ headers \in Seq(HeaderShape) /\ intact \in 0 .. Len(headers) /\ Len(headers) \in Nat
  <2>1. DriveOK /\ isRegular /\ scan.file = 1 /\ scan.pad = 0
    BY DEF BlocksInv, ScanOnDrive
  <2>2. scan.at \in Nat
    BY Position
  <2> QED
    BY <2>1, <2>2 DEF LaidOut, DriveOK
<1>3. Whole(scan.at) => from = scan.at
  <2> SUFFICES ASSUME Whole(scan.at) PROVE from = scan.at
    OBVIOUS
  <2>1. PICK k \in Nat : scan.at = k * BlockUnits
    BY DEF Whole
  <2>2. TotalBlocks(scan.at) = k
    BY <2>1, TotalBlocksOfBlocks
  <2> QED
    BY <2>1, <2>2
<1>4. CASE n \in 1 .. intact
  <2>1. n <= intact
    BY <1>2, <1>4
  <2>2. Here = place[n]
    BY <1>1, <2>1 DEF OnTrack
  <2>3. scan.at + scan.pad = scan.at
    BY <1>2
  <2>4. place[n] = At(1, scan.at)
    BY <1>2, <2>2, <2>3 DEF Here
  <2>5. /\ Whole(scan.at)
        /\ ReadNext(headers, UnitsOf(1), scan.at, 0)
             = [res |-> "header", at |-> scan.at + HeadUnits(headers[n]), id |-> n, size |-> headers[n].size]
    BY <1>2, <1>4, <2>4, Expected
  <2> QED
    BY <1>3, <1>4, <2>4, <2>5
<1>5. CASE ~(n \in 1 .. intact)
  <2>1. n = intact + 1 /\ Closed(isRegular, medium, Reached(headers, place, intact))
    <3>1. n = intact + 1 /\ n > intact
      BY <1>1, <1>5
    <3> QED
      BY <1>1, <3>1 DEF LaidOut
  <2>2. scan.at = Len(UnitsOf(1))
    <3>1. n > intact /\ ~(n <= intact)
      BY <1>2, <2>1
    <3> QED
      BY <1>1, <3>1 DEF OnTrack
  <2> DEFINE p == Reached(headers, place, intact)
  <2>3. Whole(p.at)
    <3>1. place \in [1 .. intact -> Pos] /\ \A k \in 1 .. intact : Whole(place[k].at)
      BY DEF LaidOut, Laid
    <3> QED
      BY <1>2, <3>1, ReachedType
  <2>4. Len(UnitsOf(1)) \in {p.at, p.at + 2 * BlockUnits}
    <3>1. UnitsIn(medium, 1) = UnitsOf(1)
      BY DEF UnitsIn, UnitsOf
    <3> HIDE DEF p
    <3> QED
      BY <1>2, <2>1, <3>1 DEF Closed, p
  <2> HIDE DEF p
  <2>5. Whole(scan.at)
    BY <2>2, <2>3, <2>4, WholeSum
  <2> DEFINE units == UnitsOf(1)
  <2>6. units \in Seq(Units(Len(headers)))
    BY <1>2, UnitsOfType
  <2>7. from = scan.at /\ from >= Len(units) /\ from \in Nat
    BY <1>2, <1>3, <2>2, <2>5
  <2> HIDE DEF units
  <2>8. ReadNext(headers, units, from, 0) = ReadTo("eof", from)
    BY <1>2, <2>6, <2>7, EndRead
  <2>9. r.res = "eof" /\ r.at = from
    BY <2>8 DEF ReadTo, units
  <2> QED
    BY <2>1, <2>2, <2>7, <2>9
<1> QED
  BY <1>4, <1>5

LEMMA SearchOnTrack ==
  ASSUME BlocksInv, NEW place, LaidOut(place), Resync,
         ReadNext(headers, UnitsOf(1), TotalBlocks(scan.at) * BlockUnits, 0).res # "header",
         NEW n, Knows(place, n)
  PROVE  OnTrack(place, n)'
<1>1. scan.pc = "resync" /\ UNCHANGED drive /\ scan # Idle
  BY DEF Resync, Idle
<1> DEFINE from == TotalBlocks(scan.at) * BlockUnits
           r == ReadNext(headers, UnitsOf(1), from, 0)
<1>2. n = intact + 1 /\ r.res = "eof" /\ r.at = Len(UnitsOf(1))
  BY <1>1, TrackIsFound
<1>3. scan' = [scan EXCEPT !.pc = "mark", !.at = r.at]
  BY <1>2 DEF Resync
<1> HIDE DEF r
<1>4. scan \in Scanning /\ isRegular /\ isRegular' = isRegular /\ intact \in Nat /\ intact' = intact
  BY <1>1 DEF BlocksInv, ScanOnDrive, drive, LaidOut, DriveOK
<1>5. scan'.pc = "mark" /\ scan'.at = r.at
  BY <1>3, <1>4 DEF Scanning
<1>6. n \in 1 .. intact + 1 /\ ~(n <= intact)
  BY <1>2, <1>4
<1>7. UnitsOf(1)' = UnitsOf(1)
  BY <1>1 DEF drive, UnitsOf
<1> QED
  BY <1>2, <1>4, <1>5, <1>6, <1>7 DEF OnTrack

LEMMA ResyncKeepsLayout ==
  ASSUME NEW place, Scans(place), Resync
  PROVE  LayoutInv'
<1> DEFINE total == TotalBlocks(scan.at)
           from == total * BlockUnits
           r == ReadNext(headers, UnitsOf(1), from, 0)
           n == Due
<1>1. /\ scan.pc = "resync" /\ UNCHANGED drive /\ trusted' = trusted /\ scan # Idle
  BY DEF Resync, Idle
<1>2. /\ DriveOK /\ isRegular /\ scan.file = 1 /\ scan.pad = 0 /\ scan.at \in Nat /\ scan \in Scanning
      /\ intact \in Nat /\ intact' = intact /\ isRegular' = isRegular
  <2>1. DriveOK /\ isRegular /\ scan.file = 1 /\ scan.pad = 0
    BY <1>1 DEF Scans, BlocksInv, ScanOnDrive
  <2>2. scan.at \in Nat /\ scan \in Scanning
    BY <1>1, Position DEF Scans
  <2> QED
    BY <1>1, <2>1, <2>2 DEF Scans, LaidOut, DriveOK, drive
<1>3. total \in Nat /\ from \in Nat /\ Whole(from)
  <2>1. total \in Nat
    BY <1>2, TotalBlocksBounds
  <2> QED
    BY <2>1, UnitSizes, ProductNat DEF Whole
<1>4. Follows => /\ Knows(place, n)
                 /\ \/ n \in 1 .. intact /\ r.res = "header" /\ place[n] = At(1, from)
                    \/ n = intact + 1 /\ r.res = "eof" /\ r.at = Len(UnitsOf(1))
  <2>1. Follows => Knows(place, n)
    BY <1>1, BehindTheLast DEF Scans
  <2> QED
    BY <1>1, <2>1, TrackIsFound DEF Scans
<1> HIDE DEF n
<1>5. CASE r.res = "header"
  <2> DEFINE record == RecordOf(total)
             block == BlockOf(total)
  <2>1. Take(r, record, block)
    BY <1>5 DEF Resync
  <2>2. record \in Nat /\ block \in 0 .. RecordSize - 1 /\ record * RecordSize + block = total
    <3> HIDE DEF total
    <3> QED
      BY <1>3, PlaceOfTotal
  <2>3. (record * RecordSize + block) * BlockUnits = Base(scan.file) + from
    <3>1. Base(scan.file) = 0
      BY <1>2 DEF Base
    <3> HIDE DEF total, record, block
    <3> QED
      BY <1>3, <2>2, <3>1
  <2>4. Follows => Due \in 1 .. intact /\ place[Due] = At(scan.file, from)
    <3> HIDE DEF r, from
    <3> QED
      BY <1>2, <1>4, <1>5 DEF n
  <2> HIDE DEF record, block, from, total
  <2>5. r = ReadNext(headers, UnitsOf(scan.file), from, 0)
    BY <1>2
  <2> HIDE DEF r
  <2> QED
    BY <1>1, <1>3, <1>5, <2>1, <2>2, <2>3, <2>4, <2>5, TakeKeepsLayout DEF Scans
<1>6. CASE r.res = "error"
  <2>1. scan' = [scan EXCEPT !.at = r.at] /\ index' = index
    BY <1>6 DEF Resync
  <2>2. ~Follows
    <3> HIDE DEF r
    <3> QED
      BY <1>4, <1>6
  <2> HIDE DEF r
  <2>3. /\ scan'.pc = "resync" /\ scan' # Idle
        /\ scan'.by = scan.by /\ scan'.i = scan.i /\ scan'.offset = scan.offset /\ scan'.from = scan.from
    BY <1>1, <1>2, <2>1 DEF Scanning, Idle
  <2>4. Aligned'
    BY <2>3 DEF Aligned
  <2> QED
    BY <1>1, <2>1, <2>2, <2>3, <2>4, StepKeepsLayout DEF Scans
<1>7. CASE r.res = "eof"
  <2>1. scan' = [scan EXCEPT !.pc = "mark", !.at = r.at] /\ index' = index
    BY <1>7 DEF Resync
  <2> HIDE DEF r
  <2>2. /\ scan'.pc = "mark" /\ scan' # Idle
        /\ scan'.by = scan.by /\ scan'.i = scan.i /\ scan'.offset = scan.offset /\ scan'.from = scan.from
    BY <1>1, <1>2, <2>1 DEF Scanning, Idle
  <2>3. ASSUME Follows, NEW m, m = Due PROVE OnTrack(place, m)'
    <3>1. Knows(place, m)
      BY <1>4, <2>3 DEF n
    <3>2. ReadNext(headers, UnitsOf(1), TotalBlocks(scan.at) * BlockUnits, 0).res # "header"
      BY <1>7 DEF r
    <3> QED
      BY <3>1, <3>2, SearchOnTrack DEF Scans
  <2>4. Aligned'
    BY <2>2 DEF Aligned
  <2> QED
    BY <1>1, <2>1, <2>2, <2>3, <2>4, StepKeepsLayout DEF Scans
<1>8. r.res \in {"header", "error", "eof"}
  <2> DEFINE units == UnitsOf(1)
  <2>1. units \in Seq(Units(Len(headers))) /\ headers \in Seq(HeaderShape)
    BY <1>2, UnitsOfType DEF DriveOK
  <2>2. 0 \in Nat /\ ~(0 > 0)
    OBVIOUS
  <2> HIDE DEF units, from
  <2>3. ReadNext(headers, units, from, 0) \in Readings(Len(headers))
    BY <1>3, <2>1, <2>2, ReadNextAdvances
  <2>4. ReadNext(headers, units, from, 0).res \in {"header", "error", "eof"}
    BY <2>3 DEF Readings
  <2> QED
    BY <2>4 DEF units
<1> QED
  BY <1>5, <1>6, <1>7, <1>8

LEMMA SkipOnTrack ==
  ASSUME BlocksInv, NEW place, LaidOut(place), SkipMark, NEW n, Knows(place, n)
  PROVE  OnTrack(place, n)'
<1>1. scan.pc = "mark" /\ UNCHANGED drive /\ scan # Idle
  BY DEF SkipMark, Idle
<1>2. scan \in Scanning /\ intact \in Nat /\ intact' = intact /\ scan.at \in Nat
  BY <1>1, Position DEF LaidOut, BlocksInv, DriveOK, drive
<1>3. n = intact + 1 /\ n > intact /\ scan.at = Len(UnitsOf(1))
  <2>1. OnTrack(place, n)
    BY DEF Knows
  <2>2. n \in 1 .. intact + 1 /\ ~(n <= intact)
    BY <1>1, <2>1 DEF OnTrack
  <2>3. n = intact + 1 /\ n > intact
    BY <1>2, <2>2
  <2> QED
    BY <1>1, <2>1, <2>3 DEF OnTrack
<1>4. scan' = [scan EXCEPT !.pc = "done"]
  <2>1. scan.at >= Len(UnitsOf(1))
    BY <1>2, <1>3
  <2> QED
    BY <2>1 DEF SkipMark
<1>5. scan'.pc = "done"
  BY <1>2, <1>4 DEF Scanning
<1>6. n \in 1 .. intact + 1 /\ ~(n <= intact)
  BY <1>2, <1>3
<1> QED
  BY <1>2, <1>5, <1>6 DEF OnTrack

LEMMA SkipMarkKeepsLayout ==
  ASSUME NEW place, Scans(place), SkipMark
  PROVE  LayoutInv'
<1>1. /\ scan.pc = "mark" /\ UNCHANGED drive /\ index' = index /\ trusted' = trusted /\ scan # Idle
  BY DEF SkipMark, Idle
<1>2. scan \in Scanning
  BY <1>1 DEF Scans, BlocksInv
<1>3. Follows => Knows(place, Due)
  BY <1>1, BehindTheLast DEF Scans
<1> DEFINE skipped == Min({scan.at + 2 * BlockUnits, Len(UnitsOf(1))})
<1>4. scan' = [scan EXCEPT !.pc = "done"] \/ scan' = [scan EXCEPT !.pc = "resync", !.at = skipped]
  BY DEF SkipMark
<1> HIDE DEF skipped
<1>5. /\ scan'.pc \in {"done", "resync"} /\ scan' # Idle
      /\ scan'.by = scan.by /\ scan'.i = scan.i /\ scan'.offset = scan.offset /\ scan'.from = scan.from
  BY <1>2, <1>4 DEF Scanning, Idle
<1>6. ASSUME Follows, NEW n, n = Due PROVE OnTrack(place, n)'
  <2>1. Knows(place, n)
    BY <1>3, <1>6
  <2> QED
    BY <2>1, SkipOnTrack DEF Scans
<1>7. Aligned'
  BY <1>5 DEF Aligned
<1> QED
  BY <1>1, <1>5, <1>6, <1>7, StepKeepsLayout DEF Scans

(* Index returns: the index is complete.                                   *)
LEMMA EndIsComplete ==
  ASSUME NEW place, Scans(place), scan # Idle, scan.pc \in {"done", "failed"}, scan.by # "query"
  PROVE  Complete /\ (~torn => scan.pc = "done")
<1>1. /\ intact \in Nat /\ Len(index) \in Nat /\ scan.i \in Nat /\ scan.offset \in Nat
      /\ scan.by \in {"operation", "recovery", "query"} /\ Counts
  BY DEF Scans, LaidOut, BlocksInv, DriveOK, Scanning, Tracked
<1>2. ASSUME Follows PROVE scan.pc = "done" /\ Due = intact + 1
  <2>1. OnTrack(place, Due)
    BY <1>2, BehindTheLast DEF Scans
  <2>2. Due \in 1 .. intact + 1 /\ ~(Due <= intact)
    BY <2>1 DEF OnTrack
  <2>3. Due = intact + 1 /\ Due > intact
    BY <1>1, <2>2
  <2> QED
    BY <2>1, <2>3 DEF OnTrack
<1>3. CASE ~torn
  <2>1. Follows
    BY <1>3 DEF Follows
  <2>2. scan.pc = "done" /\ Due = intact + 1
    BY <1>2, <2>1
  <2>3. scan.i >= scan.offset
    <3> SUFFICES ASSUME scan.i < scan.offset PROVE FALSE
      BY <1>1
    <3>1. scan.by = "operation"
      BY <1>1 DEF Counts
    <3>2. scan.from = Len(index) /\ Len(index) <= intact
      BY <1>1, <1>3, <3>1 DEF Counts
    <3>3. Due = scan.from
      BY DEF Due
    <3> QED
      BY <1>1, <2>2, <3>2, <3>3
  <2>4. Len(index) = intact
    BY <1>1, <2>2, <2>3 DEF Due
  <2> QED
    BY <1>1, <2>2, <2>4 DEF Complete
<1>4. CASE torn
  <2>1. CASE scan.by = "operation"
    BY <1>1, <1>4, <2>1 DEF Counts, Complete
  <2>2. CASE scan.by = "recovery"
    <3>1. ASSUME Len(index) < intact PROVE FALSE
      <4>1. Follows
        BY <2>2, <3>1 DEF Follows
      <4>2. Due = intact + 1
        BY <1>2, <4>1
      <4>3. Due = Len(index) + 1
        BY <1>1, <2>2 DEF Counts, Due
      <4> QED
        BY <1>1, <3>1, <4>2, <4>3
    <3> QED
      BY <1>1, <1>4, <3>1 DEF Complete
  <2> QED
    BY <1>1, <2>1, <2>2
<1> QED
  BY <1>3, <1>4

LEMMA ScanEndKeepsLayout ==
  ASSUME NEW place, Scans(place), ScanEnd
  PROVE  LayoutInv'
<1>1. /\ scan.pc \in {"done", "failed"} /\ scan # Idle /\ scan' = Idle /\ UNCHANGED drive /\ index' = index
      /\ trusted' = IF scan.by = "query" THEN trusted ELSE scan.pc = "done"
  BY DEF ScanEnd, Idle
<1>2. /\ headers' = headers /\ intact' = intact /\ torn' = torn
      /\ LaidOut(place)' /\ \A r : PlaceOf(r)' = PlaceOf(r)
      /\ \A record, block : Fetch(record, block)' = Fetch(record, block)
  BY <1>1, DriveSame DEF Scans
<1>3. Fetchable'
  BY <1>1, <1>2 DEF Scans, Fetchable
<1>4. IndexPlaced(place)'
  BY <1>1, <1>2 DEF Scans, IndexPlaced
<1>5. Tracked(place)' /\ Aligned'
  BY <1>1 DEF Tracked, Aligned
<1>6. Trusted'
  <2>1. trusted' => Complete
    <3>1. CASE scan.by = "query"
      BY <1>1, <3>1 DEF Scans, Trusted
    <3>2. CASE scan.by # "query"
      BY <1>1, <3>2, EndIsComplete
    <3> QED
      BY <3>1, <3>2
  <2> QED
    BY <1>1, <1>2, <2>1 DEF Trusted, Complete
<1> QED
  BY <1>2, <1>3, <1>4, <1>5, <1>6 DEF LayoutInv

LEMMA NextLayoutInv ==
  ASSUME BlocksInv, LayoutInv, [Next]_blocksVars
  PROVE  LayoutInv'
<1>0. PICK place : Scans(place)
  BY DEF Scans, LayoutInv
<1>1. CASE UNCHANGED blocksVars
  <2>1. UNCHANGED drive /\ index' = index /\ scan' = scan /\ trusted' = trusted
    BY <1>1 DEF blocksVars, drive
  <2>2. /\ headers' = headers /\ intact' = intact /\ torn' = torn /\ isRegular' = isRegular
        /\ LaidOut(place)' /\ \A r : PlaceOf(r)' = PlaceOf(r)
        /\ \A record, block : Fetch(record, block)' = Fetch(record, block)
    BY <1>0, <2>1, DriveSame DEF Scans
  <2>3. Fetchable' /\ IndexPlaced(place)' /\ Trusted' /\ Aligned'
    <3>1. Fetchable'
      BY <1>0, <2>1, <2>2 DEF Scans, Fetchable
    <3>2. IndexPlaced(place)'
      BY <1>0, <2>1, <2>2 DEF Scans, IndexPlaced
    <3>3. Trusted' /\ Aligned'
      BY <1>0, <2>1, <2>2 DEF Scans, Trusted, Complete, Aligned
    <3> QED
      BY <3>1, <3>2, <3>3
  <2>4. Tracked(place)'
    <3>1. EndOfData' = EndOfData /\ UnitsOf(1)' = UnitsOf(1)
      BY <2>1 DEF EndOfData, UnitsOf, drive
    <3>2. Due' = Due /\ Here' = Here /\ (Counts' <=> Counts) /\ (Follows' <=> Follows)
      BY <2>1, <2>2 DEF Due, Here, Counts, Follows
    <3>3. OnTrack(place, Due) => OnTrack(place, Due)'
      BY <2>1, <2>2, <3>1, <3>2 DEF OnTrack
    <3> QED
      BY <1>0, <2>1, <3>2, <3>3 DEF Scans, Tracked
  <2> QED
    BY <2>2, <2>3, <2>4 DEF LayoutInv
<1>2. ASSUME NEW batch \in Batches, Operation(batch) \/ Overwrite(batch) \/ Tear(batch)
      PROVE  LayoutInv'
  BY <1>2, OperationKeepsLayout, OverwriteKeepsLayout, TearKeepsLayout
<1>3. CASE RecoveryIndex
  BY <1>3, RecoveryIndexKeepsLayout
<1>4. ASSUME NEW row \in ToSet(index), Query(row)
      PROVE  LayoutInv'
  BY <1>4, QueryKeepsLayout
<1>5. CASE ScanStep
  BY <1>0, <1>5, NextHeaderKeepsLayout, ResyncKeepsLayout, SkipMarkKeepsLayout, NextOnTapeKeepsLayout,
     ScanEndKeepsLayout DEF ScanStep
<1> QED
  BY <1>1, <1>2, <1>3, <1>4, <1>5 DEF Next

LEMMA AlwaysLayoutInv ==
  ASSUME PlainPadding
  PROVE  Spec => [](BlocksInv /\ LayoutInv)
<1>1. Init => BlocksInv /\ LayoutInv
  BY InitBlocksInv, InitLayoutInv
<1>2. BlocksInv /\ LayoutInv /\ [Next]_blocksVars => (BlocksInv /\ LayoutInv)'
  BY NextBlocksInv, NextLayoutInv
<1> QED
  BY <1>1, <1>2, PTL DEF Spec

(* Wherever headers, contents and trailers happen to end among blocks and  *)
(* records, and wherever a process died, what the index has for a header   *)
(* before the first torn archive is the record and block recovery.Fetch    *)
(* reads that header from.                                                 *)
THEOREM AlwaysFetchable ==
  ASSUME PlainPadding
  PROVE  Spec => []Fetchable
<1>1. BlocksInv /\ LayoutInv => Fetchable
  BY DEF LayoutInv
<1> QED
  BY <1>1, AlwaysLayoutInv, PTL

(* When recovery.Index returns, after an operation or of everything, every *)
(* header before the first torn archive is in the index, once and in the   *)
(* order of the drive; where nothing is torn it has not failed and there   *)
(* is nothing else.                                                        *)
THEOREM AlwaysIndexComplete ==
  ASSUME PlainPadding
  PROVE  Spec => []IndexComplete
<1>1. ASSUME BlocksInv, LayoutInv, scan.pc \in {"done", "failed"}, scan.by # "query"
      PROVE  /\ Len(index) >= intact
             /\ \A i \in 1 .. intact : index[i].id = i
             /\ ~torn => scan.pc = "done" /\ Len(index) = intact
  <2>1. PICK place : Scans(place)
    BY <1>1 DEF Scans, LayoutInv
  <2>2. scan # Idle
    BY <1>1 DEF Idle
  <2>3. Complete /\ (~torn => scan.pc = "done")
    BY <1>1, <2>1, <2>2, EndIsComplete
  <2>4. intact \in Nat /\ Len(index) \in Nat /\ DOMAIN index = 1 .. Len(index)
    BY <2>1 DEF Scans, LaidOut, BlocksInv, DriveOK
  <2>5. \A i \in 1 .. intact : index[i].id = i
    <3> TAKE i \in 1 .. intact
    <3>1. i \in DOMAIN index /\ i <= intact
      <4>1. Len(index) >= intact
        BY <2>3 DEF Complete
      <4> QED
        BY <2>4, <4>1
    <3> QED
      BY <2>1, <3>1 DEF Scans, IndexPlaced
  <2> QED
    BY <2>3, <2>5 DEF Complete
<1>2. BlocksInv /\ LayoutInv => IndexComplete
  BY <1>1 DEF IndexComplete
<1> QED
  BY <1>2, AlwaysLayoutInv, PTL

-----------------------------------------------------------------------------
(* Queries.                                                                *)

Querying == scan # Idle /\ scan.by = "query"

(* A query that has listed what is indexed from start on is on its way to  *)
(* the header that follows.  On a regular file it knows where it is.       *)
Listing(place, start) ==
  /\ LaidOut(place) /\ IndexPlaced(place) /\ Len(index) = intact
  /\ start \in 1 .. intact /\ listed \in Seq(Row)
  /\ OnTrack(place, start + Len(listed))
  /\ \A k \in DOMAIN listed :
       /\ listed[k].id = start + (k - 1)
       /\ isRegular => PlaceOf(listed[k]) = place[start + (k - 1)]
  /\ isRegular /\ scan.pc = "next" => Location(scan) = TotalBlocks(scan.at)

QueryInv ==
  /\ ~Querying => listed = <<>>
  /\ Querying /\ ~torn => \E place, start : Listing(place, start)

LEMMA RegularPlace ==
  ASSUME isRegular, NEW r, r.record \in Nat
  PROVE  PlaceOf(r) = At(1, Location(r) * BlockUnits)
<1>1. r.record - 0 = r.record
  OBVIOUS
<1> QED
  BY <1>1 DEF PlaceOf, FileWith, OffsetIn, Location

(* On a regular file, a place is that of one record and block.             *)
LEMMA PlacesDiffer ==
  ASSUME isRegular, NEW r \in Row, NEW s \in Row, PlaceOf(r) = PlaceOf(s)
  PROVE  r.record = s.record /\ r.block = s.block
<1>1. /\ r.record \in Nat /\ r.block \in 0 .. RecordSize - 1
      /\ s.record \in Nat /\ s.block \in 0 .. RecordSize - 1
  BY DEF Row
<1>2. Location(r) = Location(s)
  <2>1. Location(r) * BlockUnits = Location(s) * BlockUnits
    BY <1>1, RegularPlace DEF At
  <2>2. /\ TotalBlocks(Location(r) * BlockUnits) = Location(r)
        /\ TotalBlocks(Location(s) * BlockUnits) = Location(s)
    BY <1>1, LocationOfBlock
  <2> QED
    BY <2>1, <2>2
<1>3. RecordSize \in Nat \ {0} /\ r.record * RecordSize \in Nat /\ s.record * RecordSize \in Nat
  BY <1>1, UnitSizes, ProductNat
<1>4. r.record * RecordSize + r.block = s.record * RecordSize + s.block
  BY <1>2 DEF Location
<1>5. /\ (r.record + 1) * RecordSize = r.record * RecordSize + RecordSize
      /\ (s.record + 1) * RecordSize = s.record * RecordSize + RecordSize
  BY <1>1, <1>3, ProductDistributes
<1>6. /\ r.record * RecordSize < (s.record + 1) * RecordSize
      /\ s.record * RecordSize < (r.record + 1) * RecordSize
  BY <1>1, <1>3, <1>4, <1>5
<1>7. r.record < s.record + 1 /\ s.record < r.record + 1
  BY <1>1, <1>3, <1>6, ProductMonotone
<1>8. r.record = s.record
  BY <1>1, <1>7
<1> DEFINE p == r.record * RecordSize
           q == s.record * RecordSize
<1>9. p = q /\ p \in Nat /\ p + r.block = q + s.block /\ r.block \in Nat /\ s.block \in Nat
  BY <1>1, <1>3, <1>4, <1>8
<1> HIDE DEF p, q
<1>10. r.block = s.block
  BY <1>9
<1> QED
  BY <1>8, <1>10

LEMMA QueryBegins ==
  ASSUME BlocksInv, LayoutInv, QueryInv, NEW row \in ToSet(index), Query(row)
  PROVE  QueryInv'
<1>1. /\ scan = Idle /\ index' = index /\ listed' = listed /\ trusted
      /\ scan' = Scan("query", 0, 0, row.record, row.block) /\ UNCHANGED drive
  BY DEF Query
<1>2. PICK place : LaidOut(place) /\ IndexPlaced(place)
  BY DEF LayoutInv
<1>3. /\ headers' = headers /\ intact' = intact /\ torn' = torn /\ isRegular' = isRegular
      /\ LaidOut(place)' /\ \A r : PlaceOf(r)' = PlaceOf(r)
  BY <1>1, <1>2, DriveSame
<1>4. listed = <<>>
  BY <1>1 DEF QueryInv, Querying
<1>5. PICK k \in DOMAIN index : row = index[k]
  BY DEF ToSet
<1>6. /\ DriveOK /\ row \in Row /\ row.record \in Nat /\ row.block \in 0 .. RecordSize - 1
      /\ intact \in Nat /\ DOMAIN index = 1 .. Len(index)
  <2>1. row \in Row
    BY <1>5 DEF BlocksInv
  <2> QED
    BY <1>2, <2>1 DEF Row, BlocksInv, LaidOut, DriveOK
<1>7. /\ scan'.pc = "next" /\ scan'.by = "query" /\ scan'.pad = 0 /\ scan' # Idle
      /\ scan'.file = FileWith(row.record) /\ scan'.at = OffsetIn(FileWith(row.record), row.record, row.block)
  BY <1>1, ScanFields
<1>8. ASSUME ~torn PROVE Listing(place, k)'
  <2>1. Len(index) = intact
    BY <1>1, <1>8 DEF LayoutInv, Trusted, Complete
  <2>2. k \in 1 .. intact /\ row.id = k /\ PlaceOf(row) = place[k]
    BY <1>2, <1>5, <1>6, <2>1 DEF IndexPlaced
  <2>3. IndexPlaced(place)'
    BY <1>1, <1>2, <1>3 DEF IndexPlaced
  <2>4. listed' \in Seq(Row) /\ Len(listed') = 0 /\ DOMAIN listed' = {} /\ k + 0 = k
    BY <1>1, <1>4, <2>2
  <2>5. Here' = place[k]
    <3> DEFINE at == OffsetIn(FileWith(row.record), row.record, row.block)
    <3>1. at \in Nat
      BY <1>6, OffsetWhole, WholeSum
    <3>2. scan'.at = at /\ PlaceOf(row) = At(scan'.file, at)
      BY <1>7 DEF PlaceOf
    <3> HIDE DEF at
    <3>3. scan'.at + scan'.pad = at
      BY <1>7, <3>1, <3>2
    <3> QED
      BY <2>2, <3>2, <3>3 DEF Here
  <2>6. OnTrack(place, k)'
    <3>1. k \in 1 .. intact + 1 /\ ~(k > intact)
      BY <1>6, <2>2
    <3> QED
      BY <1>3, <1>7, <2>5, <3>1 DEF OnTrack
  <2>7. OnTrack(place, k + Len(listed))'
    BY <2>4, <2>6 DEF OnTrack
  <2>8. ASSUME isRegular PROVE Location(scan') = TotalBlocks(scan'.at)
    <3>1. scan'.record = row.record /\ scan'.block = row.block
      BY <1>1 DEF Scan
    <3>2. Location(scan') = Location(row)
      BY <3>1 DEF Location
    <3>3. scan'.at = Location(row) * BlockUnits
      <4>1. PlaceOf(row) = At(scan'.file, scan'.at)
        BY <1>7 DEF PlaceOf
      <4>2. PlaceOf(row) = At(1, Location(row) * BlockUnits)
        BY <1>6, <2>8, RegularPlace
      <4> QED
        BY <4>1, <4>2 DEF At
    <3> QED
      BY <1>6, <3>2, <3>3, LocationOfBlock
  <2>9. Location(scan)' = Location(scan') /\ TotalBlocks(scan.at)' = TotalBlocks(scan'.at)
    BY DEF Location, TotalBlocks
  <2> QED
    BY <1>1, <1>3, <2>1, <2>2, <2>3, <2>4, <2>7, <2>8, <2>9 DEF Listing, Row
<1> QED
  BY <1>3, <1>7, <1>8 DEF QueryInv, Querying

(* A header is listed.                                                     *)
LEMMA QueryTakes ==
  ASSUME BlocksInv, Querying, ~torn, UNCHANGED drive, NEW place, NEW start, Listing(place, start),
         NEW n, n = start + Len(listed), n \in 1 .. intact,
         NEW from \in Nat, place[n] = At(scan.file, from),
         NEW r, r = ReadNext(headers, UnitsOf(scan.file), from, 0),
         NEW record \in Nat, NEW block \in 0 .. RecordSize - 1,
         isRegular => scan.file = 1 /\ (record * RecordSize + block) * BlockUnits = from,
         Take(r, record, block)
  PROVE  QueryInv'
<1> DEFINE row == RowAt(r.id, record, block)
           at == r.at + r.size
           total == TotalBlocks(IF isRegular THEN at ELSE Counted(at))
           pad == PaddingOf(r.size)
           counter == Counted(at)
           last == RecordOf(total)
           rest == BlockOf(total)
<1>1. /\ DriveOK /\ scan \in Scanning /\ scan.by = "query" /\ listed \in Seq(Row)
      /\ intact \in Nat /\ LaidOut(place) /\ IndexPlaced(place) /\ start \in 1 .. intact
      /\ Len(listed) \in Nat /\ DOMAIN listed = 1 .. Len(listed)
  BY DEF BlocksInv, Querying, Listing, LaidOut, DriveOK
<1>2. /\ r.id = n /\ ~(at > Len(UnitsOf(scan.file)))
      /\ scan'.pc = "next" /\ scan'.file = scan.file /\ scan'.at = at /\ scan'.pad = PaddingOf(r.size)
           => OnTrack(place, n + 1)'
  BY <1>1, TrackIsTaken
<1>3. r.at \in Nat /\ r.size \in Nat
  <2>1. /\ headers[n] \in HeaderShape
        /\ r = [res |-> "header", at |-> from + HeadUnits(headers[n]), id |-> n, size |-> headers[n].size]
    BY <1>1, Expected
  <2>2. headers[n].size \in Nat /\ HeadUnits(headers[n]) \in Nat
    BY <2>1, HeadIs
  <2> QED
    BY <2>1, <2>2
<1>4. /\ index' = index /\ listed' = listed \o <<row>>
      /\ scan' = [scan EXCEPT !.pc = "next", !.i = scan.i + 1, !.at = at, !.pad = pad,
                              !.counter = counter, !.record = last, !.block = rest]
  BY <1>1, <1>2 DEF Take, Found, FoundId
<1> HIDE DEF pad, counter, last, rest
<1>5. /\ scan'.pc = "next" /\ scan'.by = "query" /\ scan' # Idle /\ scan'.file = scan.file
      /\ scan'.at = at /\ scan'.pad = pad /\ scan'.record = last /\ scan'.block = rest
  <2> HIDE DEF at
  <2> QED
    BY <1>1, <1>4 DEF Scanning, Idle
<1>6. OnTrack(place, n + 1)'
  BY <1>2, <1>5 DEF pad
<1>7. /\ headers' = headers /\ intact' = intact /\ torn' = torn /\ isRegular' = isRegular
      /\ LaidOut(place)' /\ \A s : PlaceOf(s)' = PlaceOf(s)
  BY <1>1, DriveSame
<1>8. IndexPlaced(place)' /\ Len(index') = intact'
  BY <1>1, <1>4, <1>7 DEF IndexPlaced, Listing
<1>9. row \in Row /\ row.id = n /\ row.record = record /\ row.block = block
  BY <1>2 DEF RowAt, Row
<1> HIDE DEF row
<1>10. /\ listed' \in Seq(Row) /\ Len(listed') = Len(listed) + 1 /\ DOMAIN listed' = 1 .. Len(listed) + 1
       /\ \A k \in 1 .. Len(listed) : listed'[k] = listed[k]
       /\ listed'[Len(listed) + 1] = row
  BY <1>1, <1>4, <1>9
<1>11. OnTrack(place, start + Len(listed))'
  <2>1. start + Len(listed') = n + 1
    BY <1>1, <1>10
  <2> QED
    BY <1>6, <2>1 DEF OnTrack
<1>12. ASSUME NEW k \in DOMAIN listed'
       PROVE  /\ listed'[k].id = start + (k - 1)
              /\ isRegular => PlaceOf(listed'[k]) = place[start + (k - 1)]
  <2>1. CASE k = Len(listed) + 1
    <3>1. start + (k - 1) = n /\ listed'[k] = row
      BY <1>1, <1>10, <2>1
    <3>2. ASSUME isRegular PROVE PlaceOf(row) = place[n]
      <4>1. PlaceOf(row) = At(1, Location(row) * BlockUnits)
        BY <1>9, <3>2, RegularPlace
      <4>2. Location(row) * BlockUnits = from
        BY <1>9, <3>2 DEF Location
      <4> QED
        BY <3>2, <4>1, <4>2
    <3> QED
      BY <1>9, <3>1, <3>2
  <2>2. CASE k # Len(listed) + 1
    <3>1. k \in DOMAIN listed /\ listed'[k] = listed[k]
      BY <1>1, <1>10, <2>2
    <3> QED
      BY <3>1 DEF Listing
  <2> QED
    BY <2>1, <2>2
<1>13. \A k \in DOMAIN listed' : PlaceOf(listed[k])' = PlaceOf(listed'[k])
  BY <1>7 DEF PlaceOf
<1>14. isRegular => Location(scan)' = TotalBlocks(scan.at)'
  <2> SUFFICES ASSUME isRegular PROVE Location(scan') = TotalBlocks(scan'.at)
    BY DEF Location, TotalBlocks
  <2>1. total = TotalBlocks(at)
    OBVIOUS
  <2>2. total \in Nat
    <3>1. at \in Nat
      BY <1>3
    <3> HIDE DEF at
    <3> QED
      BY <2>1, <3>1, TotalBlocksBounds
  <2>3. last * RecordSize + rest = total
    <3> HIDE DEF total
    <3> QED
      BY <2>2, PlaceOfTotal DEF last, rest
  <2>4. Location(scan') = last * RecordSize + rest
    BY <1>5 DEF Location
  <2> HIDE DEF total, at
  <2> QED
    BY <1>5, <2>1, <2>3, <2>4 DEF at
<1>15. Listing(place, start)'
  BY <1>1, <1>7, <1>8, <1>10, <1>11, <1>12, <1>13, <1>14 DEF Listing, Row
<1> QED
  BY <1>5, <1>15 DEF QueryInv, Querying

(* A step that lists nothing.                                              *)
LEMMA QueryGoesOn ==
  ASSUME QueryInv, UNCHANGED drive, index' = index, listed' = listed, Querying, Querying',
         ~torn => \A place, start : Listing(place, start) =>
           /\ \A n : n = start + Len(listed) => OnTrack(place, n)'
           /\ isRegular => scan'.pc # "next"
  PROVE  QueryInv'
<1> SUFFICES ASSUME ~torn PROVE \E place, start : Listing(place, start)'
  BY DriveSame DEF QueryInv
<1>1. PICK place, start : Listing(place, start)
  BY DEF QueryInv
<1>2. /\ headers' = headers /\ intact' = intact /\ isRegular' = isRegular
      /\ LaidOut(place)' /\ \A s : PlaceOf(s)' = PlaceOf(s)
  BY <1>1, DriveSame DEF Listing
<1>3. IndexPlaced(place)'
  BY <1>1, <1>2 DEF Listing, IndexPlaced
<1>4. OnTrack(place, start + Len(listed))'
  <2>1. PICK n : n = start + Len(listed)
    OBVIOUS
  <2>2. OnTrack(place, n)' /\ start + Len(listed') = n
    BY <1>1, <2>1
  <2> QED
    BY <2>2 DEF OnTrack
<1>5. Listing(place, start)'
  BY <1>1, <1>2, <1>3, <1>4 DEF Listing, Row
<1> QED
  BY <1>5

(* A scan stays what it is; only a query lists.                            *)
LEMMA ScanGoesOn ==
  ASSUME BlocksInv, scan # Idle, NextHeader \/ Resync \/ SkipMark \/ NextOnTape
  PROVE  scan' # Idle /\ scan'.by = scan.by /\ UNCHANGED drive /\ (scan.by # "query" => listed' = listed)
<1>1. scan \in Scanning /\ index \in Seq(Row)
  BY DEF BlocksInv
<1>2. ASSUME NEW r, NEW record, NEW block, Take(r, record, block)
      PROVE  scan' # Idle /\ scan'.by = scan.by /\ (scan.by # "query" => listed' = listed)
  <2>1. scan' # Idle /\ scan'.by = scan.by
    BY <1>1, <1>2, TakeIs DEF Taken
  <2>2. scan.by # "query" => listed' = listed
    BY <1>2 DEF Take, Found
  <2> QED
    BY <2>1, <2>2
<1>3. ASSUME NEW pc, NEW at, NEW pad, listed' = listed,
             \/ scan' = [scan EXCEPT !.pc = pc]
             \/ scan' = [scan EXCEPT !.at = at]
             \/ scan' = [scan EXCEPT !.pc = pc, !.at = at]
             \/ scan' = [scan EXCEPT !.pc = pc, !.at = at, !.pad = pad]
      PROVE  scan' # Idle /\ scan'.by = scan.by /\ listed' = listed
  <2>1. ASSUME scan' = [scan EXCEPT !.pc = pc] PROVE scan' # Idle /\ scan'.by = scan.by
    BY <1>1, <2>1 DEF Scanning, Idle
  <2>2. ASSUME scan' = [scan EXCEPT !.at = at] PROVE scan' # Idle /\ scan'.by = scan.by
    BY <1>1, <2>2 DEF Scanning, Idle
  <2>3. ASSUME scan' = [scan EXCEPT !.pc = pc, !.at = at] PROVE scan' # Idle /\ scan'.by = scan.by
    BY <1>1, <2>3 DEF Scanning, Idle
  <2>4. ASSUME scan' = [scan EXCEPT !.pc = pc, !.at = at, !.pad = pad] PROVE scan' # Idle /\ scan'.by = scan.by
    BY <1>1, <2>4 DEF Scanning, Idle
  <2> QED
    BY <1>3, <2>1, <2>2, <2>3, <2>4
<1>4. CASE NextHeader
  <2>1. CASE ReadOn.res = "header"
    BY <1>2, <1>4, <2>1 DEF NextHeader
  <2>2. CASE ReadOn.res # "header"
    <3>1. listed' = listed /\ scan' = [scan EXCEPT !.pc = "resync", !.at = ReadOn.at, !.pad = 0]
      BY <1>4, <2>2 DEF NextHeader
    <3> QED
      BY <1>3, <1>4, <3>1 DEF NextHeader
  <2> QED
    BY <2>1, <2>2
<1>5. CASE Resync
  <2> DEFINE total == TotalBlocks(scan.at)
             r == ReadNext(headers, UnitsOf(1), total * BlockUnits, 0)
  <2>1. r.res \in {"header", "error", "eof"}
    <3>1. /\ DriveOK /\ headers \in Seq(HeaderShape) /\ total * BlockUnits \in Nat
      BY Position, TotalBlocksBounds, UnitSizes, ProductNat DEF BlocksInv, DriveOK
    <3>2. UnitsOf(1) \in Seq(Units(Len(headers))) /\ 0 \in Nat /\ ~(0 > 0)
      BY <3>1, UnitsOfType
    <3> DEFINE units == UnitsOf(1)
               from == total * BlockUnits
    <3> HIDE DEF units, from, total
    <3>3. ReadNext(headers, units, from, 0) \in Readings(Len(headers))
      BY <3>1, <3>2, ReadNextAdvances DEF units, from
    <3>4. r \in Readings(Len(headers))
      BY <3>3 DEF units, from
    <3> HIDE DEF r
    <3> QED
      BY <3>4 DEF Readings
  <2>2. CASE r.res = "header"
    <3>1. Take(r, RecordOf(total), BlockOf(total))
      BY <1>5, <2>2 DEF Resync
    <3> HIDE DEF r, total
    <3> QED
      BY <1>2, <1>5, <3>1 DEF Resync
  <2>3. CASE r.res # "header"
    <3>1. listed' = listed /\ (scan' = [scan EXCEPT !.at = r.at] \/ scan' = [scan EXCEPT !.pc = "mark", !.at = r.at])
      <4>1. CASE r.res = "error"
        BY <1>5, <4>1 DEF Resync
      <4>2. CASE r.res = "eof"
        BY <1>5, <4>2 DEF Resync
      <4> QED
        BY <2>1, <2>3, <4>1, <4>2
    <3> HIDE DEF r
    <3> QED
      BY <1>3, <1>5, <3>1 DEF Resync
  <2> QED
    BY <2>2, <2>3
<1>6. CASE SkipMark
  <2> DEFINE skipped == Min({scan.at + 2 * BlockUnits, Len(UnitsOf(1))})
  <2>1. listed' = listed /\ (scan' = [scan EXCEPT !.pc = "done"] \/ scan' = [scan EXCEPT !.pc = "resync", !.at = skipped])
    BY <1>6 DEF SkipMark
  <2> HIDE DEF skipped
  <2> QED
    BY <1>3, <1>6, <2>1 DEF SkipMark
<1>7. CASE NextOnTape
  <2>1. CASE ReadOn.res = "header"
    BY <1>2, <1>7, <2>1 DEF NextOnTape
  <2>2. CASE ReadOn.res # "header"
    <3> DEFINE record == FirstRecord(scan.file + 1)
               next == [scan EXCEPT !.file = scan.file + 1, !.at = 0, !.pad = 0, !.record = record, !.block = 0]
    <3>1. /\ listed' = listed
          /\ \/ \E pc \in {"done", "failed"} : scan' = [scan EXCEPT !.pc = pc]
             \/ scan' = [next EXCEPT !.counts = FALSE]
             \/ scan' = [next EXCEPT !.counter = record * RecordUnits]
      BY <1>7, <2>2 DEF NextOnTape, FileMark
    <3> HIDE DEF record
    <3>2. CASE \E pc \in {"done", "failed"} : scan' = [scan EXCEPT !.pc = pc]
      BY <1>3, <1>7, <3>1, <3>2 DEF NextOnTape
    <3>3. CASE scan' = [next EXCEPT !.counts = FALSE]
      BY <1>1, <1>7, <3>1, <3>3 DEF Scanning, Idle, NextOnTape
    <3>4. CASE scan' = [next EXCEPT !.counter = record * RecordUnits]
      BY <1>1, <1>7, <3>1, <3>4 DEF Scanning, Idle, NextOnTape
    <3> QED
      BY <3>1, <3>2, <3>3, <3>4
  <2> QED
    BY <2>1, <2>2
<1> QED
  BY <1>4, <1>5, <1>6, <1>7

(* The reader is where it was left, or behind the padding.                 *)
LEMMA HeaderListed ==
  ASSUME BlocksInv, Aligned, QueryInv, Querying, ~torn, scan.pc = "next", UNCHANGED drive,
         ReadOn.res = "header", Take(ReadOn, scan.record, scan.block)
  PROVE  QueryInv'
<1>1. PICK place, start : Listing(place, start)
  BY DEF QueryInv
<1>2. PICK n : n = start + Len(listed)
  OBVIOUS
<1>3. LaidOut(place) /\ scan # Idle /\ Knows(place, n)
  BY <1>1, <1>2 DEF Listing, Querying, Knows
<1>4. n \in 1 .. intact /\ place[n] = Here
  BY <1>3, TrackIsRead DEF HeaderHere, HeaderBehindTrailer, HeaderInNextFile, EndOfFile, EndOfTape
<1> DEFINE from == scan.at + scan.pad
           record == scan.record
           block == scan.block
           r == ReadOn
<1>5. /\ scan \in Scanning /\ (isRegular => scan.file = 1) /\ record \in Nat /\ block \in 0 .. RecordSize - 1
      /\ scan.at \in Nat /\ scan.pad \in Nat /\ scan.pad < BlockUnits /\ Whole(from) /\ from \in Nat
  <2>1. scan \in Scanning
    BY <1>3, Position
  <2> QED
    BY <1>3, <2>1 DEF BlocksInv, ScanOnDrive, Scanning, Aligned
<1>6. r = ReadNext(headers, UnitsOf(scan.file), from, 0)
  <2>1. PICK p : p = Here
    OBVIOUS
  <2>2. p.file = scan.file /\ p.at = from
    BY <1>3, <2>1, ReadOnAt
  <2> QED
    BY <1>3, <2>1, <2>2, ReadOnAt
<1>7. ASSUME isRegular PROVE (record * RecordSize + block) * BlockUnits = from
  <2>1. record * RecordSize + block = TotalBlocks(scan.at)
    BY <1>1, <1>7 DEF Listing, Location
  <2>2. TotalBlocks(scan.at) * BlockUnits = from
    BY <1>5, NextBlock
  <2> QED
    BY <2>1, <2>2
<1>8. place[n] = At(scan.file, from)
  BY <1>4 DEF Here
<1>9. Take(r, record, block)
  OBVIOUS
<1> HIDE DEF from, record, block, r
<1> QED
  BY <1>1, <1>2, <1>4, <1>5, <1>6, <1>7, <1>8, <1>9, QueryTakes

LEMMA ScanKeepsQuery ==
  ASSUME BlocksInv, Aligned, QueryInv, NextHeader \/ Resync \/ SkipMark \/ NextOnTape
  PROVE  QueryInv'
<1>1. scan # Idle
  <2>1. scan.pc \in {"next", "resync", "mark"}
    BY DEF NextHeader, Resync, SkipMark, NextOnTape
  <2> QED
    BY <2>1 DEF Idle
<1>2. scan' # Idle /\ scan'.by = scan.by /\ UNCHANGED drive /\ (scan.by # "query" => listed' = listed)
  BY <1>1, ScanGoesOn
<1>3. CASE ~Querying
  BY <1>1, <1>2, <1>3 DEF QueryInv, Querying
<1>4. CASE Querying /\ torn
  BY <1>2, <1>4 DEF QueryInv, Querying, drive
<1>5. ASSUME Querying, ~torn
      PROVE  QueryInv'
  <2>0. /\ Querying' /\ scan.by = "query"
        /\ \A place, start : Listing(place, start) => LaidOut(place) /\ \A n : n = start + Len(listed) => Knows(place, n)
    BY <1>2, <1>5 DEF Querying, Listing, Knows
  <2>1. CASE NextHeader
    <3>1. CASE ReadOn.res = "header"
      BY <1>2, <1>5, <2>1, <3>1, HeaderListed DEF NextHeader
    <3>2. CASE ReadOn.res # "header"
      <4>1. index' = index /\ listed' = listed
        BY <2>1, <3>2 DEF NextHeader
      <4>2. scan'.pc # "next"
        <5>1. scan' = [scan EXCEPT !.pc = "resync", !.at = ReadOn.at, !.pad = 0]
          BY <2>1, <3>2 DEF NextHeader
        <5>2. scan \in Scanning
          BY <1>1 DEF BlocksInv
        <5> DEFINE at == ReadOn.at
        <5> HIDE DEF at
        <5>3. scan' = [scan EXCEPT !.pc = "resync", !.at = at, !.pad = 0]
          BY <5>1 DEF at
        <5> QED
          BY <5>2, <5>3 DEF Scanning
      <4>3. \A place, start : Listing(place, start) => \A n : n = start + Len(listed) => OnTrack(place, n)'
        BY <2>0, <2>1, <3>2, EndOnTrack
      <4> QED
        BY <1>2, <1>5, <2>0, <4>1, <4>2, <4>3, QueryGoesOn
    <3> QED
      BY <3>1, <3>2
  <2>2. CASE NextOnTape
    <3>1. CASE ReadOn.res = "header"
      BY <1>2, <1>5, <2>2, <3>1, HeaderListed DEF NextOnTape
    <3>2. CASE ReadOn.res # "header"
      <4>1. index' = index /\ listed' = listed /\ ~isRegular
        BY <2>2, <3>2 DEF NextOnTape
      <4>2. \A place, start : Listing(place, start) => \A n : n = start + Len(listed) => OnTrack(place, n)'
        BY <2>0, <2>2, <3>2, MarkOnTrack
      <4> QED
        BY <1>2, <1>5, <2>0, <4>1, <4>2, QueryGoesOn
    <3> QED
      BY <3>1, <3>2
  <2>3. CASE SkipMark
    <3>1. index' = index /\ listed' = listed /\ scan' = [scan EXCEPT !.pc = "done"]
      BY <2>0, <2>3 DEF SkipMark
    <3>2. scan'.pc # "next"
      BY <1>1, <3>1 DEF BlocksInv, Scanning
    <3>3. \A place, start : Listing(place, start) => \A n : n = start + Len(listed) => OnTrack(place, n)'
      BY <2>0, <2>3, SkipOnTrack
    <3> QED
      BY <1>2, <1>5, <2>0, <3>1, <3>2, <3>3, QueryGoesOn
  <2>4. CASE Resync
    <3> DEFINE total == TotalBlocks(scan.at)
               from == total * BlockUnits
               r == ReadNext(headers, UnitsOf(1), from, 0)
               record == RecordOf(total)
               block == BlockOf(total)
    <3>1. scan.pc = "resync" /\ isRegular /\ scan.file = 1 /\ scan \in Scanning
      BY <1>1, <2>4 DEF Resync, BlocksInv, ScanOnDrive
    <3>2. total \in Nat /\ from \in Nat
      <4>1. total \in Nat
        BY <1>1, Position, TotalBlocksBounds
      <4> QED
        BY <4>1, UnitSizes, ProductNat
    <3>3. record \in Nat /\ block \in 0 .. RecordSize - 1 /\ record * RecordSize + block = total
      <4> HIDE DEF total
      <4> QED
        BY <3>2, PlaceOfTotal
    <3>4. PICK place, start : Listing(place, start)
      BY <1>5 DEF QueryInv
    <3>5. PICK n : n = start + Len(listed)
      OBVIOUS
    <3>6. LaidOut(place) /\ Knows(place, n)
      BY <2>0, <3>4, <3>5
    <3>7. \/ n \in 1 .. intact /\ r.res = "header" /\ place[n] = At(1, from)
          \/ n = intact + 1 /\ r.res = "eof" /\ r.at = Len(UnitsOf(1))
      BY <1>1, <3>1, <3>6, TrackIsFound
    <3>8. CASE r.res = "header"
      <4>1. Take(r, record, block)
        BY <2>4, <3>8 DEF Resync
      <4>2. (record * RecordSize + block) * BlockUnits = from
        BY <3>3
      <4> HIDE DEF from, record, block, total
      <4>3. r = ReadNext(headers, UnitsOf(scan.file), from, 0)
        BY <3>1
      <4> HIDE DEF r
      <4>4. n \in 1 .. intact /\ place[n] = At(scan.file, from)
        BY <3>1, <3>7, <3>8
      <4> QED
        BY <1>2, <1>5, <3>1, <3>2, <3>3, <3>4, <3>5, <4>1, <4>2, <4>3, <4>4, QueryTakes
    <3>9. CASE r.res # "header"
      <4>1. r.res = "eof"
        BY <3>7, <3>9
      <4>2. index' = index /\ listed' = listed /\ scan' = [scan EXCEPT !.pc = "mark", !.at = r.at]
        BY <2>4, <4>1 DEF Resync
      <4>3. scan'.pc # "next"
        <5> HIDE DEF r
        <5> QED
          BY <3>1, <4>2 DEF Scanning
      <4>4. \A p, s : Listing(p, s) => \A m : m = s + Len(listed) => OnTrack(p, m)'
        BY <2>0, <2>4, <3>9, SearchOnTrack
      <4> QED
        BY <1>2, <1>5, <2>0, <4>2, <4>3, <4>4, QueryGoesOn
    <3> QED
      BY <3>8, <3>9
  <2> QED
    BY <2>1, <2>2, <2>3, <2>4
<1> QED
  BY <1>3, <1>4, <1>5

LEMMA NextQueryInv ==
  ASSUME BlocksInv, LayoutInv, QueryInv, [Next]_blocksVars
  PROVE  QueryInv'
<1>1. CASE UNCHANGED blocksVars
  <2>1. UNCHANGED drive /\ index' = index /\ listed' = listed /\ scan' = scan
    BY <1>1 DEF blocksVars, drive
  <2>2. CASE ~Querying
    BY <2>1, <2>2 DEF QueryInv, Querying
  <2>3. CASE Querying
    <3>1. Querying' /\ torn' = torn
      BY <2>1, <2>3 DEF Querying, drive
    <3>2. ASSUME ~torn PROVE \E place, start : Listing(place, start)'
      <4>1. PICK place, start : Listing(place, start)
        BY <2>3, <3>2 DEF QueryInv
      <4>2. /\ headers' = headers /\ intact' = intact /\ isRegular' = isRegular
            /\ LaidOut(place)' /\ \A r : PlaceOf(r)' = PlaceOf(r)
            /\ \A n : Reached(headers, place, n)' = Reached(headers, place, n)
        BY <2>1, <4>1, DriveSame DEF Listing
      <4>3. IndexPlaced(place)'
        BY <2>1, <4>1, <4>2 DEF Listing, IndexPlaced
      <4>4. Here' = Here /\ EndOfData' = EndOfData /\ UnitsOf(1)' = UnitsOf(1)
        BY <2>1 DEF Here, EndOfData, UnitsOf, drive
      <4>5. OnTrack(place, start + Len(listed))'
        BY <2>1, <4>1, <4>2, <4>4 DEF Listing, OnTrack
      <4> QED
        BY <2>1, <4>1, <4>2, <4>3, <4>5 DEF Listing, Row, Location, TotalBlocks
    <3> QED
      BY <3>1, <3>2 DEF QueryInv
  <2> QED
    BY <2>2, <2>3
<1>2. ASSUME NEW batch \in Batches, Operation(batch) \/ Overwrite(batch) \/ Tear(batch)
      PROVE  QueryInv'
  <2>1. scan = Idle /\ listed' = listed
    BY <1>2 DEF Operation, Overwrite, Tear, Extend
  <2>2. scan' = Idle \/ scan'.by = "operation"
    BY <1>2, <2>1, ScanFields DEF Operation, Overwrite, Tear, IndexFromLast
  <2> QED
    BY <2>1, <2>2 DEF QueryInv, Querying
<1>3. CASE RecoveryIndex
  <2>1. scan = Idle /\ listed' = listed /\ scan'.by = "recovery"
    BY <1>3, ScanFields DEF RecoveryIndex
  <2> QED
    BY <2>1 DEF QueryInv, Querying
<1>4. ASSUME NEW row \in ToSet(index), Query(row)
      PROVE  QueryInv'
  BY <1>4, QueryBegins
<1>5. CASE ScanStep
  <2>1. CASE ScanEnd
    BY <2>1 DEF ScanEnd, QueryInv, Querying
  <2>2. CASE ~ScanEnd
    BY <1>5, <2>2, ScanKeepsQuery DEF ScanStep, LayoutInv
  <2> QED
    BY <2>1, <2>2
<1> QED
  BY <1>1, <1>2, <1>3, <1>4, <1>5 DEF Next

(* From whatever header the index knows recovery.Query is started, on a    *)
(* drive where nothing is torn it returns without an error, having listed  *)
(* what is indexed from that header on; of a regular file, with the same   *)
(* records and blocks.                                                     *)
THEOREM QueryAlwaysFinds ==
  ASSUME PlainPadding
  PROVE  Spec => []QueryFinds
<1>1. Init => QueryInv
  BY DEF Init, QueryInv, Querying
<1>2. BlocksInv /\ LayoutInv /\ QueryInv /\ [Next]_blocksVars => QueryInv'
  BY NextQueryInv
<1>3. ASSUME BlocksInv, QueryInv, scan.pc \in {"done", "failed"}, scan.by = "query", ~torn
      PROVE  /\ scan.pc = "done"
             /\ \E start \in DOMAIN index :
                  LET rest == SubSeq(index, start, Len(index))
                  IN  Ids(listed) = Ids(rest) /\ (isRegular => Places(listed) = Places(rest))
  <2>1. Querying
    BY <1>3 DEF Querying, Idle
  <2>2. PICK place, start : Listing(place, start)
    BY <1>3, <2>1 DEF QueryInv
  <2>3. /\ intact \in Nat /\ Len(index) = intact /\ start \in 1 .. intact
        /\ DOMAIN index = 1 .. intact /\ index \in Seq(Row)
        /\ Len(listed) \in Nat /\ DOMAIN listed = 1 .. Len(listed) /\ listed \in Seq(Row)
    BY <1>3, <2>2 DEF BlocksInv, Listing, LaidOut, DriveOK
  <2>4. scan.pc = "done" /\ start + Len(listed) = intact + 1
    <3>1. PICK n : n = start + Len(listed)
      OBVIOUS
    <3>2. OnTrack(place, n)
      BY <2>2, <3>1 DEF Listing
    <3>3. n \in 1 .. intact + 1 /\ ~(n <= intact)
      BY <1>3, <3>2 DEF OnTrack
    <3>4. n = intact + 1 /\ n > intact
      BY <2>3, <3>3
    <3> QED
      BY <1>3, <3>1, <3>2, <3>4 DEF OnTrack
  <2> DEFINE rest == SubSeq(index, start, Len(index))
  <2>5. /\ DOMAIN rest = DOMAIN listed
        /\ \A k \in DOMAIN listed : start + (k - 1) \in 1 .. intact /\ rest[k] = index[start + (k - 1)]
    <3>1. Len(rest) = Len(listed) /\ DOMAIN rest = 1 .. Len(rest)
      BY <2>3, <2>4
    <3>2. ASSUME NEW k \in 1 .. Len(listed)
          PROVE  start + (k - 1) \in 1 .. intact /\ rest[k] = index[start + (k - 1)]
      <4>1. start + (k - 1) \in 1 .. intact /\ start + k - 1 = start + (k - 1)
        BY <2>3, <2>4
      <4>2. rest[k] = index[start + k - 1]
        BY <2>3, <2>4
      <4> QED
        BY <4>1, <4>2
    <3> QED
      BY <2>3, <3>1, <3>2
  <2> HIDE DEF rest
  <2>6. ASSUME NEW k \in DOMAIN listed
        PROVE  /\ listed[k].id = rest[k].id
               /\ isRegular => listed[k].record = rest[k].record /\ listed[k].block = rest[k].block
    <3> DEFINE m == start + (k - 1)
    <3>1. m \in DOMAIN index /\ m <= intact /\ rest[k] = index[m]
      BY <2>3, <2>5
    <3>2. listed[k].id = m /\ (isRegular => PlaceOf(listed[k]) = place[m])
      BY <2>2 DEF Listing
    <3> HIDE DEF m
    <3>3. index[m].id = m /\ PlaceOf(index[m]) = place[m]
      BY <2>2, <3>1 DEF Listing, IndexPlaced
    <3>4. listed[k] \in Row /\ index[m] \in Row
      BY <2>3, <3>1
    <3>5. ASSUME isRegular PROVE listed[k].record = index[m].record /\ listed[k].block = index[m].block
      BY <3>2, <3>3, <3>4, <3>5, PlacesDiffer
    <3> QED
      BY <3>1, <3>2, <3>3, <3>5
  <2>7. Ids(listed) = Ids(rest) /\ (isRegular => Places(listed) = Places(rest))
    BY <2>5, <2>6 DEF Ids, Places
  <2>8. start \in DOMAIN index
    BY <2>3
  <2> QED
    BY <2>4, <2>7, <2>8 DEF rest
<1>4. BlocksInv /\ QueryInv => QueryFinds
  BY <1>3 DEF QueryFinds
<1> QED
  BY <1>1, <1>2, <1>4, AlwaysLayoutInv, PTL DEF Spec
=============================================================================
